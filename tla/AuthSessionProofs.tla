-------------------------- MODULE AuthSessionProofs --------------------------
(***************************************************************************)
(* Theorems about AuthSession, for any number of requests, flows, grants   *)
(* and failures and any lifetimes.                                         *)
(***************************************************************************)
EXTENDS AuthSession, TLAPS

\* A request carries what its step needs.
CarriesWhatItNeeds ==
  \A p \in Procs :
    /\ pc[p] \in {"pop", "popDel", "exchange"} =>
         /\ req[p].grant \in Grants
         /\ grant[req[p].grant] \in Flows
         /\ req[p].flow = grant[req[p].grant]
    /\ pc[p] = "put" => req[p].grant \in redeemed
    /\ pc[p] \in {"logout", "revoke", "delete", "csrf", "require", "handler"} =>
         req[p].grant \in handed

TypeInv == StateOK /\ CarriesWhatItNeeds

LEMMA TypeInit == Init => TypeInv
BY AuthAssumption DEF Init, TypeInv, StateOK, CarriesWhatItNeeds, Steps, Requests,
   NoRequest, SessionTTL, Larger

LEMMA SessionLifetime == SessionTTL \in Nat
BY AuthAssumption DEF SessionTTL, Larger

LEMMA Requesting ==
  /\ NoRequest \in Requests
  /\ \A g \in Grants, csrf \in BOOLEAN : WithCookie(g, csrf) \in Requests
BY DEF NoRequest, WithCookie, Requests

LEMMA FaultCounted == ASSUME StateOK, Fault PROVE faults' \in 0..MaxFaults
BY AuthAssumption DEF StateOK, Fault

LEMMA StoreFaultTyped ==
  ASSUME StateOK, NEW p \in Procs, StoreFault(p)
  PROVE  faults' \in 0..MaxFaults /\ storeHit' \subseteq Grants /\ abandoned' \subseteq Grants
BY FaultCounted DEF StateOK, StoreFault, Requests

LEMMA AbandonTyped ==
  ASSUME StateOK, NEW G \in SUBSET Grants, Abandon(G)
  PROVE  faults' \in 0..MaxFaults /\ storeHit' \subseteq Grants /\ abandoned' \subseteq Grants
BY FaultCounted DEF StateOK, Abandon

LEMMA LoginTyped ==
  ASSUME TypeInv, NEW f \in Flows, Login(f)
  PROVE  TypeInv'
BY FaultCounted, AuthAssumption
   DEF TypeInv, StateOK, CarriesWhatItNeeds, Login, NoFault, failureVars, resultVars

LEMMA AuthorizeTyped ==
  ASSUME TypeInv, NEW f \in Flows, NEW g \in Grants, Authorize(f, g)
  PROVE  TypeInv'
BY AuthAssumption
   DEF TypeInv, StateOK, CarriesWhatItNeeds, Authorize, failureVars, resultVars, storeVars

LEMMA ArriveTyped ==
  ASSUME TypeInv, NEW p \in Procs, Arrive(p)
  PROVE  TypeInv'
<1> USE DEF TypeInv, failureVars, resultVars, storeVars, keycloakVars, Begin, Goto
<1>1. CASE StartDevLogin(p)
  <2>1. StateOK'
    BY <1>1, Requesting DEF StartDevLogin, StateOK, Steps
  <2>2. CarriesWhatItNeeds'
    BY <1>1 DEF StartDevLogin, StateOK, CarriesWhatItNeeds
  <2> QED BY <2>1, <2>2
<1>2. ASSUME NEW g \in Grants, StartCallback(p, g) PROVE TypeInv'
  <2>1. StateOK'
    BY <1>2 DEF StartCallback, StateOK, Steps, Requests
  <2>2. CarriesWhatItNeeds'
    BY <1>2 DEF StartCallback, StateOK, CarriesWhatItNeeds
  <2> QED BY <2>1, <2>2
<1>3. ASSUME NEW g \in Grants, StartLogout(p, g) PROVE TypeInv'
  <2>1. StateOK'
    BY <1>3, Requesting DEF StartLogout, StateOK, Steps
  <2>2. CarriesWhatItNeeds'
    BY <1>3 DEF StartLogout, StateOK, CarriesWhatItNeeds, WithCookie
  <2> QED BY <2>1, <2>2
<1>4. ASSUME NEW g \in Grants, NEW csrf \in BOOLEAN, StartPost(p, g, csrf) PROVE TypeInv'
  <2>1. StateOK'
    BY <1>4, Requesting DEF StartPost, StateOK, Steps
  <2>2. CarriesWhatItNeeds'
    BY <1>4 DEF StartPost, StateOK, CarriesWhatItNeeds, WithCookie
  <2> QED BY <2>1, <2>2
<1> QED BY <1>1, <1>2, <1>3, <1>4 DEF Arrive

LEMMA EmptiedFlow ==
  ASSUME TypeInv, NEW f
  PROVE  [flow EXCEPT ![f] = 0] \in [Flows -> 0..FlowTTL]
<1>1. flow \in [Flows -> 0..FlowTTL] /\ 0 \in 0..FlowTTL
  BY AuthAssumption DEF TypeInv, StateOK
<1> QED BY <1>1

LEMMA PoppedTyped ==
  ASSUME TypeInv, NEW p \in Procs, pc[p] \in {"pop", "popDel"},
         NEW found \in BOOLEAN, Popped(p, found)
  PROVE  /\ pc' \in [Procs -> Steps] /\ req' \in [Procs -> Requests]
         /\ loaded' \in [Procs -> BOOLEAN] /\ pops' \in [Flows -> Nat]
<1>1. req[p].flow \in Flows
  BY DEF TypeInv, CarriesWhatItNeeds
<1>2. pops' \in [Flows -> Nat]
  BY <1>1 DEF TypeInv, StateOK, Popped
<1>3. /\ pc' \in [Procs -> Steps] /\ req' \in [Procs -> Requests]
      /\ loaded' \in [Procs -> BOOLEAN]
  BY Requesting DEF TypeInv, StateOK, Popped, Answer, Goto, Steps
<1> QED BY <1>2, <1>3

LEMMA SignInTyped ==
  ASSUME TypeInv, NEW p \in Procs, SignIn(p)
  PROVE  TypeInv'
<1> USE DEF TypeInv, failureVars, resultVars, storeVars, keycloakVars, Answer, Goto
<1>0. req[p].flow \in Flows \union {None} /\ req[p].grant \in Grants \union {None}
  BY DEF StateOK, Requests
<1>1. CASE PopMemory(p)
  <2>1. StateOK'
    <3>1. flow' \in [Flows -> 0..FlowTTL]
      BY <1>1, EmptiedFlow DEF PopMemory
    <3>2. PICK found \in BOOLEAN : Popped(p, found)
      <4>1. Popped(p, TRUE) \/ Popped(p, FALSE)
        BY <1>1 DEF PopMemory, Popped
      <4> QED BY <4>1
    <3>3. /\ pc' \in [Procs -> Steps] /\ req' \in [Procs -> Requests]
          /\ loaded' \in [Procs -> BOOLEAN] /\ pops' \in [Flows -> Nat]
      BY <1>1, <3>2, PoppedTyped DEF PopMemory
    <3> QED BY <1>1, <3>1, <3>3 DEF PopMemory, StateOK
  <2>2. CarriesWhatItNeeds'
    BY <1>1 DEF PopMemory, Popped, StateOK, CarriesWhatItNeeds
  <2> QED BY <2>1, <2>2
<1>2. CASE PopGet(p)
  <2>1. StateOK'
    BY <1>2, <1>0, Requesting DEF PopGet, StateOK, Steps
  <2>2. CarriesWhatItNeeds'
    BY <1>2 DEF PopGet, StateOK, CarriesWhatItNeeds
  <2> QED BY <2>1, <2>2
<1>3. CASE PopDel(p)
  <2>1. StateOK'
    <3>1. flow' \in [Flows -> 0..FlowTTL]
      BY <1>3, EmptiedFlow DEF PopDel
    <3>2. loaded[p] \in BOOLEAN
      BY DEF StateOK
    <3> QED BY <1>3, <3>1, <3>2, PoppedTyped DEF PopDel, StateOK
  <2>2. CarriesWhatItNeeds'
    BY <1>3 DEF PopDel, Popped, StateOK, CarriesWhatItNeeds
  <2> QED BY <2>1, <2>2
<1>4. CASE PopFails(p)
  <2>1. StateOK'
    BY <1>4, <1>0, Requesting, StoreFaultTyped, AuthAssumption DEF PopFails, StateOK, Steps
  <2>2. CarriesWhatItNeeds'
    BY <1>4 DEF PopFails, StateOK, CarriesWhatItNeeds
  <2> QED BY <2>1, <2>2
<1>5. CASE Exchange(p)
  <2>1. StateOK'
    BY <1>5, <1>0, AuthAssumption DEF Exchange, Redeem, CarriesWhatItNeeds, StateOK, Steps
  <2>2. CarriesWhatItNeeds'
    BY <1>5 DEF Exchange, Redeem, StateOK, CarriesWhatItNeeds
  <2> QED BY <2>1, <2>2
<1>6. CASE ExchangeFails(p)
  <2>1. StateOK'
    BY <1>6, Requesting DEF ExchangeFails, StateOK, Steps
  <2>2. CarriesWhatItNeeds'
    BY <1>6 DEF ExchangeFails, StateOK, CarriesWhatItNeeds
  <2> QED BY <2>1, <2>2
<1>7. CASE ExchangeUnheard(p)
  <2>1. req[p].grant \in Grants /\ grant[req[p].grant] # None
    BY <1>7, AuthAssumption DEF ExchangeUnheard, CarriesWhatItNeeds
  <2>2. StateOK'
    BY <1>7, <2>1, Requesting, AbandonTyped, AuthAssumption
       DEF ExchangeUnheard, Redeem, StateOK, Steps
  <2>3. CarriesWhatItNeeds'
    BY <1>7 DEF ExchangeUnheard, Redeem, StateOK, CarriesWhatItNeeds
  <2> QED BY <2>2, <2>3
<1>8. ASSUME NEW g \in Grants, PasswordGrant(p, g) PROVE TypeInv'
  <2>1. StateOK'
    <3>1. /\ grant' \in [Grants -> Flows \union {Password, None}]
          /\ token' \in [Grants -> 0..RefreshTTL]
          /\ redeemed' \subseteq {h \in Grants : grant'[h] # None}
          /\ redeemed \subseteq redeemed'
      BY <1>8, AuthAssumption DEF PasswordGrant, Redeem, StateOK
    <3>2. req' \in [Procs -> Requests] /\ pc' \in [Procs -> Steps]
      BY <1>8 DEF PasswordGrant, Requests, StateOK, Steps
    <3> QED BY <1>8, <3>1, <3>2 DEF PasswordGrant, StateOK
  <2>2. CarriesWhatItNeeds'
    BY <1>8, AuthAssumption DEF PasswordGrant, Redeem, StateOK, CarriesWhatItNeeds
  <2> QED BY <2>1, <2>2
<1>9. ASSUME NEW g \in Grants, PasswordGrantUnheard(p, g) PROVE TypeInv'
  <2>1. StateOK'
    BY <1>9, Requesting, AbandonTyped, AuthAssumption DEF PasswordGrantUnheard, Redeem, StateOK, Steps
  <2>2. CarriesWhatItNeeds'
    BY <1>9, AuthAssumption DEF PasswordGrantUnheard, Redeem, StateOK, CarriesWhatItNeeds
  <2> QED BY <2>1, <2>2
<1>10. CASE PasswordGrantFails(p)
  <2>1. StateOK'
    BY <1>10, Requesting DEF PasswordGrantFails, StateOK, Steps
  <2>2. CarriesWhatItNeeds'
    BY <1>10 DEF PasswordGrantFails, StateOK, CarriesWhatItNeeds
  <2> QED BY <2>1, <2>2
<1>11. CASE PutSession(p)
  <2>1. StateOK'
    BY <1>11, Requesting, SessionLifetime DEF PutSession, StoreSession, CarriesWhatItNeeds, StateOK, Steps
  <2>2. CarriesWhatItNeeds'
    BY <1>11 DEF PutSession, StoreSession, StateOK, CarriesWhatItNeeds
  <2> QED BY <2>1, <2>2
<1>12. CASE PutSessionFails(p)
  <2>1. StateOK'
    BY <1>12, Requesting, SessionLifetime, StoreFaultTyped DEF PutSessionFails, StoreSession, CarriesWhatItNeeds, StateOK, Steps
  <2>2. CarriesWhatItNeeds'
    BY <1>12 DEF PutSessionFails, StoreSession, StateOK, CarriesWhatItNeeds
  <2> QED BY <2>1, <2>2
<1> QED BY <1>1, <1>2, <1>3, <1>4, <1>5, <1>6, <1>7, <1>8, <1>9, <1>10, <1>11, <1>12
        DEF SignIn

LEMMA UseSessionTyped ==
  ASSUME TypeInv, NEW p \in Procs, UseSession(p)
  PROVE  TypeInv'
<1> USE DEF TypeInv, failureVars, resultVars, storeVars, keycloakVars, Answer, Goto, NoFault
<1>1. CASE LogoutGet(p)
  <2>1. StateOK'
    BY <1>1, StoreFaultTyped DEF LogoutGet, StateOK, Steps
  <2>2. CarriesWhatItNeeds'
    BY <1>1 DEF LogoutGet, StateOK, CarriesWhatItNeeds
  <2> QED BY <2>1, <2>2
<1>2. CASE Revoke(p)
  <2>1. {req[p].grant} \in SUBSET Grants
    BY <1>2 DEF Revoke, StateOK, CarriesWhatItNeeds
  <2>2. StateOK'
    BY <1>2, <2>1, AbandonTyped, AuthAssumption DEF Revoke, StateOK, Steps
  <2>3. CarriesWhatItNeeds'
    BY <1>2 DEF Revoke, StateOK, CarriesWhatItNeeds
  <2> QED BY <2>2, <2>3
<1>3. CASE DeleteSession(p)
  <2>1. StateOK'
    BY <1>3, Requesting, SessionLifetime, StoreFaultTyped DEF DeleteSession, CarriesWhatItNeeds, StateOK, Steps
  <2>2. CarriesWhatItNeeds'
    BY <1>3 DEF DeleteSession, StateOK, CarriesWhatItNeeds
  <2> QED BY <2>1, <2>2
<1>4. CASE CheckCSRF(p)
  <2>1. StateOK'
    BY <1>4, Requesting, StoreFaultTyped DEF CheckCSRF, StateOK, Steps
  <2>2. CarriesWhatItNeeds'
    BY <1>4 DEF CheckCSRF, StateOK, CarriesWhatItNeeds
  <2> QED BY <2>1, <2>2
<1>5. CASE RequireSession(p)
  <2>1. StateOK'
    BY <1>5, Requesting, StoreFaultTyped DEF RequireSession, StateOK, Steps
  <2>2. CarriesWhatItNeeds'
    BY <1>5 DEF RequireSession, StateOK, CarriesWhatItNeeds
  <2> QED BY <2>1, <2>2
<1>6. CASE HandlePost(p)
  <2>1. StateOK'
    BY <1>6, Requesting DEF HandlePost, StateOK, Steps
  <2>2. CarriesWhatItNeeds'
    BY <1>6 DEF HandlePost, StateOK, CarriesWhatItNeeds
  <2> QED BY <2>1, <2>2
<1> QED BY <1>1, <1>2, <1>3, <1>4, <1>5, <1>6 DEF UseSession

LEMMA TickTyped == ASSUME TypeInv, Tick PROVE TypeInv'
<1>1. \A n \in Nat : \A m \in 0..n : Less(m) \in 0..n
  BY DEF Less
<1>2. StateOK'
  BY <1>1, SessionLifetime, AuthAssumption
     DEF TypeInv, StateOK, Tick, failureVars, resultVars
<1>3. CarriesWhatItNeeds'
  BY DEF TypeInv, StateOK, CarriesWhatItNeeds, Tick
<1> QED BY <1>2, <1>3 DEF TypeInv

LEMMA RestartTyped == ASSUME TypeInv, Restart PROVE TypeInv'
<1>1. redeemed \subseteq Grants
  BY DEF TypeInv, StateOK
<1>2. {req[p].grant : p \in {q \in Procs : pc[q] = "put"}} \subseteq Grants
  BY <1>1 DEF TypeInv, CarriesWhatItNeeds
<1> DEFINE left == IF inMemory THEN redeemed
                   ELSE {req[p].grant : p \in {q \in Procs : pc[q] = "put"}}
<1>3. left \in SUBSET Grants
  BY <1>1, <1>2
<1>4. Abandon(left)
  BY DEF Restart
<1> HIDE DEF left
<1>5. faults' \in 0..MaxFaults /\ storeHit' \subseteq Grants /\ abandoned' \subseteq Grants
  BY <1>3, <1>4, AbandonTyped DEF TypeInv
<1>6. StateOK'
  BY <1>5, Requesting, SessionLifetime, AuthAssumption
     DEF TypeInv, StateOK, Restart, Steps, keycloakVars, resultVars, storeVars
<1>7. CarriesWhatItNeeds'
  BY DEF Restart, CarriesWhatItNeeds
<1> QED BY <1>6, <1>7 DEF TypeInv

LEMMA NextTyped == TypeInv /\ [Next]_vars => TypeInv'
<1>1. ASSUME TypeInv, UNCHANGED vars PROVE TypeInv'
  BY <1>1 DEF TypeInv, StateOK, CarriesWhatItNeeds, vars
<1> QED BY <1>1, LoginTyped, AuthorizeTyped, ArriveTyped, SignInTyped, UseSessionTyped,
           TickTyped, RestartTyped DEF Next

\* The kind of store is never changed.
LEMMA StoresStay == [Next]_vars => inMemory' = inMemory
<1>1. ASSUME NEW p \in Procs, Arrive(p) \/ UseSession(p) PROVE inMemory' = inMemory
  BY <1>1 DEF Arrive, StartDevLogin, StartCallback, StartLogout, StartPost, UseSession,
              LogoutGet, Revoke, DeleteSession, CheckCSRF, RequireSession, HandlePost
<1>2. ASSUME NEW p \in Procs, SignIn(p) PROVE inMemory' = inMemory
  BY <1>2 DEF SignIn, PopMemory, PopGet, PopDel, PopFails, Exchange, ExchangeFails,
              ExchangeUnheard, PasswordGrant, PasswordGrantUnheard, PasswordGrantFails,
              PutSession, PutSessionFails
<1>3. CASE \/ \E f \in Flows : Login(f)
           \/ \E f \in Flows, g \in Grants : Authorize(f, g)
           \/ Tick \/ Restart \/ UNCHANGED vars
  BY <1>3 DEF Login, Authorize, Tick, Restart, vars
<1> QED BY <1>1, <1>2, <1>3 DEF Next

\* Every variable keeps its type with Redis or without, whatever fails: a
\* session id is handed out, logged out or stored only for a redeemed grant.
THEOREM AuthTypes == Spec => []TypeOK
<1> DEFINE Inv == TypeInv /\ inMemory \in BOOLEAN
<1>1. Init => Inv
  BY TypeInit DEF Init
<1>2. Inv /\ [Next]_vars => Inv'
  BY NextTyped, StoresStay
<1>3. Inv => TypeOK
  BY DEF TypeInv, TypeOK
<1> HIDE DEF Inv
<1> QED BY <1>1, <1>2, <1>3, PTL DEF Spec

-----------------------------------------------------------------------------
(* In memory, Pop is atomic: one callback, and one session, per flow *)

\* Request p is on its way to open a session for flow f.
Opening(p, f) == pc[p] \in {"exchange", "put"} /\ grant[req[p].grant] = f

\* What one flow may have led to.
AtMostOne(f) ==
  /\ pops[f] <= 1
  /\ pops[f] = 0 => /\ \A p \in Procs : ~Opening(p, f)
                    /\ \A g \in opened : grant[g] # f
  /\ flow[f] > 0 => f \in asked
  /\ flow[f] > 0 \/ f \notin asked => pops[f] = 0
  /\ \A p, q \in Procs : Opening(p, f) /\ Opening(q, f) => p = q
  /\ \A p \in Procs, g \in opened : Opening(p, f) => grant[g] # f
  /\ \A g, h \in opened : grant[g] = f /\ grant[h] = f => g = h

FlowInv == /\ TypeInv
           /\ \A p \in Procs : pc[p] # "popDel"
           /\ \A f \in Flows : AtMostOne(f)

LEMMA FlowInit == Init => FlowInv
<1> SUFFICES ASSUME Init PROVE FlowInv
  OBVIOUS
<1>1. TypeInv
  BY TypeInit
<1>2. ASSUME NEW f \in Flows PROVE AtMostOne(f)
  BY DEF Init, AtMostOne, Opening
<1> QED BY <1>1, <1>2 DEF Init, FlowInv

\* Steps that open nothing new: requests leave or stay, codes are fresh, flow
\* states only go.
LEMMA NothingOpens ==
  ASSUME FlowInv, NEW f \in Flows,
         pops'[f] = pops[f], opened' = opened, asked \subseteq asked',
         flow'[f] > 0 => pops[f] = 0 /\ f \in asked',
         \A p \in Procs : Opening(p, f)' => Opening(p, f),
         \A g \in opened : grant'[g] = grant[g]
  PROVE  AtMostOne(f)'
BY DEF FlowInv, AtMostOne

LEMMA FlowsOfOpened ==
  ASSUME FlowInv
  PROVE  /\ opened \subseteq Grants /\ \A g \in opened : grant[g] # None
         /\ \A p \in Procs : pc[p] \in {"exchange", "put"} =>
              req[p].grant \in Grants /\ grant[req[p].grant] # None
         /\ \A f \in Flows : flow[f] \in Nat /\ pops[f] \in Nat
         /\ None \notin Flows /\ Password \notin Flows
BY AuthAssumption DEF FlowInv, TypeInv, StateOK, CarriesWhatItNeeds

LEMMA FlowArrive ==
  ASSUME FlowInv, NEW p \in Procs, Arrive(p), NEW f \in Flows
  PROVE  AtMostOne(f)'
<1> USE DEF Begin, Goto, keycloakVars, resultVars, storeVars
<1>1. /\ UNCHANGED <<flow, pops, opened, asked, grant>>
      /\ \E step \in {"password", "pop", "logout", "csrf"} : pc' = [pc EXCEPT ![p] = step]
      /\ \A q \in Procs \ {p} : req'[q] = req[q]
  BY DEF Arrive, StartDevLogin, StartCallback, StartLogout, StartPost, FlowInv, TypeInv, StateOK
<1>2. pc \in [Procs -> Steps]
  BY DEF FlowInv, TypeInv, StateOK
<1>3. \A q \in Procs : Opening(q, f)' => Opening(q, f)
  BY <1>1, <1>2 DEF Opening
<1>4. AtMostOne(f)'
  BY <1>1, <1>3, NothingOpens DEF FlowInv, AtMostOne
<1> QED BY <1>1, <1>2, <1>4

LEMMA FlowUse ==
  ASSUME FlowInv, NEW p \in Procs, UseSession(p), NEW f \in Flows
  PROVE  AtMostOne(f)'
<1> USE DEF Answer, Goto, keycloakVars, resultVars, storeVars
<1>1. /\ UNCHANGED <<flow, pops, opened, asked, grant>>
      /\ \E step \in {"idle", "revoke", "delete", "require", "handler"} :
           pc' = [pc EXCEPT ![p] = step]
      /\ \A q \in Procs \ {p} : req'[q] = req[q]
  BY DEF UseSession, LogoutGet, Revoke, DeleteSession, CheckCSRF, RequireSession,
         HandlePost, FlowInv, TypeInv, StateOK
<1>2. pc \in [Procs -> Steps]
  BY DEF FlowInv, TypeInv, StateOK
<1>3. \A q \in Procs : Opening(q, f)' => Opening(q, f)
  BY <1>1, <1>2 DEF Opening
<1>4. AtMostOne(f)'
  BY <1>1, <1>3, NothingOpens DEF FlowInv, AtMostOne
<1> QED BY <1>1, <1>2, <1>4

LEMMA FlowEnvironment ==
  ASSUME FlowInv, inMemory, NEW f \in Flows,
         \/ \E e \in Flows : Login(e)
         \/ \E e \in Flows, g \in Grants : Authorize(e, g)
         \/ Tick \/ Restart \/ UNCHANGED vars
  PROVE  AtMostOne(f)'
<1> USE DEF keycloakVars, resultVars, storeVars
<1>0. /\ opened \subseteq Grants /\ \A g \in opened : grant[g] # None
      /\ \A p \in Procs : pc[p] \in {"exchange", "put"} =>
           req[p].grant \in Grants /\ grant[req[p].grant] # None
      /\ \A e \in Flows : flow[e] \in Nat /\ pops[e] \in Nat
      /\ None \notin Flows /\ Password \notin Flows
  BY FlowsOfOpened
<1>1. ASSUME NEW e \in Flows, Login(e)
      PROVE  AtMostOne(f)'
  <2>1. UNCHANGED <<grant, pc, req, pops, opened>> /\ asked' = asked \union {e}
    BY <1>1 DEF Login
  <2>2. flow'[f] > 0 => (flow[f] > 0 \/ f \notin asked) /\ (f = e \/ flow[f] > 0)
    BY <1>1 DEF Login, FlowInv, TypeInv, StateOK
  <2>3. AtMostOne(f)'
    BY <2>1, <2>2 DEF FlowInv, AtMostOne, Opening
  <2> QED BY <2>1, <2>3 DEF FlowInv
<1>2. ASSUME NEW e \in Flows, NEW g \in Grants, Authorize(e, g)
      PROVE  AtMostOne(f)'
  <2>1. UNCHANGED <<flow, asked, pc, req, pops, opened>>
    BY <1>2 DEF Authorize
  <2>2. \A h \in Grants : grant[h] # None => grant'[h] = grant[h]
    BY <1>2 DEF Authorize, FlowInv, TypeInv, StateOK
  <2>3. \A p \in Procs : Opening(p, f)' => Opening(p, f)
    BY <1>0, <2>1, <2>2 DEF Opening
  <2>4. AtMostOne(f)'
    BY <1>0, <2>1, <2>2, <2>3, NothingOpens DEF FlowInv, AtMostOne
  <2> QED BY <2>1, <2>4 DEF FlowInv
<1>3. CASE Tick
  <2>1. UNCHANGED <<asked, grant, pc, req, pops, opened>>
    BY <1>3 DEF Tick
  <2>2. flow'[f] > 0 => flow[f] > 0
    BY <1>0, <1>3 DEF Tick, Less
  <2>3. AtMostOne(f)'
    BY <2>1, <2>2 DEF FlowInv, AtMostOne, Opening
  <2> QED BY <2>1, <2>3 DEF FlowInv
<1>4. CASE Restart
  <2>1. UNCHANGED <<asked, grant, pops, opened>> /\ flow'[f] = 0
    BY <1>4 DEF Restart
  <2>2. \A p \in Procs : pc'[p] = "idle"
    BY <1>4 DEF Restart
  <2>3. AtMostOne(f)'
    BY <2>1, <2>2 DEF FlowInv, AtMostOne, Opening
  <2> QED BY <2>2, <2>3
<1>5. CASE UNCHANGED vars
  BY <1>5 DEF vars, FlowInv, AtMostOne, Opening
<1> QED BY <1>1, <1>2, <1>3, <1>4, <1>5

LEMMA FlowSignIn ==
  ASSUME FlowInv, inMemory, NEW p \in Procs, SignIn(p), NEW f \in Flows
  PROVE  AtMostOne(f)'
<1> USE DEF Goto, keycloakVars, resultVars, storeVars
<1>0. /\ opened \subseteq Grants /\ \A g \in opened : grant[g] # None
      /\ \A q \in Procs : pc[q] \in {"exchange", "put"} =>
           req[q].grant \in Grants /\ grant[req[q].grant] # None
      /\ \A e \in Flows : flow[e] \in Nat /\ pops[e] \in Nat
      /\ None \notin Flows /\ Password \notin Flows
  BY FlowsOfOpened
<1>t. /\ pc \in [Procs -> Steps] /\ req \in [Procs -> Requests]
      /\ grant \in [Grants -> Flows \union {Password, None}]
      /\ pops \in [Flows -> Nat] /\ flow \in [Flows -> 0..FlowTTL]
      /\ pc[p] # "popDel" /\ AtMostOne(f)
  BY DEF FlowInv, TypeInv, StateOK
<1>1. CASE PopMemory(p)
  <2> DEFINE e == req[p].flow
  <2>1. e \in Flows /\ e = grant[req[p].grant] /\ pc[p] = "pop"
    BY <1>1 DEF PopMemory, FlowInv, TypeInv, CarriesWhatItNeeds
  <2>2. UNCHANGED <<asked, grant, opened>> /\ flow' = [flow EXCEPT ![e] = 0]
    BY <1>1 DEF PopMemory
  <2>3. CASE flow[e] > 0
    <3>1. /\ pc' = [pc EXCEPT ![p] = "exchange"] /\ req' = req
          /\ pops' = [pops EXCEPT ![e] = @ + 1]
      BY <1>1, <2>3 DEF PopMemory, Popped
    <3>2. CASE e = f
      <4>1. pops[f] = 0 /\ pops'[f] = 1
        BY <1>0, <1>t, <2>1, <2>3, <3>1, <3>2 DEF AtMostOne
      <4>2. \A q \in Procs : Opening(q, f)' => q = p
        BY <1>t, <2>2, <3>1, <4>1 DEF AtMostOne, Opening
      <4>3. \A g \in opened' : grant'[g] # f
        BY <1>t, <2>2, <4>1 DEF AtMostOne
      <4>4. ~(flow'[f] > 0) /\ (f \notin asked' => pops'[f] = 0)
        <5>1. f \in asked
          BY <1>t, <2>3, <3>2 DEF AtMostOne
        <5> QED BY <1>t, <2>1, <2>2, <3>2, <5>1
      <4> QED BY <4>1, <4>2, <4>3, <4>4 DEF AtMostOne
    <3>3. CASE e # f
      <4>1. pops'[f] = pops[f] /\ flow'[f] = flow[f]
        BY <1>t, <2>1, <2>2, <3>1, <3>3
      <4>2. \A q \in Procs : Opening(q, f)' => Opening(q, f)
        BY <1>t, <2>1, <2>2, <3>1, <3>3 DEF Opening
      <4> QED BY <1>t, <2>2, <4>1, <4>2, NothingOpens DEF AtMostOne
    <3> QED BY <1>t, <3>1, <3>2, <3>3
  <2>4. CASE ~(flow[e] > 0)
    <3>1. /\ pc' = [pc EXCEPT ![p] = "idle"] /\ pops' = pops
          /\ \A q \in Procs \ {p} : req'[q] = req[q]
      BY <1>1, <1>t, <2>4 DEF PopMemory, Popped, Answer
    <3>2. flow'[f] > 0 => flow[f] > 0
      BY <1>0, <1>t, <2>1, <2>2
    <3>3. \A q \in Procs : Opening(q, f)' => Opening(q, f)
      BY <1>t, <2>2, <3>1 DEF Opening
    <3>4. AtMostOne(f)'
      BY <1>t, <2>2, <3>1, <3>2, <3>3, NothingOpens DEF AtMostOne
    <3> QED BY <1>t, <3>1, <3>4
  <2> QED BY <2>3, <2>4
<1>2. CASE PopGet(p) \/ PopDel(p) \/ PopFails(p) \/ PutSessionFails(p)
  BY <1>2, <1>t DEF PopGet, PopDel, PopFails, PutSessionFails, StoreFault
<1>3. CASE Exchange(p)
  <2>1. /\ pc[p] = "exchange" /\ pc' = [pc EXCEPT ![p] = "put"]
        /\ UNCHANGED <<flow, asked, grant, pops, opened, req>>
    BY <1>3 DEF Exchange
  <2>2. \A q \in Procs : Opening(q, f)' => Opening(q, f)
    BY <1>t, <2>1 DEF Opening
  <2>3. AtMostOne(f)'
    BY <1>t, <2>1, <2>2, NothingOpens DEF AtMostOne
  <2> QED BY <1>t, <2>1, <2>3
<1>4. CASE ExchangeFails(p) \/ ExchangeUnheard(p) \/ PasswordGrantFails(p)
  <2>1. /\ pc' = [pc EXCEPT ![p] = "idle"]
        /\ UNCHANGED <<flow, asked, grant, pops, opened>>
        /\ \A q \in Procs \ {p} : req'[q] = req[q]
    BY <1>4, <1>t DEF ExchangeFails, ExchangeUnheard, PasswordGrantFails, Answer
  <2>2. \A q \in Procs : Opening(q, f)' => Opening(q, f)
    BY <1>t, <2>1 DEF Opening
  <2>3. AtMostOne(f)'
    BY <1>t, <2>1, <2>2, NothingOpens DEF AtMostOne
  <2> QED BY <1>t, <2>1, <2>3
<1>5. ASSUME NEW g \in Grants, PasswordGrant(p, g) \/ PasswordGrantUnheard(p, g)
      PROVE  AtMostOne(f)'
  <2>1. /\ grant[g] = None /\ grant' = [grant EXCEPT ![g] = Password]
        /\ UNCHANGED <<flow, asked, pops, opened>>
        /\ \/ /\ pc' = [pc EXCEPT ![p] = "put"]
              /\ req' = [req EXCEPT ![p].grant = g]
           \/ /\ pc' = [pc EXCEPT ![p] = "idle"]
              /\ \A q \in Procs \ {p} : req'[q] = req[q]
    BY <1>5, <1>t DEF PasswordGrant, PasswordGrantUnheard, Answer
  <2>2. \A h \in Grants : grant[h] # None => grant'[h] = grant[h]
    BY <1>t, <2>1
  <2>3. grant'[g] = Password /\ g \notin opened
    BY <1>0, <1>t, <2>1
  <2>4. ASSUME NEW q \in Procs, Opening(q, f)' PROVE Opening(q, f)
    <3>1. CASE q = p
      <4>1. pc' = [pc EXCEPT ![p] = "put"] /\ req'[p].grant = g
        BY <1>t, <2>1, <2>4, <3>1 DEF Opening, Requests
      <4> QED BY <1>0, <2>3, <2>4, <3>1, <4>1 DEF Opening
    <3>2. CASE q # p
      <4>1. pc'[q] = pc[q] /\ req'[q] = req[q]
        BY <1>t, <2>1, <3>2
      <4> QED BY <1>0, <2>2, <2>4, <4>1 DEF Opening
    <3> QED BY <3>1, <3>2
  <2>5. AtMostOne(f)'
    BY <1>0, <1>t, <2>1, <2>2, <2>4, NothingOpens DEF AtMostOne
  <2> QED BY <1>t, <2>1, <2>5
<1>6. CASE PutSession(p)
  <2> DEFINE g == req[p].grant
  <2>1. /\ pc[p] = "put" /\ pc' = [pc EXCEPT ![p] = "idle"]
        /\ UNCHANGED <<flow, asked, grant, pops>> /\ opened' = opened \union {g}
        /\ \A q \in Procs \ {p} : req'[q] = req[q]
    BY <1>6, <1>t DEF PutSession, StoreSession, Answer
  <2>2. \A q \in Procs : Opening(q, f)' => Opening(q, f) /\ q # p
    BY <1>t, <2>1 DEF Opening
  <2>3. CASE grant[g] = f
    <3>1. Opening(p, f)
      BY <2>1, <2>3 DEF Opening
    <3> QED BY <1>0, <1>t, <2>1, <2>2, <2>3, <3>1 DEF AtMostOne
  <2>4. CASE grant[g] # f
    <3> QED BY <1>0, <1>t, <2>1, <2>2, <2>4 DEF AtMostOne
  <2> QED BY <2>3, <2>4
<1> QED BY <1>1, <1>2, <1>3, <1>4, <1>5, <1>6 DEF SignIn

LEMMA MemoryPopsAtOnce ==
  ASSUME StateOK, inMemory, [Next]_vars, \A q \in Procs : pc[q] # "popDel"
  PROVE  \A q \in Procs : pc'[q] # "popDel"
<1> USE DEF Goto, Answer, Begin, StateOK
<1>1. ASSUME NEW p \in Procs, Arrive(p) PROVE \A q \in Procs : pc'[q] # "popDel"
  BY <1>1 DEF Arrive, StartDevLogin, StartCallback, StartLogout, StartPost
<1>2. ASSUME NEW p \in Procs, UseSession(p) PROVE \A q \in Procs : pc'[q] # "popDel"
  BY <1>2 DEF UseSession, LogoutGet, Revoke, DeleteSession, CheckCSRF, RequireSession,
              HandlePost
<1>3. ASSUME NEW p \in Procs, SignIn(p) PROVE \A q \in Procs : pc'[q] # "popDel"
  BY <1>3 DEF SignIn, PopMemory, Popped, PopGet, PopDel, PopFails, Exchange, ExchangeFails,
              ExchangeUnheard, PasswordGrant, PasswordGrantUnheard, PasswordGrantFails,
              PutSession, PutSessionFails
<1>4. CASE \/ \E f \in Flows : Login(f)
           \/ \E f \in Flows, g \in Grants : Authorize(f, g)
           \/ Tick \/ Restart \/ UNCHANGED vars
  BY <1>4 DEF Login, Authorize, Tick, Restart, vars
<1> QED BY <1>1, <1>2, <1>3, <1>4 DEF Next

\* What is invariant of a process that started without Redis.
InMemoryInv == inMemory => FlowInv

LEMMA InMemoryNext == TypeInv /\ InMemoryInv /\ [Next]_vars => InMemoryInv'
<1> SUFFICES ASSUME inMemory', FlowInv \/ ~inMemory, [Next]_vars PROVE FlowInv'
  BY DEF InMemoryInv
<1>0. inMemory /\ FlowInv
  BY StoresStay
<1>1. TypeInv'
  BY <1>0, NextTyped DEF FlowInv
<1>2. ASSUME NEW f \in Flows PROVE AtMostOne(f)'
  BY <1>0, FlowArrive, FlowUse, FlowEnvironment, FlowSignIn DEF Next
<1>3. \A q \in Procs : pc'[q] # "popDel"
  BY <1>0, MemoryPopsAtOnce DEF FlowInv, TypeInv, StateOK
<1> QED BY <1>1, <1>2, <1>3 DEF FlowInv

\* With the in-memory stores one callback of a flow gets its state, for any
\* number of callbacks: memoryFlowStateStore.pop reads and deletes under the
\* mutex (redis_store.go 271-286).
THEOREM PopIsAtomicInMemory == Spec => []PoppedOnceInMemory
<1>1. Init => TypeInv /\ InMemoryInv
  BY FlowInit, TypeInit DEF InMemoryInv
<1>2. TypeInv /\ InMemoryInv /\ [Next]_vars => TypeInv' /\ InMemoryInv'
  BY InMemoryNext, NextTyped
<1>3. InMemoryInv => PoppedOnceInMemory
  BY DEF InMemoryInv, FlowInv, AtMostOne, PoppedOnce, PoppedOnceInMemory
<1> QED BY <1>1, <1>2, <1>3, PTL DEF Spec

\* With the in-memory stores a login flow opens at most one session, however
\* many codes Keycloak gives out for it and however the callbacks, the
\* failures of Keycloak and restarts interleave.
THEOREM OneSessionInMemory == Spec => []OneSessionPerFlow
<1>1. Init => TypeInv /\ InMemoryInv
  BY FlowInit, TypeInit DEF InMemoryInv
<1>2. TypeInv /\ InMemoryInv /\ [Next]_vars => TypeInv' /\ InMemoryInv'
  BY InMemoryNext, NextTyped
<1>3. InMemoryInv => OneSessionPerFlow
  BY DEF InMemoryInv, FlowInv, AtMostOne, OneSessionPerFlow
<1> QED BY <1>1, <1>2, <1>3, PTL DEF Spec
-----------------------------------------------------------------------------
(* A session is opened once, for good or ill *)

\* A request moves from one step to another, and only its own data changes.
Moves(p, from, to) ==
  /\ pc[p] \in from
  /\ \E step \in to : pc' = [pc EXCEPT ![p] = step]
  /\ \A q \in Procs \ {p} : req'[q] = req[q]

FailuresRemembered == storeHit \subseteq storeHit' /\ abandoned \subseteq abandoned'

\* Nothing a session or a token depends on changes.
Quiet == /\ UNCHANGED <<session, token, redeemed, handed, opened, loggedOut>>
         /\ FailuresRemembered

\* Keycloak redeems g for request p, which puts its session next, or is lost.
RedeemsFor(p, g) ==
  /\ Redeem(g)
  /\ UNCHANGED <<session, handed, opened, loggedOut>>
  /\ FailuresRemembered
  /\ \/ Moves(p, {"exchange", "password"}, {"put"}) /\ req'[p].grant = g
     \/ Moves(p, {"exchange", "password"}, {"idle"}) /\ g \in abandoned'

LEMMA FailuresStay ==
  /\ NoFault => FailuresRemembered
  /\ \A p \in Procs : StoreFault(p) => FailuresRemembered
  /\ \A G : Abandon(G) => FailuresRemembered
BY DEF NoFault, StoreFault, Abandon, FailuresRemembered, failureVars

LEMMA SignInKinds ==
  ASSUME TypeInv, NEW p \in Procs, SignIn(p)
  PROVE  \/ Quiet /\ Moves(p, {"pop", "popDel", "exchange", "password"},
                              {"idle", "popDel", "exchange"})
         \/ \E g \in Grants : RedeemsFor(p, g)
         \/ PutSession(p) \/ PutSessionFails(p)
<1> USE DEF Goto, Answer, keycloakVars, resultVars, storeVars, TypeInv, StateOK
<1>1. CASE PopMemory(p) \/ PopDel(p)
  BY <1>1 DEF PopMemory, PopDel, Popped, Quiet, Moves, FailuresRemembered, failureVars
<1>2. CASE PopGet(p)
  BY <1>2 DEF PopGet, Quiet, Moves, FailuresRemembered, failureVars
<1>3. CASE PopFails(p)
  BY <1>3, FailuresStay DEF PopFails, Quiet, Moves
<1>4. CASE ExchangeFails(p) \/ PasswordGrantFails(p)
  BY <1>4 DEF ExchangeFails, PasswordGrantFails, Quiet, Moves, FailuresRemembered, failureVars
<1>5. CASE Exchange(p) \/ ExchangeUnheard(p)
  <2> DEFINE g == req[p].grant
  <2>1. g \in Grants
    BY <1>5 DEF Exchange, ExchangeUnheard, CarriesWhatItNeeds
  <2>2. RedeemsFor(p, g)
    <3>1. CASE Exchange(p)
      BY <3>1 DEF Exchange, RedeemsFor, Moves, FailuresRemembered, failureVars
    <3>2. CASE ExchangeUnheard(p)
      <4>1. FailuresRemembered /\ g \in abandoned'
        BY <3>2, FailuresStay DEF ExchangeUnheard, Abandon
      <4> QED BY <3>2, <4>1 DEF ExchangeUnheard, RedeemsFor, Moves
    <3> QED BY <1>5, <3>1, <3>2
  <2> HIDE DEF g
  <2> QED BY <2>1, <2>2
<1>6. ASSUME NEW g \in Grants, PasswordGrant(p, g)
      PROVE  RedeemsFor(p, g)
  BY <1>6 DEF PasswordGrant, RedeemsFor, Moves, Requests, FailuresRemembered, failureVars
<1>7. ASSUME NEW g \in Grants, PasswordGrantUnheard(p, g)
      PROVE  RedeemsFor(p, g)
  <2>1. FailuresRemembered /\ g \in abandoned'
    BY <1>7, FailuresStay DEF PasswordGrantUnheard, Abandon
  <2> QED BY <1>7, <2>1 DEF PasswordGrantUnheard, RedeemsFor, Moves
<1> QED BY <1>1, <1>2, <1>3, <1>4, <1>5, <1>6, <1>7 DEF SignIn

\* The steps that are no request's own, and those of a session in use.
LEMMA ArriveKinds ==
  ASSUME TypeInv, NEW p \in Procs, Arrive(p)
  PROVE  Quiet /\ Moves(p, {"idle"}, {"password", "pop", "logout", "csrf"})
BY DEF Arrive, StartDevLogin, StartCallback, StartLogout, StartPost, Begin, Goto, Quiet,
       Moves, FailuresRemembered, keycloakVars, resultVars, storeVars, failureVars,
       TypeInv, StateOK

LEMMA UseSessionKinds ==
  ASSUME TypeInv, NEW p \in Procs, UseSession(p)
  PROVE  /\ UNCHANGED <<redeemed, handed, opened>> /\ FailuresRemembered
         /\ Moves(p, {"logout", "revoke", "delete", "csrf", "require", "handler"},
                     {"idle", "revoke", "delete", "require", "handler"})
         /\ ~Revoke(p) => UNCHANGED token
         /\ ~DeleteSession(p) => UNCHANGED <<session, loggedOut>>
<1> USE DEF Goto, Answer, keycloakVars, resultVars, storeVars, TypeInv, StateOK
<1>1. FailuresRemembered
  BY FailuresStay DEF UseSession, LogoutGet, Revoke, DeleteSession, CheckCSRF,
                      RequireSession, HandlePost, NoFault
<1>2. /\ UNCHANGED <<redeemed, handed, opened>>
      /\ ~Revoke(p) => UNCHANGED token
      /\ ~DeleteSession(p) => UNCHANGED <<session, loggedOut>>
  BY DEF UseSession, LogoutGet, Revoke, DeleteSession, CheckCSRF, RequireSession, HandlePost
<1>3. Moves(p, {"logout", "revoke", "delete", "csrf", "require", "handler"},
               {"idle", "revoke", "delete", "require", "handler"})
  BY DEF UseSession, LogoutGet, Revoke, DeleteSession, CheckCSRF, RequireSession,
         HandlePost, Moves
<1> QED BY <1>1, <1>2, <1>3

LEMMA OutsideKinds ==
  ASSUME TypeInv, \/ \E f \in Flows : Login(f)
                  \/ \E f \in Flows, g \in Grants : Authorize(f, g)
                  \/ UNCHANGED vars
  PROVE  Quiet /\ UNCHANGED <<pc, req>>
<1>1. FailuresRemembered
  BY FailuresStay DEF Login, Authorize, NoFault, Fault, FailuresRemembered, failureVars, vars
<1> QED BY <1>1 DEF Login, Authorize, Quiet, vars, storeVars, resultVars
\* A session waits to be put only for a grant no session was stored for yet,
\* and by one request.
PutsAreNew ==
  /\ \A p \in Procs : pc[p] = "put" => req[p].grant \notin opened \union handed
  /\ \A p, q \in Procs : pc[p] = "put" /\ pc[q] = "put" /\ req[p].grant = req[q].grant => p = q

LEMMA PutsAreNewNext ==
  ASSUME TypeInv, PutsAreNew, [Next]_vars
  PROVE  PutsAreNew'
<1> USE DEF PutsAreNew
<1>t. /\ pc \in [Procs -> Steps] /\ opened \subseteq redeemed /\ handed \subseteq redeemed
      /\ \A p \in Procs : pc[p] = "put" => req[p].grant \in redeemed
  BY DEF TypeInv, StateOK, CarriesWhatItNeeds
<1>1. ASSUME NEW p \in Procs, NEW from, NEW to, "put" \notin to, Moves(p, from, to),
             UNCHANGED <<opened, handed>>
      PROVE  PutsAreNew'
  BY <1>t, <1>1 DEF Moves
<1>2. ASSUME NEW p \in Procs, Arrive(p) PROVE PutsAreNew'
  BY <1>1, <1>2, ArriveKinds DEF Quiet
<1>3. ASSUME NEW p \in Procs, UseSession(p) PROVE PutsAreNew'
  BY <1>1, <1>3, UseSessionKinds
<1>4. ASSUME NEW p \in Procs, SignIn(p) PROVE PutsAreNew'
  <2>1. ASSUME NEW g \in Grants, RedeemsFor(p, g) PROVE PutsAreNew'
    <3>1. g \notin redeemed /\ UNCHANGED <<opened, handed>>
      BY <2>1 DEF RedeemsFor, Redeem
    <3>2. CASE Moves(p, {"exchange", "password"}, {"put"}) /\ req'[p].grant = g
      BY <1>t, <3>1, <3>2 DEF Moves
    <3>3. CASE Moves(p, {"exchange", "password"}, {"idle"})
      BY <1>1, <3>1, <3>3
    <3> QED BY <2>1, <3>2, <3>3 DEF RedeemsFor
  <2>2. CASE PutSession(p) \/ PutSessionFails(p)
    <3>1. pc[p] = "put" /\ pc' = [pc EXCEPT ![p] = "idle"] /\ req' = [req EXCEPT ![p] = NoRequest]
      BY <2>2 DEF PutSession, PutSessionFails, Answer, Goto
    <3>2. /\ opened' \subseteq opened \union {req[p].grant}
          /\ handed' \subseteq handed \union {req[p].grant}
      BY <2>2 DEF PutSession, PutSessionFails, StoreSession
    <3>3. \A q \in Procs : pc'[q] = "put" => q # p /\ pc[q] = "put" /\ req'[q] = req[q]
      BY <1>t, <3>1 DEF TypeInv, StateOK
    <3> QED BY <3>1, <3>2, <3>3
  <2> QED BY <1>1, <1>4, <2>1, <2>2, SignInKinds DEF Quiet
<1>5. CASE \/ \E f \in Flows : Login(f)
           \/ \E f \in Flows, g \in Grants : Authorize(f, g)
           \/ UNCHANGED vars
  BY <1>5, OutsideKinds DEF Quiet
<1>6. CASE Tick
  BY <1>6 DEF Tick, resultVars
<1>7. CASE Restart
  BY <1>7 DEF Restart
<1> QED BY <1>2, <1>3, <1>4, <1>5, <1>6, <1>7 DEF Next

\* The session of a cookie that has been handed out never comes back.
LEMMA ClosedForGood ==
  ASSUME TypeInv, PutsAreNew, [Next]_vars
  PROVE  /\ FailuresRemembered /\ handed \subseteq handed' /\ redeemed \subseteq redeemed'
         /\ \A g \in handed : session[g] = 0 => session'[g] = 0
<1>t. /\ session \in [Grants -> 0..SessionTTL] /\ handed \subseteq Grants
  BY DEF TypeInv, StateOK
<1>1. ASSUME NEW p \in Procs, Arrive(p) \/ SignIn(p)
      PROVE  /\ FailuresRemembered /\ handed \subseteq handed' /\ redeemed \subseteq redeemed'
             /\ \A g \in handed : session[g] = 0 => session'[g] = 0
  <2>1. CASE PutSession(p) \/ PutSessionFails(p)
    <3>1. req[p].grant \notin handed
      BY <2>1 DEF PutSession, PutSessionFails, PutsAreNew
    <3>2. \A g \in handed : session'[g] = session[g]
      BY <1>t, <2>1, <3>1 DEF PutSession, PutSessionFails, StoreSession
    <3>3. FailuresRemembered /\ handed \subseteq handed' /\ redeemed' = redeemed
      BY <2>1, FailuresStay
      DEF PutSession, PutSessionFails, FailuresRemembered, failureVars, keycloakVars
    <3> QED BY <3>2, <3>3
  <2>2. CASE Quiet \/ \E g \in Grants : RedeemsFor(p, g)
    BY <2>2 DEF Quiet, RedeemsFor, Redeem
  <2> QED BY <1>1, <2>1, <2>2, ArriveKinds, SignInKinds
<1>2. ASSUME NEW p \in Procs, UseSession(p)
      PROVE  /\ FailuresRemembered /\ handed \subseteq handed' /\ redeemed \subseteq redeemed'
             /\ \A g \in handed : session[g] = 0 => session'[g] = 0
  <2>1. \A g \in handed : session[g] = 0 => session'[g] = 0
    <3>1. CASE DeleteSession(p)
      BY <1>t, <3>1 DEF DeleteSession
    <3> QED BY <1>2, <3>1, UseSessionKinds
  <2> QED BY <1>2, <2>1, UseSessionKinds
<1>3. CASE Tick
  BY <1>t, <1>3 DEF Tick, Less, FailuresRemembered, failureVars
<1>4. CASE Restart
  <2>1. FailuresRemembered
    BY <1>4, FailuresStay DEF Restart
  <2> QED BY <1>t, <1>4, <2>1 DEF Restart, keycloakVars, storeVars
<1>5. CASE \/ \E f \in Flows : Login(f)
           \/ \E f \in Flows, g \in Grants : Authorize(f, g)
           \/ UNCHANGED vars
  BY <1>5, OutsideKinds DEF Quiet
<1> QED BY <1>1, <1>2, <1>3, <1>4, <1>5 DEF Next

\* Only the DELETE of a logout is answered "revoked".
LEMMA LoggedOutStep ==
  ASSUME TypeInv, PutsAreNew, LoggedOutIsOut, [Next]_vars
  PROVE  LoggedOutIsOut'
<1>t. /\ session \in [Grants -> 0..SessionTTL] /\ handed \subseteq Grants
      /\ loggedOut \subseteq handed
      /\ \A p \in Procs : pc[p] = "delete" => req[p].grant \in handed
  BY DEF TypeInv, StateOK, CarriesWhatItNeeds
<1>1. ASSUME UNCHANGED loggedOut PROVE LoggedOutIsOut'
  BY <1>t, <1>1, ClosedForGood DEF LoggedOutIsOut, FailuresRemembered
<1>2. ASSUME NEW p \in Procs, DeleteSession(p) PROVE LoggedOutIsOut'
  <2> DEFINE g == req[p].grant
  <2>1. g \in handed /\ g # None /\ loggedOut' = loggedOut \union {g}
    BY <1>t, <1>2, AuthAssumption DEF DeleteSession
  <2>2. session'[g] = 0 \/ g \in storeHit'
    BY <1>t, <1>2, <2>1 DEF DeleteSession, StoreFault
  <2> QED BY <1>t, <2>1, <2>2, ClosedForGood DEF LoggedOutIsOut, FailuresRemembered
<1>3. CASE ~ \E p \in Procs : DeleteSession(p)
  <2>1. ASSUME NEW p \in Procs, Arrive(p) \/ SignIn(p) \/ UseSession(p) PROVE UNCHANGED loggedOut
    BY <1>3, <2>1, ArriveKinds, SignInKinds, UseSessionKinds
    DEF Quiet, RedeemsFor, PutSession, PutSessionFails
  <2>2. UNCHANGED loggedOut
    BY <2>1, OutsideKinds DEF Next, Quiet, Tick, Restart, resultVars
  <2> QED BY <1>1, <2>2
<1> QED BY <1>2, <1>3

\* Once a logout has answered, the session serves nobody, with any number of
\* requests, restarts and failures, unless a Redis error hit that very session:
\* a session is stored once, before its cookie is handed out.
THEOREM LogoutIsFinal == Spec => []LoggedOutIsOut
<1> DEFINE Inv == TypeInv /\ PutsAreNew /\ LoggedOutIsOut
<1>1. Init => Inv
  BY TypeInit DEF Init, PutsAreNew, LoggedOutIsOut
<1>2. Inv /\ [Next]_vars => Inv'
  BY NextTyped, PutsAreNewNext, LoggedOutStep
<1> QED BY <1>1, <1>2, PTL DEF Spec
\* Between the two middlewares a post without its token has no session.
PostInv ==
  /\ \A p \in Procs : pc[p] = "require" =>
       req[p].grant \in storeHit \/ req[p].csrf \/ session[req[p].grant] = 0
  /\ PostCarriesItsToken

LEMMA PostStep ==
  ASSUME TypeInv, PutsAreNew, PostInv, [Next]_vars
  PROVE  PostInv'
<1>t. /\ pc \in [Procs -> Steps] /\ req \in [Procs -> Requests]
      /\ \A p \in Procs : pc[p] \in {"csrf", "require", "handler"} => req[p].grant \in handed
  BY DEF TypeInv, StateOK, CarriesWhatItNeeds
<1>c. /\ storeHit \subseteq storeHit'
      /\ \A g \in handed : session[g] = 0 => session'[g] = 0
  BY ClosedForGood DEF FailuresRemembered
<1> DEFINE Fine(p) ==
      /\ pc[p] = "require" =>
           req[p].grant \in storeHit \/ req[p].csrf \/ session[req[p].grant] = 0
      /\ pc[p] = "handler" /\ req[p].grant \notin storeHit => req[p].csrf
<1>0. (\A p \in Procs : Fine(p)) <=> PostInv
  BY DEF PostInv, PostCarriesItsToken
<1>1. ASSUME NEW q \in Procs, Fine(q), pc'[q] = pc[q], req'[q] = req[q]
      PROVE  Fine(q)'
  BY <1>t, <1>c, <1>1
<1>2. ASSUME NEW p \in Procs, NEW from, NEW to, Moves(p, from, to), Fine(p)'
      PROVE  PostInv'
  <2>1. \A q \in Procs \ {p} : pc'[q] = pc[q] /\ req'[q] = req[q]
    BY <1>t, <1>2 DEF Moves
  <2>2. \A q \in Procs : Fine(q)'
    BY <1>0, <1>1, <1>2, <2>1
  <2> HIDE DEF Fine
  <2>3. (\A q \in Procs : Fine(q)') => PostInv'
    BY <1>0 DEF Fine, PostInv, PostCarriesItsToken
  <2> QED BY <2>2, <2>3
<1>3. ASSUME NEW p \in Procs, Arrive(p) \/ SignIn(p)
      PROVE  PostInv'
  <2>1. PICK from, to : Moves(p, from, to) /\ to \intersect {"require", "handler"} = {}
    <3>1. CASE PutSession(p) \/ PutSessionFails(p)
      <4>1. Moves(p, {"put"}, {"idle"})
        BY <3>1 DEF PutSession, PutSessionFails, Answer, Goto, Moves, TypeInv, StateOK
      <4>2. {"idle"} \intersect {"require", "handler"} = {}
        OBVIOUS
      <4> QED BY <4>1, <4>2
    <3>2. CASE Arrive(p)
      BY <3>2, ArriveKinds
    <3>3. CASE SignIn(p) /\ ~(PutSession(p) \/ PutSessionFails(p))
      BY <3>3, SignInKinds DEF RedeemsFor
    <3> QED BY <1>3, <3>1, <3>2, <3>3
  <2>2. pc'[p] \notin {"require", "handler"}
    BY <1>t, <2>1 DEF Moves
  <2> QED BY <1>2, <2>1, <2>2
<1>4. ASSUME NEW p \in Procs, UseSession(p)
      PROVE  PostInv'
  <2>1. PICK from, to : Moves(p, from, to)
    BY <1>4, UseSessionKinds
  <2>2. CASE CheckCSRF(p)
    <3>1. req[p].grant # None
      BY <1>t, <2>2, AuthAssumption DEF CheckCSRF, TypeInv, StateOK
    <3>2. \/ pc' = [pc EXCEPT ![p] = "require"] /\ req' = req
          \/ pc' = [pc EXCEPT ![p] = "idle"]
      BY <2>2 DEF CheckCSRF, Answer, Goto
    <3>3. pc'[p] = "require" =>
            session[req[p].grant] = 0 \/ req[p].csrf \/ req[p].grant \in storeHit'
      BY <1>t, <2>2, <3>1 DEF CheckCSRF, Answer, Goto, StoreFault
    <3>4. Fine(p)'
      BY <1>t, <1>c, <2>2, <3>2, <3>3 DEF CheckCSRF
    <3> QED BY <1>2, <2>1, <3>4
  <2>3. CASE RequireSession(p)
    <3>1. pc'[p] = "handler" => req' = req /\ session[req[p].grant] > 0
      BY <1>t, <2>3 DEF RequireSession, Answer, Goto
    <3>2. pc[p] = "require" /\ pc'[p] \in {"handler", "idle"}
      BY <1>t, <2>3 DEF RequireSession, Answer, Goto
    <3>3. session[req[p].grant] > 0 => session[req[p].grant] # 0
      BY <1>t, <3>2 DEF TypeInv, StateOK
    <3>4. Fine(p)'
      BY <1>0, <1>c, <3>1, <3>2, <3>3
    <3> QED BY <1>2, <2>1, <3>4
  <2>4. CASE ~CheckCSRF(p) /\ ~RequireSession(p)
    <3>1. pc'[p] \notin {"require", "handler"}
      BY <1>4, <1>t, <2>4 DEF UseSession, LogoutGet, Revoke, DeleteSession, HandlePost,
                             Answer, Goto
    <3> QED BY <1>2, <2>1, <3>1
  <2> QED BY <2>2, <2>3, <2>4
<1>5. CASE UNCHANGED <<pc, req>>
  <2>1. \A q \in Procs : Fine(q)'
    BY <1>0, <1>1, <1>5
  <2> QED BY <2>1 DEF PostInv, PostCarriesItsToken
<1>6. CASE Restart
  BY <1>6 DEF Restart, PostInv, PostCarriesItsToken
<1> QED BY <1>3, <1>4, <1>5, <1>6, OutsideKinds DEF Next, Tick

\* A post that reaches the handler carries its session's CSRF token, with any
\* number of requests and whichever of them logs out in between, unless a Redis
\* error hit that session: a session the first middleware did not find is not
\* there for the second one.
THEOREM PostsCarryTheirToken == Spec => []PostCarriesItsToken
<1> DEFINE Inv == TypeInv /\ PutsAreNew /\ PostInv
<1>1. Init => Inv
  BY TypeInit DEF Init, PutsAreNew, PostInv, PostCarriesItsToken
<1>2. Inv /\ [Next]_vars => Inv'
  BY NextTyped, PutsAreNewNext, PostStep
<1>3. Inv => PostCarriesItsToken
  BY DEF PostInv
<1> QED BY <1>1, <1>2, <1>3, PTL DEF Spec
Excused == storeHit \union abandoned

\* A logout deletes a session only when its token is gone, or excused.
TokenInv ==
  /\ \A g \in Grants : token[g] > 0 => g \in redeemed
  /\ \A p \in Procs : pc[p] = "delete" =>
       req[p].grant \in Excused \/ token[req[p].grant] = 0
  /\ NoTokenOutlivesItsSession

\* What TokenInv asks of one grant.
Putting(g) == \E p \in Procs : pc[p] = "put" /\ req[p].grant = g
Revocable(g) == token[g] > 0 /\ g \notin Excused => session[g] >= token[g] \/ Putting(g)

LEMMA TokenInvByGrant ==
  NoTokenOutlivesItsSession <=> \A g \in Grants : Revocable(g)
BY DEF NoTokenOutlivesItsSession, Revocable, Putting, Excused

LEMMA TokensTyped ==
  ASSUME TypeInv
  PROVE  /\ pc \in [Procs -> Steps] /\ req \in [Procs -> Requests]
         /\ token \in [Grants -> 0..RefreshTTL] /\ session \in [Grants -> 0..SessionTTL]
         /\ RefreshTTL \in Nat /\ SessionTTL \in Nat /\ SessionTTL >= RefreshTTL
         /\ handed \subseteq redeemed /\ redeemed \subseteq Grants
         /\ \A p \in Procs : pc[p] = "put" => req[p].grant \in redeemed
         /\ \A p \in Procs : pc[p] \in {"logout", "revoke", "delete"} => req[p].grant \in handed
<1>1. SessionTTL >= RefreshTTL
  BY AuthAssumption DEF SessionTTL, Larger
<1> QED BY <1>1, SessionLifetime, AuthAssumption DEF TypeInv, StateOK, CarriesWhatItNeeds

\* A step that leaves tokens, sessions and puts alone keeps the invariant.
LEMMA TokenQuiet ==
  ASSUME TypeInv, TokenInv, Quiet,
         \A p \in Procs : pc'[p] = "delete" => pc[p] = "delete" /\ req'[p] = req[p],
         \A p \in Procs : pc[p] = "put" => pc'[p] = "put" /\ req'[p] = req[p]
  PROVE  TokenInv'
<1>1. \A g \in Grants : Revocable(g)'
  BY TokenInvByGrant DEF TokenInv, Quiet, FailuresRemembered, Revocable, Putting, Excused
<1>2. NoTokenOutlivesItsSession'
  BY <1>1 DEF NoTokenOutlivesItsSession, Revocable, Putting, Excused
<1> QED BY <1>2 DEF TokenInv, Quiet, FailuresRemembered, Excused

LEMMA TokenRedeems ==
  ASSUME TypeInv, TokenInv, NEW p \in Procs, NEW g \in Grants, RedeemsFor(p, g)
  PROVE  TokenInv'
<1>t. /\ pc \in [Procs -> Steps] /\ req \in [Procs -> Requests]
      /\ token \in [Grants -> 0..RefreshTTL] /\ handed \subseteq redeemed
      /\ \A q \in Procs : pc[q] \in {"logout", "revoke", "delete"} => req[q].grant \in handed
  BY TokensTyped
<1>1. /\ g \notin redeemed /\ redeemed' = redeemed \union {g}
      /\ token' = [token EXCEPT ![g] = RefreshTTL]
      /\ session' = session /\ Excused \subseteq Excused'
  BY DEF RedeemsFor, Redeem, FailuresRemembered, Excused
<1>2. /\ pc[p] \in {"exchange", "password"}
      /\ \A q \in Procs \ {p} : pc'[q] = pc[q] /\ req'[q] = req[q]
      /\ \/ pc'[p] = "put" /\ req'[p].grant = g
         \/ pc'[p] = "idle" /\ g \in Excused'
  BY <1>t DEF RedeemsFor, Moves, Excused
<1>3. ASSUME NEW h \in Grants PROVE Revocable(h)'
  <2>1. CASE h = g
    BY <1>2, <2>1 DEF Revocable, Putting
  <2>2. CASE h # g
    <3>1. token'[h] = token[h]
      BY <1>t, <1>1, <2>2
    <3>2. Putting(h) => Putting(h)'
      BY <1>2 DEF Putting
    <3> QED BY <1>1, <3>1, <3>2, TokenInvByGrant DEF TokenInv, Revocable
  <2> QED BY <2>1, <2>2
<1>4. NoTokenOutlivesItsSession'
  BY <1>3 DEF NoTokenOutlivesItsSession, Revocable, Putting, Excused
<1>5. \A h \in Grants : token'[h] > 0 => h \in redeemed'
  BY <1>t, <1>1 DEF TokenInv
<1>6. ASSUME NEW q \in Procs, pc'[q] = "delete"
      PROVE  req'[q].grant \in Excused' \/ token'[req'[q].grant] = 0
  <2>1. q # p /\ pc[q] = "delete" /\ req'[q] = req[q]
    BY <1>2, <1>6
  <2>2. req[q].grant # g
    BY <1>t, <1>1, <2>1
  <2> QED BY <1>t, <1>1, <2>1, <2>2 DEF TokenInv
<1> QED BY <1>4, <1>5, <1>6 DEF TokenInv

LEMMA TokenPuts ==
  ASSUME TypeInv, TokenInv, PutsAreNew, NEW p \in Procs, PutSession(p) \/ PutSessionFails(p)
  PROVE  TokenInv'
<1> DEFINE g == req[p].grant
<1>t. /\ pc \in [Procs -> Steps] /\ req \in [Procs -> Requests]
      /\ token \in [Grants -> 0..RefreshTTL] /\ session \in [Grants -> 0..SessionTTL]
      /\ RefreshTTL \in Nat /\ SessionTTL \in Nat /\ SessionTTL >= RefreshTTL
      /\ redeemed \subseteq Grants /\ (pc[p] = "put" => g \in redeemed)
  BY TokensTyped
<1>1. /\ pc[p] = "put" /\ pc' = [pc EXCEPT ![p] = "idle"]
      /\ req' = [req EXCEPT ![p] = NoRequest] /\ UNCHANGED <<token, redeemed>>
      /\ Excused \subseteq Excused'
  <2>1. FailuresRemembered
    BY FailuresStay DEF PutSession, PutSessionFails, FailuresRemembered, failureVars
  <2> QED BY <2>1 DEF PutSession, PutSessionFails, Answer, Goto, keycloakVars,
                      FailuresRemembered, Excused
<1>2. session' = [session EXCEPT ![g] = SessionTTL] \/ (session' = session /\ g \in Excused')
  <2>1. CASE PutSession(p)
    BY <2>1 DEF PutSession, StoreSession
  <2>2. CASE PutSessionFails(p)
    <3>1. g # None
      BY <1>t, <1>1, AuthAssumption
    <3> QED BY <2>2, <3>1 DEF PutSessionFails, StoreSession, StoreFault, Excused
  <2> QED BY <2>1, <2>2
<1>3. ASSUME NEW h \in Grants PROVE Revocable(h)'
  <2>1. CASE h = g
    <3>1. h \in Excused' \/ session'[h] = SessionTTL
      BY <1>t, <1>2, <2>1
    <3>2. token'[h] \in 0..RefreshTTL
      BY <1>t, <1>1
    <3> QED BY <1>t, <3>1, <3>2 DEF Revocable
  <2>2. CASE h # g
    <3>1. token'[h] = token[h] /\ session'[h] = session[h]
      BY <1>t, <1>1, <1>2, <2>2
    <3>2. Putting(h) => Putting(h)'
      BY <1>t, <1>1, <2>2 DEF Putting
    <3> QED BY <1>1, <3>1, <3>2, TokenInvByGrant DEF TokenInv, Revocable
  <2> QED BY <2>1, <2>2
<1>4. NoTokenOutlivesItsSession'
  BY <1>3 DEF NoTokenOutlivesItsSession, Revocable, Putting, Excused
<1>5. \A q \in Procs : pc'[q] = "delete" => pc[q] = "delete" /\ req'[q] = req[q]
  BY <1>t, <1>1
<1> HIDE DEF g
<1> QED BY <1>1, <1>4, <1>5 DEF TokenInv
LEMMA TokenUses ==
  ASSUME TypeInv, TokenInv, PutsAreNew, NEW p \in Procs, UseSession(p)
  PROVE  TokenInv'
<1> DEFINE g == req[p].grant
<1>t. /\ pc \in [Procs -> Steps] /\ req \in [Procs -> Requests]
      /\ token \in [Grants -> 0..RefreshTTL] /\ session \in [Grants -> 0..SessionTTL]
      /\ handed \subseteq redeemed /\ redeemed \subseteq Grants
      /\ \A q \in Procs : pc[q] \in {"logout", "revoke", "delete"} => req[q].grant \in handed
  BY TokensTyped
<1>1. /\ UNCHANGED redeemed /\ Excused \subseteq Excused'
      /\ Moves(p, {"logout", "revoke", "delete", "csrf", "require", "handler"},
                  {"idle", "revoke", "delete", "require", "handler"})
  BY UseSessionKinds DEF FailuresRemembered, Excused
<1>2. /\ pc[p] # "put" /\ \A q \in Procs \ {p} : pc'[q] = pc[q] /\ req'[q] = req[q]
  BY <1>t, <1>1 DEF Moves
<1>3. \A h : Putting(h) => Putting(h)'
  BY <1>2 DEF Putting
<1>4. ASSUME UNCHANGED <<session, token>>,
             pc'[p] = "delete" => req'[p] = req[p] /\ (g \in Excused' \/ token[g] = 0)
      PROVE  TokenInv'
  <2>1. \A h \in Grants : Revocable(h)'
    BY <1>1, <1>3, <1>4, TokenInvByGrant DEF TokenInv, Revocable
  <2>2. NoTokenOutlivesItsSession'
    BY <2>1 DEF NoTokenOutlivesItsSession, Revocable, Putting, Excused
  <2>3. \A q \in Procs : pc'[q] = "delete" =>
          req'[q].grant \in Excused' \/ token'[req'[q].grant] = 0
    BY <1>1, <1>2, <1>4 DEF TokenInv
  <2> QED BY <1>1, <1>4, <2>2, <2>3 DEF TokenInv
<1>5. CASE LogoutGet(p)
  <2>1. g \in handed /\ g \in Grants /\ g # None
    BY <1>t, <1>5, AuthAssumption DEF LogoutGet
  <2>2. ~Putting(g)
    BY <2>1 DEF Putting, PutsAreNew
  <2>3. session[g] = 0 => g \in Excused \/ token[g] = 0
    <3>1. token[g] \in Nat
      BY <1>t, <2>1, AuthAssumption
    <3> QED BY <2>1, <2>2, <3>1, TokenInvByGrant DEF TokenInv, Revocable
  <2>4. UNCHANGED <<session, token, req>>
    BY <1>5 DEF LogoutGet, storeVars, keycloakVars
  <2>5. pc'[p] = "delete" => session[g] = 0 \/ g \in storeHit'
    BY <1>t, <1>5, <2>1 DEF LogoutGet, Goto, StoreFault
  <2> HIDE DEF g
  <2> QED BY <1>1, <1>4, <2>3, <2>4, <2>5 DEF Excused, g
<1>6. CASE Revoke(p)
  <2>1. g \in Grants /\ UNCHANGED <<session, req>>
    BY <1>t, <1>6 DEF Revoke, storeVars
  <2>2. token' = [token EXCEPT ![g] = 0] \/ (token' = token /\ g \in Excused')
    BY <1>6 DEF Revoke, Abandon, Excused
  <2>3. token'[g] = 0 \/ g \in Excused'
    BY <1>t, <2>1, <2>2
  <2>4. \A h \in Grants : token'[h] = 0 \/ token'[h] = token[h]
    BY <1>t, <2>1, <2>2
  <2>5. ASSUME NEW h \in Grants PROVE Revocable(h)'
    <3>1. token'[h] > 0 => token'[h] # 0
      BY <1>t, <2>4, AuthAssumption
    <3> QED BY <1>1, <1>3, <2>1, <2>4, <3>1, TokenInvByGrant DEF TokenInv, Revocable
  <2>6. NoTokenOutlivesItsSession'
    BY <2>5 DEF NoTokenOutlivesItsSession, Revocable, Putting, Excused
  <2>7. \A h \in Grants : token'[h] > 0 => h \in redeemed'
    BY <1>1, <2>4 DEF TokenInv
  <2>8. ASSUME NEW q \in Procs, pc'[q] = "delete"
        PROVE  req'[q].grant \in Excused' \/ token'[req'[q].grant] = 0
    <3>1. CASE q = p
      BY <2>1, <2>3, <3>1
    <3>2. CASE q # p
      <4>1. pc[q] = "delete" /\ req'[q] = req[q] /\ req[q].grant \in Grants
        BY <1>t, <1>2, <2>8, <3>2
      <4> QED BY <1>1, <2>4, <4>1 DEF TokenInv
    <3> QED BY <3>1, <3>2
  <2> QED BY <2>6, <2>7, <2>8 DEF TokenInv
<1>7. CASE DeleteSession(p)
  <2>1. g \in Grants /\ g # None /\ (g \in Excused \/ token[g] = 0)
    BY <1>t, <1>7, AuthAssumption DEF DeleteSession, TokenInv
  <2>2. UNCHANGED token /\ pc'[p] = "idle"
    BY <1>t, <1>7 DEF DeleteSession, keycloakVars, Answer, Goto
  <2>3. session' = [session EXCEPT ![g] = 0] \/ session' = session
    BY <1>7 DEF DeleteSession
  <2>4. ASSUME NEW h \in Grants PROVE Revocable(h)'
    <3>1. CASE h = g
      BY <1>1, <2>1, <2>2, <3>1, AuthAssumption DEF Revocable
    <3>2. CASE h # g
      <4>1. session'[h] = session[h]
        BY <1>t, <2>1, <2>3, <3>2
      <4> QED BY <1>1, <1>3, <2>2, <4>1, TokenInvByGrant DEF TokenInv, Revocable
    <3> QED BY <3>1, <3>2
  <2>5. NoTokenOutlivesItsSession'
    BY <2>4 DEF NoTokenOutlivesItsSession, Revocable, Putting, Excused
  <2>6. \A q \in Procs : pc'[q] = "delete" => pc[q] = "delete" /\ req'[q] = req[q]
    BY <1>2, <2>2
  <2> HIDE DEF g
  <2> QED BY <1>1, <2>2, <2>5, <2>6 DEF TokenInv
<1>8. CASE CheckCSRF(p) \/ RequireSession(p) \/ HandlePost(p)
  <2>1. UNCHANGED <<session, token>> /\ pc'[p] # "delete"
    BY <1>t, <1>8 DEF CheckCSRF, RequireSession, HandlePost, Answer, Goto, storeVars,
                      keycloakVars
  <2> QED BY <1>4, <2>1
<1> QED BY <1>5, <1>6, <1>7, <1>8 DEF UseSession

LEMMA TokenEnvironment ==
  ASSUME TypeInv, TokenInv, Tick \/ Restart
  PROVE  TokenInv'
<1>t. /\ token \in [Grants -> 0..RefreshTTL] /\ session \in [Grants -> 0..SessionTTL]
      /\ RefreshTTL \in Nat /\ SessionTTL \in Nat
  BY TokensTyped
<1>1. CASE Tick
  <2>1. /\ UNCHANGED <<redeemed, pc, req, storeHit, abandoned>>
        /\ \A g \in Grants : token'[g] = Less(token[g]) /\ session'[g] = Less(session[g])
    BY <1>1 DEF Tick, failureVars
  <2>2. \A m, n \in Nat : /\ Less(m) \in Nat /\ (Less(m) > 0 => m > 0)
                          /\ (m >= n => Less(m) >= Less(n)) /\ (m = 0 => Less(m) = 0)
    BY DEF Less
  <2>3. \A g \in Grants : token[g] \in Nat /\ session[g] \in Nat
    BY <1>t
  <2>4. ASSUME NEW g \in Grants PROVE Revocable(g)'
    <3>1. Revocable(g) /\ (Putting(g) <=> Putting(g)')
      BY <2>1, TokenInvByGrant DEF TokenInv, Putting
    <3> QED BY <2>1, <2>2, <2>3, <3>1 DEF Revocable, Excused
  <2>5. NoTokenOutlivesItsSession'
    BY <2>4 DEF NoTokenOutlivesItsSession, Revocable, Putting, Excused
  <2>6. \A g \in Grants : token'[g] > 0 => g \in redeemed'
    BY <2>1, <2>2, <2>3 DEF TokenInv
  <2>7. \A p \in Procs : pc'[p] = "delete" =>
          req'[p].grant \in Excused' \/ token'[req'[p].grant] = 0
    <3>1. \A p \in Procs : pc[p] = "delete" => req[p].grant \in Grants
      BY DEF TypeInv, StateOK, CarriesWhatItNeeds
    <3> QED BY <2>1, <2>2, <2>3, <3>1 DEF TokenInv, Excused
  <2> QED BY <2>5, <2>6, <2>7 DEF TokenInv
<1>2. CASE Restart
  <2>1. /\ UNCHANGED <<token, redeemed>> /\ \A p \in Procs : pc'[p] = "idle"
        /\ Excused \subseteq Excused'
    BY <1>2, FailuresStay DEF Restart, keycloakVars, FailuresRemembered, Excused
  <2>2. ASSUME NEW g \in Grants PROVE Revocable(g)'
    <3>1. CASE inMemory
      <4>1. redeemed \subseteq Excused'
        BY <1>2, <3>1 DEF Restart, Abandon, Excused
      <4> QED BY <2>1, <4>1 DEF TokenInv, Revocable
    <3>2. CASE ~inMemory
      <4>1. session' = session /\ (Putting(g) => g \in Excused')
        BY <1>2, <3>2 DEF Restart, Abandon, Excused, Putting, storeVars
      <4> QED BY <2>1, <4>1, TokenInvByGrant DEF TokenInv, Revocable
    <3> QED BY <3>1, <3>2
  <2>3. NoTokenOutlivesItsSession'
    BY <2>2 DEF NoTokenOutlivesItsSession, Revocable, Putting, Excused
  <2> QED BY <2>1, <2>3 DEF TokenInv
<1> QED BY <1>1, <1>2

LEMMA TokenNext ==
  ASSUME TypeInv, PutsAreNew, TokenInv, [Next]_vars
  PROVE  TokenInv'
<1>t. pc \in [Procs -> Steps]
  BY DEF TypeInv, StateOK
<1>1. ASSUME NEW p \in Procs, NEW from, NEW to, Quiet, Moves(p, from, to),
             "put" \notin from, "delete" \notin to
      PROVE  TokenInv'
  <2>1. /\ \A q \in Procs : pc'[q] = "delete" => pc[q] = "delete" /\ req'[q] = req[q]
        /\ \A q \in Procs : pc[q] = "put" => pc'[q] = "put" /\ req'[q] = req[q]
    BY <1>t, <1>1 DEF Moves
  <2> QED BY <1>1, <2>1, TokenQuiet
<1>2. ASSUME NEW p \in Procs, Arrive(p) PROVE TokenInv'
  BY <1>1, <1>2, ArriveKinds
<1>3. ASSUME NEW p \in Procs, SignIn(p) PROVE TokenInv'
  BY <1>1, <1>3, SignInKinds, TokenRedeems, TokenPuts
<1>4. CASE \/ \E f \in Flows : Login(f)
           \/ \E f \in Flows, g \in Grants : Authorize(f, g)
           \/ UNCHANGED vars
  BY <1>4, OutsideKinds, TokenQuiet
<1> QED BY <1>2, <1>3, <1>4, TokenUses, TokenEnvironment DEF Next

\* No refresh token stays alive at Keycloak without a session to revoke it by,
\* for any lifetimes and any number of requests, unless a failure hit that very
\* grant: a logout that finds no session finds no token either.
THEOREM TokensAreRevocable == Spec => []NoTokenOutlivesItsSession
<1> DEFINE Inv == TypeInv /\ PutsAreNew /\ TokenInv
<1>1. Init => Inv
  BY TypeInit DEF Init, PutsAreNew, TokenInv, NoTokenOutlivesItsSession
<1>2. Inv /\ [Next]_vars => Inv'
  BY NextTyped, PutsAreNewNext, TokenNext
<1>3. Inv => NoTokenOutlivesItsSession
  BY DEF TokenInv
<1> QED BY <1>1, <1>2, <1>3, PTL DEF Spec-----------------------------------------------------------------------------
(* Both stores implement the life of a session *)

SessionsLife == [g \in Grants |-> Life(g)]
AdmittedWith == [p \in Procs |-> Admitted(p)]

\* Only what was stored is there, and what waits to be stored is new.
LifeInv ==
  /\ TypeInv /\ PutsAreNew
  /\ \A g \in Grants : session[g] > 0 => g \in opened

\* A step that opens nothing, and lets nobody in: sessions may end, and requests
\* may be over.
LEMMA NothingStarts ==
  ASSUME LifeInv, opened' = opened,
         \A g \in Grants : session'[g] > 0 => session[g] > 0,
         \A p \in Procs : Admitted(p)' \in {Admitted(p), None}
  PROVE  Sessions!Next
<1> DEFINE ending == {g \in Grants : session[g] > 0 /\ ~(session'[g] > 0)}
           over == {p \in Procs : Admitted(p)' = None}
<1>1. \A g \in ending : SessionsLife[g] = "open"
  BY DEF SessionsLife, Life
<1>2. SessionsLife' = [g \in Grants |-> IF g \in ending THEN "ended" ELSE SessionsLife[g]]
  BY DEF SessionsLife, Life, LifeInv
<1>3. AdmittedWith' = [p \in Procs |-> IF p \in over THEN None ELSE AdmittedWith[p]]
  BY DEF AdmittedWith
<1>4. ending \in SUBSET Grants /\ over \in SUBSET Procs
  OBVIOUS
<1> HIDE DEF ending, over
<1>5. Sessions!Stop(ending, over)
  BY <1>1, <1>2, <1>3 DEF Sessions!Stop, SessionsLife, AdmittedWith
<1> QED BY <1>4, <1>5 DEF Sessions!Next

\* A request that goes on to another step than the handler is let in nowhere.
LEMMA NobodyEnters ==
  ASSUME TypeInv, NEW p \in Procs, NEW from, NEW to, "handler" \notin to, Moves(p, from, to)
  PROVE  \A q \in Procs : Admitted(q)' \in {Admitted(q), None}
<1>1. pc \in [Procs -> Steps] /\ pc'[p] # "handler"
      /\ \A q \in Procs \ {p} : pc'[q] = pc[q] /\ req'[q] = req[q]
  BY DEF Moves, TypeInv, StateOK
<1> QED BY <1>1 DEF Admitted

\* The Put of a session, whatever becomes of its reply.
LEMMA PutOpens ==
  ASSUME LifeInv, NEW p \in Procs, pc[p] = "put", StoreSession(req[p].grant), Answer(p)
  PROVE  Sessions!Next
<1> DEFINE g == req[p].grant
<1>1. g \in Grants /\ g \notin opened /\ ~(session[g] > 0)
  BY DEF LifeInv, TypeInv, StateOK, CarriesWhatItNeeds, PutsAreNew
<1>2. SessionTTL > 0
  BY AuthAssumption DEF SessionTTL, Larger
<1>3. /\ session \in [Grants -> 0..SessionTTL]
      /\ session' = [session EXCEPT ![g] = SessionTTL] /\ opened' = opened \union {g}
  BY DEF StoreSession, LifeInv, TypeInv, StateOK
<1>4. SessionsLife[g] = "none"
  BY <1>1 DEF SessionsLife, Life
<1>5. SessionsLife' = [SessionsLife EXCEPT ![g] = "open"]
  BY <1>1, <1>2, <1>3 DEF SessionsLife, Life
<1>6. AdmittedWith' = AdmittedWith
  <2>1. pc \in [Procs -> Steps] /\ req \in [Procs -> Requests]
    BY DEF LifeInv, TypeInv, StateOK
  <2>2. pc' = [pc EXCEPT ![p] = "idle"] /\ \A q \in Procs \ {p} : req'[q] = req[q]
    BY <2>1 DEF Answer, Goto
  <2>3. \A q \in Procs : Admitted(q)' = Admitted(q)
    BY <2>1, <2>2 DEF Admitted
  <2> QED BY <2>3 DEF AdmittedWith
<1>7. Sessions!Open(g)
  BY <1>4, <1>5, <1>6 DEF Sessions!Open, SessionsLife, AdmittedWith
<1> QED BY <1>1, <1>7 DEF Sessions!Next

LEMMA LifeSignIn ==
  ASSUME LifeInv, NEW p \in Procs, SignIn(p)
  PROVE  Sessions!Next
<1>1. CASE Quiet /\ Moves(p, {"pop", "popDel", "exchange", "password"},
                             {"idle", "popDel", "exchange"})
  BY <1>1, NothingStarts, NobodyEnters DEF Quiet, LifeInv
<1>2. ASSUME NEW g \in Grants, RedeemsFor(p, g) PROVE Sessions!Next
  <2>1. opened' = opened /\ session' = session
    BY <1>2 DEF RedeemsFor
  <2>2. \A q \in Procs : Admitted(q)' \in {Admitted(q), None}
    BY <1>2, NobodyEnters DEF RedeemsFor, LifeInv
  <2> QED BY <2>1, <2>2, NothingStarts
<1>3. CASE PutSession(p)
  BY <1>3, PutOpens DEF PutSession
<1>4. CASE PutSessionFails(p)
  <2>1. CASE StoreSession(req[p].grant)
    BY <1>4, <2>1, PutOpens DEF PutSessionFails
  <2>2. CASE UNCHANGED <<session, opened>>
    <3>1. Moves(p, {"put"}, {"idle"})
      BY <1>4 DEF PutSessionFails, Answer, Goto, Moves, LifeInv, TypeInv, StateOK
    <3>2. \A q \in Procs : Admitted(q)' \in {Admitted(q), None}
      BY <3>1, NobodyEnters DEF LifeInv
    <3> QED BY <2>2, <3>2, NothingStarts
  <2> QED BY <1>4, <2>1, <2>2 DEF PutSessionFails
<1> QED BY <1>1, <1>2, <1>3, <1>4, SignInKinds DEF LifeInv

LEMMA LifeUse ==
  ASSUME LifeInv, NEW p \in Procs, UseSession(p)
  PROVE  Sessions!Next
<1>t. /\ session \in [Grants -> 0..SessionTTL] /\ pc \in [Procs -> Steps]
      /\ req \in [Procs -> Requests] /\ handed \subseteq Grants
  BY DEF LifeInv, TypeInv, StateOK
<1>1. opened' = opened
  BY UseSessionKinds DEF LifeInv
<1>2. CASE RequireSession(p) /\ session[req[p].grant] > 0 /\ pc' = [pc EXCEPT ![p] = "handler"]
  <2> DEFINE g == req[p].grant
  <2>1. pc[p] = "require" /\ UNCHANGED <<session, handed>>
    BY <1>2 DEF RequireSession, storeVars
  <2>2. g \in Grants
    BY <1>t, <2>1 DEF LifeInv, TypeInv, CarriesWhatItNeeds
  <2>3. req' = req
    BY <1>2, <1>t, <2>1 DEF RequireSession, Answer, Goto
  <2>4. AdmittedWith[p] = None /\ SessionsLife[g] = "open" /\ SessionsLife' = SessionsLife
    BY <1>1, <1>2, <2>1, <2>2 DEF AdmittedWith, Admitted, SessionsLife, Life
  <2>5. AdmittedWith' = [AdmittedWith EXCEPT ![p] = g]
    BY <1>t, <1>2, <2>1, <2>3 DEF AdmittedWith, Admitted
  <2>6. Sessions!Admit(p, g)
    BY <2>4, <2>5 DEF Sessions!Admit, SessionsLife, AdmittedWith
  <2> QED BY <2>2, <2>6 DEF Sessions!Next
<1>3. CASE ~(RequireSession(p) /\ session[req[p].grant] > 0 /\ pc' = [pc EXCEPT ![p] = "handler"])
  <2>1. Moves(p, {"logout", "revoke", "delete", "csrf", "require", "handler"},
                 {"idle", "revoke", "delete", "require"})
    BY <1>t, <1>3 DEF UseSession, LogoutGet, Revoke, DeleteSession, CheckCSRF, RequireSession,
                      HandlePost, Moves, Answer, Goto
  <2>2. \A q \in Procs : Admitted(q)' \in {Admitted(q), None}
    BY <2>1, NobodyEnters DEF LifeInv
  <2>3. \A g \in Grants : session'[g] > 0 => session[g] > 0
    <3>1. CASE DeleteSession(p)
      BY <1>t, <3>1 DEF DeleteSession
    <3> QED BY <3>1, UseSessionKinds DEF LifeInv
  <2> QED BY <1>1, <2>2, <2>3, NothingStarts
<1> QED BY <1>2, <1>3

\* Put is the one step that opens, RequireSession the one that lets in.
LEMMA LifeStep ==
  ASSUME LifeInv, Next
  PROVE  Sessions!Next
<1>t. session \in [Grants -> 0..SessionTTL] /\ pc \in [Procs -> Steps]
  BY DEF LifeInv, TypeInv, StateOK
<1>1. ASSUME NEW p \in Procs, Arrive(p) PROVE Sessions!Next
  BY <1>1, ArriveKinds, NothingStarts, NobodyEnters DEF Quiet, LifeInv
<1>2. CASE \/ \E f \in Flows : Login(f)
           \/ \E f \in Flows, g \in Grants : Authorize(f, g)
  BY <1>2, OutsideKinds, NothingStarts DEF Quiet, LifeInv, Admitted
<1>3. CASE Tick
  <2>1. \A g \in Grants : session'[g] > 0 => session[g] > 0
    BY <1>t, <1>3 DEF Tick, Less
  <2> QED BY <1>3, <2>1, NothingStarts DEF Tick, resultVars, Admitted
<1>4. CASE Restart
  <2>1. \A g \in Grants : session'[g] > 0 => session[g] > 0
    BY <1>t, <1>4 DEF Restart, storeVars
  <2> QED BY <1>4, <2>1, NothingStarts DEF Restart, resultVars, Admitted
<1> QED BY <1>1, <1>2, <1>3, <1>4, LifeSignIn, LifeUse DEF Next

LEMMA StoredStep ==
  ASSUME LifeInv, [Next]_vars
  PROVE  LifeInv'
<1>t. session \in [Grants -> 0..SessionTTL]
  BY DEF LifeInv, TypeInv, StateOK
<1>1. TypeInv' /\ PutsAreNew'
  BY NextTyped, PutsAreNewNext DEF LifeInv
<1>2. \A g \in Grants : session[g] > 0 => g \in opened
  BY DEF LifeInv
<1>3. ASSUME opened' = opened, \A g \in Grants : session'[g] > 0 => session[g] > 0
      PROVE  LifeInv'
  BY <1>1, <1>2, <1>3 DEF LifeInv
<1>4. ASSUME NEW p \in Procs, SignIn(p) PROVE LifeInv'
  <2>1. CASE UNCHANGED <<session, opened>>
    BY <1>3, <2>1
  <2>2. CASE StoreSession(req[p].grant)
    BY <1>t, <1>1, <1>2, <2>2 DEF StoreSession, LifeInv
  <2> QED BY <1>4, <2>1, <2>2, SignInKinds
      DEF LifeInv, Quiet, RedeemsFor, PutSession, PutSessionFails
<1>5. ASSUME NEW p \in Procs, UseSession(p) PROVE LifeInv'
  <2>1. CASE DeleteSession(p)
    BY <1>t, <1>3, <2>1 DEF DeleteSession
  <2> QED BY <1>3, <1>5, <2>1, UseSessionKinds DEF LifeInv
<1>6. ASSUME NEW p \in Procs, Arrive(p) PROVE LifeInv'
  BY <1>3, <1>6, ArriveKinds DEF Quiet, LifeInv
<1>7. CASE \/ \E f \in Flows : Login(f)
           \/ \E f \in Flows, g \in Grants : Authorize(f, g)
           \/ UNCHANGED vars
  BY <1>3, <1>7, OutsideKinds DEF Quiet, LifeInv
<1>8. CASE Tick
  BY <1>t, <1>3, <1>8 DEF Tick, Less, resultVars
<1>9. CASE Restart
  BY <1>t, <1>3, <1>9 DEF Restart, storeVars, resultVars
<1> QED BY <1>4, <1>5, <1>6, <1>7, <1>8, <1>9 DEF Next

\* In memory and on Redis, for any number of requests, failures and restarts: a
\* session is stored once (auth.go, saveSessionFromTokens), a post gets to its
\* handler only through a session that is there (session.go, RequireSession),
\* and a session that has ended in whatever way is never there again.
THEOREM SessionsLiveOnce == Spec => ImplementsSessionLife
<1>1. Init => LifeInv
  BY TypeInit DEF Init, LifeInv, PutsAreNew
<1>2. LifeInv /\ [Next]_vars => LifeInv'
  BY StoredStep
<1>3. Init => Sessions!Init
  BY DEF Init, Sessions!Init, Life, Admitted
<1>4. LifeInv /\ [Next]_vars =>
        [Sessions!Next]_<<[g \in Grants |-> Life(g)], [p \in Procs |-> Admitted(p)]>>
  <2>1. UNCHANGED vars => UNCHANGED <<[g \in Grants |-> Life(g)], [p \in Procs |-> Admitted(p)]>>
    BY DEF vars, Life, Admitted
  <2> QED BY <2>1, LifeStep
<1> QED BY <1>1, <1>2, <1>3, <1>4, PTL DEF Spec, ImplementsSessionLife, Sessions!Spec
=============================================================================
