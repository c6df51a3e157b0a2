------------------------------ MODULE RateLimit ------------------------------
(***************************************************************************)
(* The request rate limit (src/internal/interface/api/middleware/          *)
(* rate_limit.go, rate_limit_store.go): a sliding window of admission      *)
(* times per caller and path, in the memory of one process.                *)
(*                                                                         *)
(* Allow reads the clock BEFORE it takes the mutex, so requests enter the  *)
(* critical section in another order than their times: one action reads    *)
(* the clock, another is the critical section.  The times of a key are     *)
(* kept as the set of requests that were admitted at them; the code never  *)
(* looks at their order.                                                   *)
(***************************************************************************)
EXTENDS Naturals, FiniteSets

CONSTANTS
  Requests,   \* requests, each sent once
  Callers,    \* what a request is known by: [sub, ip, path]
  None,       \* sub of a request without a verified token
  Skipped,    \* the paths under RATE_LIMIT_SKIP_PREFIXES
  Limit,      \* requests per window
  Window,     \* ticks of the window
  MaxDelay,   \* ticks between reading the clock and holding the mutex
  MaxClock    \* bound on the clock

ASSUME RateAssumption ==
  /\ IsFiniteSet(Requests)
  /\ \A c \in Callers : c = [sub |-> c.sub, ip |-> c.ip, path |-> c.path]
  /\ Limit \in Nat \ {0}
  /\ Window \in Nat \ {0}
  /\ MaxDelay \in Nat /\ MaxDelay < Window
  /\ MaxClock \in Nat

VARIABLES
  now,      \* the clock
  pc,       \* per request: "new", "stamped", "admitted", "denied", "passed"
  caller,   \* per request: who sent it
  stamp,    \* per request: what Allow read off the clock
  entries   \* per key: the requests whose times are kept

vars == <<now, pc, caller, stamp, entries>>

\* rateLimitPrincipal: the token's subject, else the client's address.
RateLimitPrincipal(c) == IF c.sub # None THEN <<"sub", c.sub>> ELSE <<"ip", c.ip>>

Key(c) == <<RateLimitPrincipal(c), c.path>>
Keys   == {Key(c) : c \in Callers}

TypeOK ==
  /\ now \in 0 .. MaxClock
  /\ pc \in [Requests -> {"new", "stamped", "admitted", "denied", "passed"}]
  /\ caller \in [Requests -> Callers]
  /\ stamp \in [Requests -> 0 .. MaxClock]
  /\ entries \in [Keys -> SUBSET Requests]
  /\ \A r \in Requests : stamp[r] <= now

Init ==
  /\ now = 0
  /\ pc = [r \in Requests |-> "new"]
  /\ caller \in [Requests -> Callers]
  /\ stamp = [r \in Requests |-> 0]
  /\ entries = [k \in Keys |-> {}]

\* RateLimitMiddleware: a skipped path passes, unseen by the store.
Pass(r) ==
  /\ pc[r] = "new"
  /\ caller[r].path \in Skipped
  /\ pc' = [pc EXCEPT ![r] = "passed"]
  /\ UNCHANGED <<now, caller, stamp, entries>>

\* Fault variant: the time is rounded up.
ReadClockRounded(r) ==
  /\ pc[r] = "new"
  /\ caller[r].path \notin Skipped
  /\ pc' = [pc EXCEPT ![r] = "stamped"]
  /\ stamp' = [stamp EXCEPT ![r] = now + 1]
  /\ UNCHANGED <<now, caller, entries>>

\* Allow: now := time.Now(), before the lock.
ReadClock(r) ==
  /\ pc[r] = "new"
  /\ caller[r].path \notin Skipped
  /\ pc' = [pc EXCEPT ![r] = "stamped"]
  /\ stamp' = [stamp EXCEPT ![r] = now]
  /\ UNCHANGED <<now, caller, entries>>

\* Fault variant: the times of the future are dropped with those of the past.
ActiveUpTo(k, t) == {q \in entries[k] : stamp[q] <= t /\ t < stamp[q] + Window}

\* Allow: the times less than a window before t.
Active(k, t) == {q \in entries[k] : t < stamp[q] + Window}

\* Fault variant: a denied request is counted as well.
AllowCounting(r) ==
  LET k == Key(caller[r])
      active == Active(k, stamp[r])
  IN  /\ pc[r] = "stamped"
      /\ entries' = [entries EXCEPT ![k] = active \union {r}]
      /\ pc' = [pc EXCEPT ![r] =
                  IF Cardinality(active) >= Limit THEN "denied" ELSE "admitted"]
      /\ UNCHANGED <<now, caller, stamp>>

\* Allow, holding the mutex: old times are dropped; a full window denies and
\* does not count the request, another admits and counts it.
Allow(r) ==
  LET k == Key(caller[r])
      active == Active(k, stamp[r])
      full == Cardinality(active) >= Limit
  IN  /\ pc[r] = "stamped"
      /\ entries' = [entries EXCEPT ![k] = IF full THEN active ELSE active \union {r}]
      /\ pc' = [pc EXCEPT ![r] = IF full THEN "denied" ELSE "admitted"]
      /\ UNCHANGED <<now, caller, stamp>>

\* Time passes; nobody waits for the mutex longer than MaxDelay.
Tick ==
  /\ now < MaxClock
  /\ \A r \in Requests : pc[r] = "stamped" => now < stamp[r] + MaxDelay
  /\ now' = now + 1
  /\ UNCHANGED <<pc, caller, stamp, entries>>

Next ==
  \/ \E r \in Requests : Pass(r) \/ ReadClock(r) \/ Allow(r)
  \/ Tick

Spec == Init /\ [][Next]_vars
-----------------------------------------------------------------------------
(* Properties *)

\* The requests with a subject and a path, or with an address and a path if
\* they carry no verified token: the middleware limits these together.
Together(sub, ip, path) ==
  {r \in Requests : /\ caller[r].path = path
                    /\ caller[r].sub = sub
                    /\ sub = None => caller[r].ip = ip}

\* Those of them that Allow let pass with a time in t, t+1, .. t+n-1.
AdmittedIn(sub, ip, path, t, n) ==
  {r \in Together(sub, ip, path) : pc[r] = "admitted" /\ t <= stamp[r] /\ stamp[r] < t + n}

\* No more than Limit requests of a caller pass in any stretch as long as the
\* window less the delay between reading the clock and the mutex.  The delay
\* matters: a later request that overtakes an earlier one drops times that the
\* earlier one should have counted.
WindowHolds ==
  \A c \in Callers, t \in 0 .. MaxClock :
    Cardinality(AdmittedIn(c.sub, c.ip, c.path, t, Window - MaxDelay)) <= Limit

\* A request is denied only if Limit others of its caller passed less than a
\* window before it, or while it waited for the mutex; denied ones count for
\* nothing.
DeniedOnlyWhenFull ==
  [][\A r \in Requests :
       pc[r] # "denied" /\ pc'[r] = "denied" =>
         Cardinality({q \in Together(caller[r].sub, caller[r].ip, caller[r].path) :
                        /\ pc[q] = "admitted"
                        /\ stamp[r] < stamp[q] + Window
                        /\ stamp[q] <= stamp[r] + MaxDelay}) >= Limit]_vars
=============================================================================
