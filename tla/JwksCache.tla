----------------------------- MODULE JwksCache -----------------------------
(***************************************************************************)
(* The keys that tokens are verified with                                  *)
(* (src/internal/infrastructure/auth/jwks.go): the document of the         *)
(* provider's public keys, fetched again when it is older than an hour,    *)
(* when there is none, or when a token names a key it does not hold.       *)
(*                                                                         *)
(* One validation at a time holds the mutex, fetches included, so the      *)
(* steps of one between two waits on the provider are an action.  A key is *)
(* named by its kid; the provider publishes keys and withdraws them at     *)
(* will.  Fetching is two steps, the provider's answer and its arrival: a  *)
(* document may be out of date when it is installed.  Time is a tick.      *)
(***************************************************************************)
EXTENDS Naturals

CONSTANTS
  Tokens,      \* the tokens being validated at once
  Kids,        \* key identifiers
  KeysTTL,     \* jwksCacheTTL (1 h)
  FetchTime,   \* the client's timeout (10 s): a later answer is an error
  MaxRotations \* bound: changes of the published keys

ASSUME JwksAssumption ==
  KeysTTL \in Nat /\ FetchTime \in Nat /\ MaxRotations \in Nat

VARIABLES
  published,   \* the provider's usable RSA keys; none: an empty document (external)
  gone,        \* ticks since each key was last published, capped (history)
  rotations,   \* changes of the published keys (bound)
  keys,        \* c.keys
  since,       \* ticks since c.fetchedAt, capped
  stage, kid,  \* per token: how far its validation is, the key it names
  doc,         \* per token: the document on its way to it
  travel,      \* per token: ticks since its fetch began
  held,        \* per token: ticks since it took the mutex (history)
  failed,      \* per token: a fetch of its own has failed (history)
  steady       \* per token: its key was published all the while (history)

tokenVars == <<stage, kid, doc, travel, held, failed, steady>>
jwksVars == <<published, gone, rotations, keys, since, tokenVars>>

Expiry   == KeysTTL + 1            \* older than the TTL, however much
LongGone == Expiry + FetchTime

Asking   == {"refresh", "retry"}           \* the provider has not answered yet
Fetching == Asking \union {"refreshed", "retried"}

JwksTypeOK ==
  /\ published \subseteq Kids
  /\ gone \in [Kids -> 0 .. LongGone]
  /\ rotations \in Nat
  /\ keys \subseteq Kids
  /\ since \in 0 .. Expiry
  /\ stage \in [Tokens -> Fetching \union {"idle", "wait", "accepted", "refused"}]
  /\ kid \in [Tokens -> Kids]
  /\ doc \in [Tokens -> SUBSET Kids]
  /\ travel \in [Tokens -> 0 .. FetchTime]
  /\ held \in [Tokens -> Nat]
  /\ failed \in [Tokens -> BOOLEAN]
  /\ steady \in [Tokens -> BOOLEAN]

\* newJWKSCache: no key, and fetchedAt the zero time.
JwksInit ==
  /\ published \in SUBSET Kids
  /\ gone = [k \in Kids |-> IF k \in published THEN 0 ELSE LongGone]
  /\ rotations = 0
  /\ keys = {} /\ since = Expiry
  /\ stage = [t \in Tokens |-> "idle"]
  /\ kid \in [Tokens -> Kids]
  /\ doc = [t \in Tokens |-> {}]
  /\ travel = [t \in Tokens |-> 0]
  /\ held = [t \in Tokens |-> 0]
  /\ failed = [t \in Tokens |-> FALSE]
  /\ steady = [t \in Tokens |-> FALSE]
-----------------------------------------------------------------------------
(* key *)

Goes(t, place) == stage' = [stage EXCEPT ![t] = place]

\* A token is presented; its validation waits for the mutex.
Present(t, k) ==
  /\ stage[t] \in {"idle", "accepted", "refused"}
  /\ Goes(t, "wait")
  /\ kid' = [kid EXCEPT ![t] = k]
  /\ failed' = [failed EXCEPT ![t] = FALSE]
  /\ steady' = [steady EXCEPT ![t] = k \in published]
  /\ UNCHANGED <<published, gone, rotations, keys, since, doc, travel, held>>

\* Fault variant: the document is fetched once.
NeverStale == keys = {}

Unlocked == \A t \in Tokens : stage[t] \notin Fetching

Stale == since > KeysTTL \/ keys = {}

\* Fault variant: a key that the document lacks is refused at once.
LockWithoutRetry(t) ==
  /\ stage[t] = "wait"
  /\ Unlocked
  /\ Goes(t, IF Stale THEN "refresh"
             ELSE IF kid[t] \in keys THEN "accepted" ELSE "refused")
  /\ UNCHANGED <<published, gone, rotations, keys, since, kid, doc, travel, held, failed, steady>>

\* The mutex is taken, and kept for a fetch: of a stale document, or of one
\* that lacks the key.
Lock(t) ==
  /\ stage[t] = "wait"
  /\ Unlocked
  /\ Goes(t, IF Stale THEN "refresh"
             ELSE IF kid[t] \in keys THEN "accepted" ELSE "retry")
  /\ UNCHANGED <<published, gone, rotations, keys, since, kid, doc, travel, held, failed, steady>>

\* The provider answers with what it publishes now (external).
Provide(t) ==
  /\ stage[t] \in Asking
  /\ Goes(t, IF stage[t] = "refresh" THEN "refreshed" ELSE "retried")
  /\ doc' = [doc EXCEPT ![t] = published]
  /\ UNCHANGED <<published, gone, rotations, keys, since, kid, travel, held, failed, steady>>

\* A fetch of t is over; the mutex is released unless another one follows.
Over(t, place) ==
  /\ Goes(t, place)
  /\ held' = [held EXCEPT ![t] = IF place = "retry" THEN @ ELSE 0]
  /\ travel' = [travel EXCEPT ![t] = 0]
  /\ doc' = [doc EXCEPT ![t] = {}]

\* refreshLocked: the document replaces the keys, unless it holds none.
Install(t) ==
  /\ doc[t] # {}
  /\ keys' = doc[t]
  /\ since' = 0

\* refreshLocked fails: no answer, an error, or no RSA key in the document;
\* the keys stay.
FetchFails(t) ==
  /\ failed' = [failed EXCEPT ![t] = TRUE]
  /\ UNCHANGED <<keys, since>>

\* The refresh of a stale document arrives; a key it lacks is fetched again.
Refresh(t) ==
  /\ stage[t] = "refreshed"
  /\ Install(t)
  /\ Over(t, IF kid[t] \in doc[t] THEN "accepted" ELSE "retry")
  /\ UNCHANGED <<published, gone, rotations, kid, failed, steady>>

\* The refresh of a stale document fails: the old keys serve, if there are
\* any, and the fetch for a key they lack is tried.
RefreshFails(t) ==
  /\ stage[t] \in {"refresh", "refreshed"}
  /\ FetchFails(t)
  /\ Over(t, IF keys = {} THEN "refused"
             ELSE IF kid[t] \in keys THEN "accepted" ELSE "retry")
  /\ UNCHANGED <<published, gone, rotations, kid, steady>>

\* The fetch for an unknown key arrives.
Retry(t) ==
  /\ stage[t] = "retried"
  /\ Install(t)
  /\ Over(t, IF kid[t] \in doc[t] THEN "accepted" ELSE "refused")
  /\ UNCHANGED <<published, gone, rotations, kid, failed, steady>>

\* Fault variant: the fetch for an unknown key is repeated until it succeeds.
RetryFailsAndRepeats(t) ==
  /\ stage[t] \in {"retry", "retried"}
  /\ FetchFails(t)
  /\ Over(t, "retry")
  /\ UNCHANGED <<published, gone, rotations, kid, steady>>

RetryFails(t) ==
  /\ stage[t] \in {"retry", "retried"}
  /\ FetchFails(t)
  /\ Over(t, "refused")
  /\ UNCHANGED <<published, gone, rotations, kid, steady>>
-----------------------------------------------------------------------------
(* The provider and time *)

\* The provider rotates its keys (external).
Rotate(set) ==
  /\ rotations < MaxRotations
  /\ set # published
  /\ published' = set
  /\ gone' = [k \in Kids |-> IF k \in set THEN 0 ELSE gone[k]]
  /\ steady' = [t \in Tokens |-> steady[t] /\ kid[t] \in set]
  /\ rotations' = rotations + 1
  /\ UNCHANGED <<keys, since, stage, kid, doc, travel, held, failed>>

\* Fault variant: a client without a timeout.
PassTimeUntimed ==
  /\ gone' = [k \in Kids |-> IF k \in published THEN 0
                             ELSE IF gone[k] < LongGone THEN gone[k] + 1 ELSE gone[k]]
  /\ since' = IF since < Expiry THEN since + 1 ELSE since
  /\ travel' = [t \in Tokens |-> IF stage[t] \in Fetching THEN travel[t] + 1 ELSE travel[t]]
  /\ held' = [t \in Tokens |-> IF stage[t] \in Fetching THEN held[t] + 1 ELSE held[t]]
  /\ UNCHANGED <<published, rotations, keys, stage, kid, doc, failed, steady>>

PassTime ==
  /\ \A t \in Tokens : stage[t] \in Fetching => travel[t] < FetchTime
  /\ gone' = [k \in Kids |-> IF k \in published THEN 0
                             ELSE IF gone[k] < LongGone THEN gone[k] + 1 ELSE gone[k]]
  /\ since' = IF since < Expiry THEN since + 1 ELSE since
  /\ travel' = [t \in Tokens |-> IF stage[t] \in Fetching THEN travel[t] + 1 ELSE travel[t]]
  /\ held' = [t \in Tokens |-> IF stage[t] \in Fetching THEN held[t] + 1 ELSE held[t]]
  /\ UNCHANGED <<published, rotations, keys, stage, kid, doc, failed, steady>>
-----------------------------------------------------------------------------
Validate(t) ==
  \/ \E k \in Kids : Present(t, k)
  \/ Lock(t)
  \/ Provide(t)
  \/ Refresh(t) \/ RefreshFails(t)
  \/ Retry(t) \/ RetryFails(t)

JwksNext ==
  \/ \E t \in Tokens : Validate(t)
  \/ \E set \in SUBSET Kids : Rotate(set)
  \/ PassTime

JwksSpec == JwksInit /\ [][JwksNext]_jwksVars
-----------------------------------------------------------------------------
(* Properties *)

\* A key is accepted at most jwksCacheTTL and one fetch after the provider
\* withdrew it, unless the refresh of this very validation has failed: only
\* then do the expired keys of key() serve.
WithdrawnKeyDies ==
  [][\A t \in Tokens :
       stage[t] # "accepted" /\ stage'[t] = "accepted" =>
         gone[kid[t]] <= KeysTTL + FetchTime \/ failed'[t]]_jwksVars

\* A token whose key the provider published all the while is refused only
\* when a fetch of its own failed: a rotation within the TTL refuses nobody.
PublishedKeyIsFound ==
  \A t \in Tokens : stage[t] = "refused" /\ steady[t] => failed[t]

\* While the provider hangs every other validation waits for the mutex, and
\* key() does not look at its context: but each keeps it for two timeouts of
\* the client at most, and so many of them bound the wait.
MutexHeldBriefly ==
  \A t \in Tokens : held[t] <= 2 * FetchTime
=============================================================================
