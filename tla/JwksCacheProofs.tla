-------------------------- MODULE JwksCacheProofs --------------------------
(***************************************************************************)
(* Theorems about JwksCache, for any number of tokens and keys, any        *)
(* lifetime of the keys and any timeout.                                   *)
(***************************************************************************)
EXTENDS JwksCache, TLAPS

-----------------------------------------------------------------------------
(* The inductive invariant *)

\* What is published is not gone.
PublishedIsNow == \A k \in published : gone[k] = 0

\* The keys are as old as the document, and as its travel made it.
KeysAreRecent == \A k \in keys : gone[k] <= since + FetchTime

\* A document on its way is as old as its travel, and holds the key of a token
\* that was published all the while.
DocsAreRecent ==
  \A t \in Tokens : stage[t] \in {"refreshed", "retried"} =>
    \A k \in doc[t] : gone[k] <= travel[t]

SteadyIsFound ==
  \A t \in Tokens : steady[t] =>
    /\ kid[t] \in published
    /\ stage[t] \in {"refreshed", "retried"} => kid[t] \in doc[t]

\* Of two fetches, the second begins when the first is over.
HeldInTwo ==
  \A t \in Tokens :
    /\ stage[t] \in {"refresh", "refreshed"} => held[t] <= travel[t]
    /\ stage[t] \in {"retry", "retried"} => held[t] <= FetchTime + travel[t]
    /\ stage[t] \notin Fetching => held[t] = 0

JwksInv ==
  /\ JwksTypeOK
  /\ PublishedIsNow /\ KeysAreRecent /\ DocsAreRecent
  /\ SteadyIsFound /\ PublishedKeyIsFound
  /\ HeldInTwo

LEMMA JwksNumbers ==
  /\ KeysTTL \in Nat /\ FetchTime \in Nat /\ Expiry \in Nat /\ LongGone \in Nat
  /\ Expiry = KeysTTL + 1 /\ LongGone = Expiry + FetchTime
BY JwksAssumption DEF Expiry, LongGone

LEMMA JwksInitInv == JwksInit => JwksInv
<1> SUFFICES ASSUME JwksInit PROVE JwksInv
  OBVIOUS
<1>1. JwksTypeOK
  BY JwksNumbers DEF JwksInit, JwksTypeOK
<1>2. PublishedIsNow /\ KeysAreRecent
  BY DEF JwksInit, PublishedIsNow, KeysAreRecent
<1>3. DocsAreRecent /\ SteadyIsFound /\ PublishedKeyIsFound /\ HeldInTwo
  BY DEF JwksInit, DocsAreRecent, SteadyIsFound, PublishedKeyIsFound, HeldInTwo
<1> QED BY <1>1, <1>2, <1>3 DEF JwksInv
-----------------------------------------------------------------------------
(* The steps *)

LEMMA PresentStep ==
  ASSUME JwksInv, NEW t \in Tokens, NEW k \in Kids, Present(t, k)
  PROVE  JwksInv'
<1>1. JwksTypeOK'
  BY DEF JwksInv, JwksTypeOK, Present, Goes
<1>2. PublishedIsNow' /\ KeysAreRecent' /\ DocsAreRecent'
  BY DEF JwksInv, JwksTypeOK, PublishedIsNow, KeysAreRecent, DocsAreRecent, Present, Goes
<1>3. SteadyIsFound' /\ PublishedKeyIsFound'
  BY DEF JwksInv, JwksTypeOK, SteadyIsFound, PublishedKeyIsFound, Present, Goes
<1>4. HeldInTwo'
  BY DEF JwksInv, JwksTypeOK, HeldInTwo, Present, Goes, Fetching, Asking
<1> QED BY <1>1, <1>2, <1>3, <1>4 DEF JwksInv

LEMMA LockStep ==
  ASSUME JwksInv, NEW t \in Tokens, Lock(t)
  PROVE  JwksInv'
<1>1. JwksTypeOK'
  BY DEF JwksInv, JwksTypeOK, Lock, Goes, Fetching, Asking
<1>2. PublishedIsNow' /\ KeysAreRecent' /\ DocsAreRecent'
  BY DEF JwksInv, JwksTypeOK, PublishedIsNow, KeysAreRecent, DocsAreRecent, Lock, Goes
<1>3. SteadyIsFound' /\ PublishedKeyIsFound'
  BY DEF JwksInv, JwksTypeOK, SteadyIsFound, PublishedKeyIsFound, Lock, Goes
<1>4. HeldInTwo'
  BY JwksNumbers DEF JwksInv, JwksTypeOK, HeldInTwo, Lock, Goes, Fetching, Asking
<1> QED BY <1>1, <1>2, <1>3, <1>4 DEF JwksInv

LEMMA ProvideStep ==
  ASSUME JwksInv, NEW t \in Tokens, Provide(t)
  PROVE  JwksInv'
<1>1. JwksTypeOK'
  BY DEF JwksInv, JwksTypeOK, Provide, Goes, Fetching, Asking
<1>2. PublishedIsNow' /\ KeysAreRecent'
  BY DEF JwksInv, PublishedIsNow, KeysAreRecent, Provide
<1>3. DocsAreRecent'
  BY DEF JwksInv, JwksTypeOK, PublishedIsNow, DocsAreRecent, Provide, Goes
<1>4. SteadyIsFound' /\ PublishedKeyIsFound'
  BY DEF JwksInv, JwksTypeOK, SteadyIsFound, PublishedKeyIsFound, Provide, Goes
<1>5. HeldInTwo'
  BY DEF JwksInv, JwksTypeOK, HeldInTwo, Provide, Goes, Fetching, Asking
<1> QED BY <1>1, <1>2, <1>3, <1>4, <1>5 DEF JwksInv

\* A fetch that is over leaves the other tokens alone, and its own token in a
\* place that HeldInTwo allows.
LEMMA OverHolds ==
  ASSUME JwksInv, NEW t \in Tokens, stage[t] \in Fetching,
         NEW place \in {"accepted", "refused", "retry"}, Over(t, place),
         place = "retry" => stage[t] \in {"refresh", "refreshed"}
  PROVE  /\ HeldInTwo'
         /\ stage' \in [Tokens -> Fetching \union {"idle", "wait", "accepted", "refused"}]
         /\ doc' \in [Tokens -> SUBSET Kids]
         /\ travel' \in [Tokens -> 0 .. FetchTime]
         /\ held' \in [Tokens -> Nat]
         /\ \A u \in Tokens : u # t => /\ stage'[u] = stage[u] /\ doc'[u] = doc[u]
                                       /\ travel'[u] = travel[u]
         /\ stage'[t] = place
BY JwksNumbers DEF JwksInv, JwksTypeOK, HeldInTwo, Over, Goes, Fetching, Asking

\* A document that arrives is as recent as it must be.
LEMMA InstallRecent ==
  ASSUME JwksInv, NEW t \in Tokens, stage[t] \in {"refreshed", "retried"}, Install(t),
         UNCHANGED gone
  PROVE  KeysAreRecent' /\ keys' \subseteq Kids /\ since' \in 0 .. Expiry
<1>1. \A k \in doc[t] : gone[k] <= travel[t] /\ gone[k] \in Nat
  BY DEF JwksInv, JwksTypeOK, DocsAreRecent
<1>2. travel[t] \in 0 .. FetchTime /\ doc[t] \subseteq Kids
  BY DEF JwksInv, JwksTypeOK
<1> QED BY <1>1, <1>2, JwksNumbers DEF Install, KeysAreRecent

\* The part of the invariant about the other tokens and the provider.
LEMMA FetchStep ==
  ASSUME JwksInv, NEW t \in Tokens, stage[t] \in Fetching,
         NEW place \in {"accepted", "refused", "retry"}, Over(t, place),
         place = "retry" => stage[t] \in {"refresh", "refreshed"},
         UNCHANGED <<published, gone, rotations, kid, steady>>,
         failed' \in [Tokens -> BOOLEAN],
         \A u \in Tokens : failed[u] => failed'[u],
         place = "refused" /\ steady[t] => failed'[t],
         KeysAreRecent', keys' \subseteq Kids, since' \in 0 .. Expiry
  PROVE  JwksInv'
<1>1. /\ HeldInTwo'
      /\ stage' \in [Tokens -> Fetching \union {"idle", "wait", "accepted", "refused"}]
      /\ doc' \in [Tokens -> SUBSET Kids]
      /\ travel' \in [Tokens -> 0 .. FetchTime]
      /\ held' \in [Tokens -> Nat]
      /\ \A u \in Tokens : u # t => /\ stage'[u] = stage[u] /\ doc'[u] = doc[u]
                                    /\ travel'[u] = travel[u]
      /\ stage'[t] = place
  BY OverHolds
<1>2. JwksTypeOK'
  BY <1>1 DEF JwksInv, JwksTypeOK
<1>3. PublishedIsNow'
  BY DEF JwksInv, PublishedIsNow
<1>4. DocsAreRecent' /\ SteadyIsFound'
  BY <1>1 DEF JwksInv, DocsAreRecent, SteadyIsFound
<1>5. PublishedKeyIsFound'
  BY <1>1 DEF JwksInv, PublishedKeyIsFound
<1> QED BY <1>1, <1>2, <1>3, <1>4, <1>5 DEF JwksInv

LEMMA RefreshStep ==
  ASSUME JwksInv, NEW t \in Tokens, Refresh(t)
  PROVE  JwksInv'
<1> DEFINE place == IF kid[t] \in doc[t] THEN "accepted" ELSE "retry"
<1>1. /\ stage[t] = "refreshed" /\ stage[t] \in Fetching
      /\ place \in {"accepted", "refused", "retry"} /\ Over(t, place)
      /\ UNCHANGED <<published, gone, rotations, kid, steady>>
      /\ UNCHANGED failed /\ Install(t) /\ place # "refused"
  BY DEF Refresh, Fetching
<1>2. KeysAreRecent' /\ keys' \subseteq Kids /\ since' \in 0 .. Expiry
  BY <1>1, InstallRecent
<1>3. failed' \in [Tokens -> BOOLEAN]
  BY <1>1 DEF JwksInv, JwksTypeOK
<1> HIDE DEF place
<1> QED BY <1>1, <1>2, <1>3, FetchStep

LEMMA RetryStep ==
  ASSUME JwksInv, NEW t \in Tokens, Retry(t)
  PROVE  JwksInv'
<1> DEFINE place == IF kid[t] \in doc[t] THEN "accepted" ELSE "refused"
<1>1. /\ stage[t] = "retried" /\ stage[t] \in Fetching
      /\ place \in {"accepted", "refused", "retry"} /\ Over(t, place)
      /\ UNCHANGED <<published, gone, rotations, kid, steady>>
      /\ UNCHANGED failed /\ Install(t) /\ place # "retry"
  BY DEF Retry, Fetching
<1>2. KeysAreRecent' /\ keys' \subseteq Kids /\ since' \in 0 .. Expiry
  BY <1>1, InstallRecent
<1>3. failed' \in [Tokens -> BOOLEAN]
  BY <1>1 DEF JwksInv, JwksTypeOK
<1>4. place = "refused" => ~ steady[t]
  BY <1>1 DEF JwksInv, SteadyIsFound
<1> HIDE DEF place
<1> QED BY <1>1, <1>2, <1>3, <1>4, FetchStep

LEMMA FailsStep ==
  ASSUME JwksInv, NEW t \in Tokens, RefreshFails(t) \/ RetryFails(t)
  PROVE  JwksInv'
<1>1. /\ stage[t] \in Fetching /\ FetchFails(t)
      /\ UNCHANGED <<published, gone, rotations, kid, steady>>
  BY DEF RefreshFails, RetryFails, Fetching, Asking
<1>2. PICK place \in {"accepted", "refused", "retry"} :
        /\ Over(t, place)
        /\ place = "retry" => stage[t] \in {"refresh", "refreshed"}
  <2>1. CASE RefreshFails(t)
    <3>1. /\ stage[t] \in {"refresh", "refreshed"}
          /\ Over(t, IF keys = {} THEN "refused"
                     ELSE IF kid[t] \in keys THEN "accepted" ELSE "retry")
      BY <2>1 DEF RefreshFails
    <3> QED BY <3>1
  <2>2. CASE RetryFails(t)
    BY <2>2 DEF RetryFails
  <2> QED BY <2>1, <2>2
<1>3. /\ failed' \in [Tokens -> BOOLEAN] /\ failed'[t]
      /\ \A u \in Tokens : failed[u] => failed'[u]
  BY <1>1 DEF FetchFails, JwksInv, JwksTypeOK
<1>4. KeysAreRecent' /\ keys' \subseteq Kids /\ since' \in 0 .. Expiry
  BY <1>1 DEF FetchFails, JwksInv, JwksTypeOK, KeysAreRecent
<1> QED BY <1>1, <1>2, <1>3, <1>4, FetchStep

LEMMA RotateStep ==
  ASSUME JwksInv, NEW set \in SUBSET Kids, Rotate(set)
  PROVE  JwksInv'
<1>1. \A k \in Kids : /\ gone[k] \in 0 .. LongGone /\ gone'[k] \in 0 .. LongGone
                      /\ gone'[k] <= gone[k]
                      /\ k \in published' => gone'[k] = 0
  BY JwksNumbers DEF JwksInv, JwksTypeOK, Rotate
<1>2. JwksTypeOK'
  <2>1. gone' \in [Kids -> 0 .. LongGone]
    BY <1>1 DEF Rotate
  <2>2. steady' \in [Tokens -> BOOLEAN]
    BY DEF JwksInv, JwksTypeOK, Rotate
  <2> QED BY <2>1, <2>2 DEF JwksInv, JwksTypeOK, Rotate
<1>3. PublishedIsNow'
  BY <1>1 DEF PublishedIsNow, Rotate
<1>4. KeysAreRecent'
  <2> SUFFICES ASSUME NEW k \in keys PROVE gone'[k] <= since + FetchTime
    BY DEF KeysAreRecent, Rotate
  <2>1. k \in Kids /\ gone[k] <= since + FetchTime /\ since \in 0 .. Expiry
    BY DEF JwksInv, JwksTypeOK, KeysAreRecent
  <2> QED BY <1>1, <2>1, JwksNumbers
<1>5. DocsAreRecent'
  <2> SUFFICES ASSUME NEW t \in Tokens, stage[t] \in {"refreshed", "retried"}, NEW k \in doc[t]
               PROVE  gone'[k] <= travel[t]
    BY DEF DocsAreRecent, Rotate
  <2>1. k \in Kids /\ gone[k] <= travel[t] /\ travel[t] \in 0 .. FetchTime
    BY DEF JwksInv, JwksTypeOK, DocsAreRecent
  <2> QED BY <1>1, <2>1, JwksNumbers
<1>6. SteadyIsFound' /\ PublishedKeyIsFound'
  BY DEF JwksInv, JwksTypeOK, SteadyIsFound, PublishedKeyIsFound, Rotate
<1>7. HeldInTwo'
  BY DEF JwksInv, HeldInTwo, Rotate
<1> QED BY <1>2, <1>3, <1>4, <1>5, <1>6, <1>7 DEF JwksInv

LEMMA PassTimeStep ==
  ASSUME JwksInv, PassTime
  PROVE  JwksInv'
<1>1. \A k \in Kids : /\ gone[k] \in 0 .. LongGone /\ gone'[k] \in 0 .. LongGone
                      /\ gone'[k] <= gone[k] + 1
                      /\ k \in published => gone'[k] = 0
  BY JwksNumbers DEF JwksInv, JwksTypeOK, PassTime
<1>2. /\ since \in 0 .. Expiry /\ since' \in 0 .. Expiry
      /\ since' = since + 1 \/ since' = Expiry
  BY JwksNumbers DEF JwksInv, JwksTypeOK, PassTime
<1>3. \A t \in Tokens :
        /\ travel[t] \in 0 .. FetchTime /\ travel'[t] \in 0 .. FetchTime
        /\ held[t] \in Nat /\ held'[t] \in Nat
        /\ stage[t] \in Fetching => travel'[t] = travel[t] + 1 /\ held'[t] = held[t] + 1
        /\ stage[t] \notin Fetching => held'[t] = held[t]
  BY JwksNumbers DEF JwksInv, JwksTypeOK, PassTime
<1>4. JwksTypeOK'
  <2>1. gone' \in [Kids -> 0 .. LongGone]
    BY <1>1 DEF PassTime
  <2>2. travel' \in [Tokens -> 0 .. FetchTime] /\ held' \in [Tokens -> Nat]
    BY <1>3 DEF PassTime
  <2> QED BY <1>2, <2>1, <2>2 DEF JwksInv, JwksTypeOK, PassTime
<1>5. PublishedIsNow'
  BY <1>1 DEF JwksInv, JwksTypeOK, PublishedIsNow, PassTime
<1>6. KeysAreRecent'
  <2> SUFFICES ASSUME NEW k \in keys PROVE gone'[k] <= since' + FetchTime
    BY DEF KeysAreRecent, PassTime
  <2>1. k \in Kids /\ gone[k] <= since + FetchTime
    BY DEF JwksInv, JwksTypeOK, KeysAreRecent
  <2> QED BY <1>1, <1>2, <2>1, JwksNumbers
<1>7. DocsAreRecent'
  <2> SUFFICES ASSUME NEW t \in Tokens, stage[t] \in {"refreshed", "retried"}, NEW k \in doc[t]
               PROVE  gone'[k] <= travel'[t]
    BY DEF DocsAreRecent, PassTime
  <2>1. k \in Kids /\ gone[k] <= travel[t] /\ stage[t] \in Fetching
    BY DEF JwksInv, JwksTypeOK, DocsAreRecent, Fetching
  <2> QED BY <1>1, <1>3, <2>1, JwksNumbers
<1>8. SteadyIsFound' /\ PublishedKeyIsFound'
  BY DEF JwksInv, SteadyIsFound, PublishedKeyIsFound, PassTime
<1>9. HeldInTwo'
  <2> SUFFICES ASSUME NEW t \in Tokens
               PROVE  /\ stage[t] \in {"refresh", "refreshed"} => held'[t] <= travel'[t]
                      /\ stage[t] \in {"retry", "retried"} => held'[t] <= FetchTime + travel'[t]
                      /\ stage[t] \notin Fetching => held'[t] = 0
    BY DEF HeldInTwo, PassTime
  <2>1. /\ stage[t] \in {"refresh", "refreshed"} => held[t] <= travel[t] /\ stage[t] \in Fetching
        /\ stage[t] \in {"retry", "retried"} => held[t] <= FetchTime + travel[t] /\ stage[t] \in Fetching
        /\ stage[t] \notin Fetching => held[t] = 0
    BY DEF JwksInv, HeldInTwo, Fetching, Asking
  <2> QED BY <1>3, <2>1, JwksNumbers
<1> QED BY <1>4, <1>5, <1>6, <1>7, <1>8, <1>9 DEF JwksInv

LEMMA JwksStepInv == JwksInv /\ [JwksNext]_jwksVars => JwksInv'
<1> SUFFICES ASSUME JwksInv, [JwksNext]_jwksVars PROVE JwksInv'
  OBVIOUS
<1>1. CASE UNCHANGED jwksVars
  BY <1>1 DEF jwksVars, tokenVars, JwksInv, JwksTypeOK, PublishedIsNow, KeysAreRecent,
     DocsAreRecent, SteadyIsFound, PublishedKeyIsFound, HeldInTwo
<1>2. ASSUME NEW t \in Tokens, Validate(t) PROVE JwksInv'
  BY <1>2, PresentStep, LockStep, ProvideStep, RefreshStep, RetryStep, FailsStep DEF Validate
<1>3. CASE \E set \in SUBSET Kids : Rotate(set)
  BY <1>3, RotateStep
<1>4. CASE PassTime
  BY <1>4, PassTimeStep
<1> QED BY <1>1, <1>2, <1>3, <1>4 DEF JwksNext

LEMMA JwksInvariant == JwksSpec => []JwksInv
BY JwksInitInv, JwksStepInv, PTL DEF JwksSpec
-----------------------------------------------------------------------------
\* What the key cache and its validations hold.
THEOREM JwksTypes == JwksSpec => []JwksTypeOK
<1>1. JwksInv => JwksTypeOK
  BY DEF JwksInv
<1> QED BY <1>1, JwksInvariant, PTL

\* A rotation refuses no token whose key is published: key() fetches again
\* for a kid it does not know.
THEOREM RotationRefusesNobody == JwksSpec => []PublishedKeyIsFound
<1>1. JwksInv => PublishedKeyIsFound
  BY DEF JwksInv
<1> QED BY <1>1, JwksInvariant, PTL

\* One validation keeps the mutex for two timeouts of the client at most.
THEOREM MutexIsReleased == JwksSpec => []MutexHeldBriefly
<1>1. JwksInv => MutexHeldBriefly
  <2> SUFFICES ASSUME JwksInv, NEW t \in Tokens PROVE held[t] <= 2 * FetchTime
    BY DEF MutexHeldBriefly
  <2>1. held[t] \in Nat /\ travel[t] \in 0 .. FetchTime
    BY DEF JwksInv, JwksTypeOK
  <2>2. held[t] <= FetchTime + travel[t] \/ held[t] <= travel[t] \/ held[t] = 0
    BY DEF JwksInv, JwksTypeOK, HeldInTwo, Fetching, Asking
  <2> QED BY <2>1, <2>2, JwksNumbers
<1> QED BY <1>1, JwksInvariant, PTL

\* A withdrawn key dies with its document, but for the validations whose own
\* refresh fails.
THEOREM WithdrawnKeysDie == JwksSpec => WithdrawnKeyDies
<1> DEFINE A == \A t \in Tokens :
                  stage[t] # "accepted" /\ stage'[t] = "accepted" =>
                    gone[kid[t]] <= KeysTTL + FetchTime \/ failed'[t]
<1>1. JwksInv /\ [JwksNext]_jwksVars => [A]_jwksVars
  <2> SUFFICES ASSUME JwksInv, JwksNext, NEW t \in Tokens,
                      stage[t] # "accepted", stage'[t] = "accepted"
               PROVE  gone[kid[t]] <= KeysTTL + FetchTime \/ failed'[t]
    OBVIOUS
  <2>1. PICK u \in Tokens : Validate(u)
    BY DEF JwksNext, Rotate, PassTime
  <2>2. u = t
    BY <2>1 DEF Validate, Present, Lock, Provide, Refresh, RefreshFails, Retry, RetryFails,
       Over, Goes, JwksInv, JwksTypeOK
  <2>3. gone[kid[t]] \in Nat /\ kid[t] \in Kids
    BY DEF JwksInv, JwksTypeOK
  <2>4. CASE Lock(t)
    <3>1. kid[t] \in keys /\ ~ (since > KeysTTL)
      BY <2>4 DEF Lock, Goes, Stale, JwksInv, JwksTypeOK
    <3>2. gone[kid[t]] <= since + FetchTime /\ since \in 0 .. Expiry
      BY <3>1 DEF JwksInv, JwksTypeOK, KeysAreRecent
    <3> QED BY <2>3, <3>1, <3>2, JwksNumbers
  <2>5. CASE Refresh(t) \/ Retry(t)
    <3>1. stage[t] \in {"refreshed", "retried"} /\ kid[t] \in doc[t]
      BY <2>5 DEF Refresh, Retry, Over, Goes, JwksInv, JwksTypeOK
    <3>2. gone[kid[t]] <= travel[t] /\ travel[t] \in 0 .. FetchTime
      BY <3>1 DEF JwksInv, JwksTypeOK, DocsAreRecent
    <3> QED BY <2>3, <3>2, JwksNumbers
  <2>6. CASE RefreshFails(t)
    BY <2>6 DEF RefreshFails, FetchFails, JwksInv, JwksTypeOK
  <2>7. ~ Provide(t) /\ ~ RetryFails(t) /\ \A k \in Kids : ~ Present(t, k)
    BY DEF Provide, RetryFails, Present, Over, Goes, JwksInv, JwksTypeOK
  <2> QED BY <2>1, <2>2, <2>4, <2>5, <2>6, <2>7 DEF Validate
<1> QED BY <1>1, JwksInvariant, PTL DEF JwksSpec, WithdrawnKeyDies
=============================================================================
