--------------------------- MODULE RateLimitProofs ---------------------------
(***************************************************************************)
(* Theorems about RateLimit, for any number of requests and callers, any   *)
(* limit and window, and any delay shorter than the window.                *)
(***************************************************************************)
EXTENDS RateLimit, FiniteSetTheorems, TLAPS

\* The requests limited together are those of one key.
LEMMA TogetherByKey ==
  ASSUME TypeOK, NEW c \in Callers, NEW r \in Requests
  PROVE  r \in Together(c.sub, c.ip, c.path) <=> Key(caller[r]) = Key(c)
BY DEF TypeOK, Together, Key, RateLimitPrincipal

\* Kept times are times of admitted requests of the key, and as many as fit.
EntriesAdmitted ==
  \A k \in Keys :
    /\ \A q \in entries[k] : pc[q] = "admitted" /\ Key(caller[q]) = k
    /\ Cardinality(entries[k]) <= Limit

\* A time is dropped only once the clock has passed it by a window.
DroppedLate ==
  \A q \in Requests :
    pc[q] = "admitted" => \/ q \in entries[Key(caller[q])]
                          \/ stamp[q] + Window <= now

\* A request that waits for the mutex has not waited long.
DelayHolds == \A r \in Requests : pc[r] = "stamped" => now <= stamp[r] + MaxDelay

IInv == TypeOK /\ EntriesAdmitted /\ DroppedLate /\ DelayHolds /\ WindowHolds

LEMMA KeyOfCaller == ASSUME TypeOK, NEW r \in Requests PROVE Key(caller[r]) \in Keys
BY DEF TypeOK, Keys

LEMMA Finite ==
  ASSUME NEW S \in SUBSET Requests
  PROVE  IsFiniteSet(S) /\ Cardinality(S) \in Nat
BY RateAssumption, FS_Subset, FS_CardinalityType

LEMMA Smaller ==
  ASSUME NEW T \in SUBSET Requests, NEW S \in SUBSET T
  PROVE  Cardinality(S) <= Cardinality(T)
<1>1. IsFiniteSet(T)
  BY Finite
<1> QED BY <1>1, FS_Subset

LEMMA InitIInv == Init => IInv
<1> SUFFICES ASSUME Init PROVE IInv
  OBVIOUS
<1>1. TypeOK
  BY RateAssumption DEF Init, TypeOK
<1>2. Cardinality({}) = 0
  BY FS_EmptySet
<1>3. EntriesAdmitted
  BY <1>2, RateAssumption DEF Init, EntriesAdmitted
<1>4. DroppedLate /\ DelayHolds
  BY DEF Init, DroppedLate, DelayHolds
<1>5. WindowHolds
  <2> SUFFICES ASSUME NEW c \in Callers, NEW t \in 0 .. MaxClock
               PROVE  Cardinality(AdmittedIn(c.sub, c.ip, c.path, t, Window - MaxDelay)) <= Limit
    BY DEF WindowHolds
  <2>1. AdmittedIn(c.sub, c.ip, c.path, t, Window - MaxDelay) = {}
    BY DEF Init, AdmittedIn, Together
  <2> QED BY <1>2, <2>1, RateAssumption
<1> QED BY <1>1, <1>3, <1>4, <1>5 DEF IInv

\* A step that admits nobody and leaves callers and admission times alone
\* keeps WindowHolds.
LEMMA WindowKept ==
  ASSUME WindowHolds, UNCHANGED caller,
         \A q \in Requests : pc'[q] = "admitted" => pc[q] = "admitted" /\ stamp'[q] = stamp[q]
  PROVE  WindowHolds'
<1> SUFFICES ASSUME NEW c \in Callers, NEW t \in 0 .. MaxClock
             PROVE  Cardinality(AdmittedIn(c.sub, c.ip, c.path, t, Window - MaxDelay)') <= Limit
  BY DEF WindowHolds
<1> DEFINE A == AdmittedIn(c.sub, c.ip, c.path, t, Window - MaxDelay)
<1>1. A' \subseteq A /\ A \subseteq Requests
  BY DEF AdmittedIn, Together
<1>2. Cardinality(A') <= Cardinality(A) /\ Cardinality(A) \in Nat /\ Cardinality(A') \in Nat
  <2> HIDE DEF A
  <2> QED BY <1>1, Smaller, Finite
<1>3. Cardinality(A) <= Limit
  BY DEF WindowHolds
<1> HIDE DEF A
<1> QED BY <1>2, <1>3, RateAssumption DEF A

LEMMA PassStep ==
  ASSUME IInv, NEW r \in Requests, Pass(r) PROVE IInv'
<1>1. WindowHolds'
  BY WindowKept DEF IInv, Pass, TypeOK
<1>2. TypeOK' /\ EntriesAdmitted' /\ DroppedLate' /\ DelayHolds'
  BY DEF IInv, TypeOK, EntriesAdmitted, DroppedLate, DelayHolds, Pass
<1> QED BY <1>1, <1>2 DEF IInv

LEMMA ReadClockStep ==
  ASSUME IInv, NEW r \in Requests, ReadClock(r) PROVE IInv'
<1>1. WindowHolds'
  BY WindowKept DEF IInv, ReadClock, TypeOK
<1>2. TypeOK'
  BY RateAssumption DEF IInv, TypeOK, ReadClock
<1>3. EntriesAdmitted'
  BY DEF IInv, TypeOK, EntriesAdmitted, ReadClock
<1>4. DroppedLate' /\ DelayHolds'
  BY RateAssumption DEF IInv, TypeOK, DroppedLate, DelayHolds, ReadClock
<1> QED BY <1>1, <1>2, <1>3, <1>4 DEF IInv

LEMMA TickStep ==
  ASSUME IInv, Tick PROVE IInv'
<1>1. WindowHolds'
  BY WindowKept DEF IInv, Tick
<1>2. TypeOK'
  BY RateAssumption DEF IInv, TypeOK, Tick
<1>3. EntriesAdmitted'
  BY DEF IInv, EntriesAdmitted, Tick
<1>4. DroppedLate' /\ DelayHolds'
  BY RateAssumption DEF IInv, TypeOK, DroppedLate, DelayHolds, Tick
<1> QED BY <1>1, <1>2, <1>3, <1>4 DEF IInv

\* The critical section.  A time that is missing from the key was dropped
\* when the clock had passed it by a window, and the clock is at most MaxDelay
\* past the admitted time: so it lies outside the shorter stretch.
LEMMA AllowStep ==
  ASSUME IInv, NEW r \in Requests, Allow(r) PROVE IInv'
<1> DEFINE k == Key(caller[r])
           active == Active(k, stamp[r])
           full == Cardinality(active) >= Limit
<1>1. k \in Keys /\ active \subseteq entries[k] /\ entries[k] \subseteq Requests
  BY KeyOfCaller DEF IInv, TypeOK, Active
<1>2. /\ pc[r] = "stamped" /\ UNCHANGED <<now, caller, stamp>>
      /\ entries' = [entries EXCEPT ![k] = IF full THEN active ELSE active \union {r}]
      /\ pc' = [pc EXCEPT ![r] = IF full THEN "denied" ELSE "admitted"]
  BY DEF Allow
<1>3. r \notin active /\ IsFiniteSet(active) /\ Cardinality(active) \in Nat
  BY <1>1, <1>2, Finite DEF IInv, EntriesAdmitted
<1>4. /\ Cardinality(active) <= Limit
      /\ ~ full => Cardinality(active \union {r}) <= Limit
  <2>1. Cardinality(active) <= Cardinality(entries[k]) /\ Cardinality(entries[k]) <= Limit
    BY <1>1, Smaller DEF IInv, EntriesAdmitted
  <2>2. Cardinality(active \union {r}) = Cardinality(active) + 1
    BY <1>3, FS_AddElement
  <2>3. Cardinality(entries[k]) \in Nat
    BY <1>1, Finite
  <2> QED BY <1>3, <2>1, <2>2, <2>3, RateAssumption
<1>5. TypeOK'
  BY <1>1, <1>2 DEF IInv, TypeOK
<1>6. EntriesAdmitted'
  <2> SUFFICES ASSUME NEW j \in Keys
               PROVE  /\ \A q \in entries'[j] : pc'[q] = "admitted" /\ Key(caller[q]) = j
                      /\ Cardinality(entries'[j]) <= Limit
    BY <1>2 DEF EntriesAdmitted
  <2>1. CASE j # k
    <3>1. entries'[j] = entries[j] /\ r \notin entries[j] /\ entries[j] \subseteq Requests
      BY <1>2, <2>1 DEF IInv, TypeOK, EntriesAdmitted
    <3> QED BY <1>2, <3>1 DEF IInv, TypeOK, EntriesAdmitted
  <2>2. CASE j = k
    <3>1. entries'[j] = IF full THEN active ELSE active \union {r}
      BY <1>1, <1>2, <2>2 DEF IInv, TypeOK
    <3>2. \A q \in active : pc[q] = "admitted" /\ Key(caller[q]) = k
      BY <1>1 DEF IInv, EntriesAdmitted
    <3>3. \A q \in entries'[j] : pc'[q] = "admitted" /\ Key(caller[q]) = j
      BY <1>1, <1>2, <1>3, <2>2, <3>1, <3>2 DEF IInv, TypeOK
    <3>4. Cardinality(entries'[j]) <= Limit
      BY <1>4, <3>1
    <3> QED BY <3>3, <3>4
  <2> QED BY <2>1, <2>2
<1>7. stamp[r] \in Nat /\ now \in Nat /\ stamp[r] <= now /\ now <= stamp[r] + MaxDelay
  BY <1>2 DEF IInv, TypeOK, DelayHolds
<1>8. DroppedLate'
  <2> SUFFICES ASSUME NEW q \in Requests, pc'[q] = "admitted"
               PROVE  q \in entries'[Key(caller[q])] \/ stamp[q] + Window <= now
    BY <1>2 DEF DroppedLate
  <2>1. Key(caller[q]) \in Keys /\ stamp[q] \in Nat
    BY KeyOfCaller DEF IInv, TypeOK
  <2>2. CASE q = r
    BY <1>1, <1>2, <2>2 DEF IInv, TypeOK
  <2>3. CASE q # r /\ Key(caller[q]) # k
    BY <1>2, <2>1, <2>3 DEF IInv, TypeOK, DroppedLate
  <2>4. CASE q # r /\ Key(caller[q]) = k
    <3>1. q \in entries[k] \/ stamp[q] + Window <= now
      BY <1>2, <2>4 DEF IInv, TypeOK, DroppedLate
    <3>2. CASE q \in active
      BY <1>1, <1>2, <2>4, <3>2 DEF IInv, TypeOK
    <3>3. CASE q \in entries[k] /\ q \notin active
      BY <1>7, <2>1, <3>3, RateAssumption DEF Active
    <3> QED BY <3>1, <3>2, <3>3
  <2> QED BY <2>2, <2>3, <2>4
<1>9. DelayHolds'
  BY <1>2 DEF IInv, TypeOK, DelayHolds
<1>10. WindowHolds'
  <2>1. CASE full
    BY <1>2, <2>1, WindowKept DEF IInv, TypeOK
  <2>2. CASE ~ full
    <3> SUFFICES ASSUME NEW c \in Callers, NEW t \in 0 .. MaxClock
                 PROVE  Cardinality(AdmittedIn(c.sub, c.ip, c.path, t, Window - MaxDelay)') <= Limit
      BY DEF WindowHolds
    <3> DEFINE A == AdmittedIn(c.sub, c.ip, c.path, t, Window - MaxDelay)
    <3>1. CASE r \notin A'
      <4>1. A' \subseteq A /\ A \subseteq Requests
        BY <1>2, <3>1 DEF AdmittedIn, Together, IInv, TypeOK
      <4>2. Cardinality(A) <= Limit
        BY DEF IInv, WindowHolds
      <4> HIDE DEF A
      <4>3. Cardinality(A') <= Cardinality(A) /\ Cardinality(A) \in Nat /\ Cardinality(A') \in Nat
        BY <4>1, Smaller, Finite
      <4> QED BY <4>2, <4>3, RateAssumption DEF A
    <3>2. CASE r \in A'
      <4>1. Key(c) = k /\ t <= stamp[r] /\ stamp[r] < t + (Window - MaxDelay)
        BY <1>2, <1>5, <3>2, TogetherByKey DEF AdmittedIn, Together, IInv, TypeOK, Key, RateLimitPrincipal
      <4>2. A' \subseteq active \union {r}
        <5> SUFFICES ASSUME NEW q \in A', q # r PROVE q \in active
          OBVIOUS
        <5>1. /\ q \in Requests /\ pc[q] = "admitted"
              /\ t <= stamp[q] /\ stamp[q] < t + (Window - MaxDelay)
              /\ stamp[q] \in Nat
              /\ q \in Together(c.sub, c.ip, c.path)
          BY <1>2 DEF AdmittedIn, Together, IInv, TypeOK
        <5>2. Key(caller[q]) = k
          BY <4>1, <5>1, TogetherByKey DEF IInv
        <5>3. now < stamp[q] + Window
          BY <1>7, <4>1, <5>1, RateAssumption
        <5>4. q \in entries[k]
          BY <1>7, <5>1, <5>2, <5>3, RateAssumption DEF IInv, DroppedLate
        <5> QED BY <1>7, <5>1, <5>3, <5>4, RateAssumption DEF Active
      <4>3. active \union {r} \subseteq Requests
        BY <1>1
      <4> HIDE DEF A, active
      <4>4. Cardinality(A') <= Cardinality(active \union {r})
        BY <4>2, <4>3, Smaller
      <4>5. Cardinality(A') \in Nat /\ Cardinality(active \union {r}) \in Nat
        BY <4>2, <4>3, Finite
      <4> QED BY <1>4, <2>2, <4>4, <4>5, RateAssumption DEF A
    <3> QED BY <3>1, <3>2
  <2> QED BY <2>1, <2>2
<1> QED BY <1>5, <1>6, <1>8, <1>9, <1>10 DEF IInv
-----------------------------------------------------------------------------
LEMMA StepIInv == IInv /\ [Next]_vars => IInv'
<1> SUFFICES ASSUME IInv, [Next]_vars PROVE IInv'
  OBVIOUS
<1>1. CASE UNCHANGED vars
  BY <1>1, WindowKept DEF vars, IInv, TypeOK, EntriesAdmitted, DroppedLate, DelayHolds
<1>2. CASE Next
  BY <1>2, PassStep, ReadClockStep, AllowStep, TickStep DEF Next
<1> QED BY <1>1, <1>2

LEMMA Invariant == Spec => []IInv
BY InitIInv, StepIInv, PTL DEF Spec

\* What the store and the requests hold; no time is ahead of the clock.
THEOREM RateTypes == Spec => []TypeOK
<1>1. IInv => TypeOK
  BY DEF IInv
<1> QED BY <1>1, Invariant, PTL

\* Allow never lets more than the limit of one caller's requests pass in a
\* stretch of the window less the delay, in whatever order they get the mutex.
THEOREM RateHolds == Spec => []WindowHolds
<1>1. IInv => WindowHolds
  BY DEF IInv
<1> QED BY <1>1, Invariant, PTL

\* Nobody is turned away but for a full window of admitted requests.
THEOREM DenialIsDue == Spec => DeniedOnlyWhenFull
<1> DEFINE Due(r) ==
      Cardinality({q \in Together(caller[r].sub, caller[r].ip, caller[r].path) :
                     /\ pc[q] = "admitted"
                     /\ stamp[r] < stamp[q] + Window
                     /\ stamp[q] <= stamp[r] + MaxDelay}) >= Limit
    A == \A r \in Requests : pc[r] # "denied" /\ pc'[r] = "denied" => Due(r)
<1>1. IInv /\ [Next]_vars => [A]_vars
  <2> SUFFICES ASSUME IInv, Next, NEW r \in Requests, pc[r] # "denied", pc'[r] = "denied"
               PROVE  Due(r)
    OBVIOUS
  <2> DEFINE k == Key(caller[r])
             active == Active(k, stamp[r])
             due == {q \in Together(caller[r].sub, caller[r].ip, caller[r].path) :
                       /\ pc[q] = "admitted"
                       /\ stamp[r] < stamp[q] + Window
                       /\ stamp[q] <= stamp[r] + MaxDelay}
  <2>1. Allow(r)
    BY DEF Next, Pass, ReadClock, Allow, Tick, IInv, TypeOK
  <2>2. Cardinality(active) >= Limit /\ pc[r] = "stamped"
    BY <2>1 DEF Allow, IInv, TypeOK
  <2>3. k \in Keys /\ caller[r] \in Callers /\ stamp[r] \in Nat /\ now \in Nat
        /\ now <= stamp[r] + MaxDelay
    BY <2>2, KeyOfCaller DEF IInv, TypeOK, DelayHolds
  <2>4. active \subseteq due
    <3> SUFFICES ASSUME NEW q \in active PROVE q \in due
      OBVIOUS
    <3>1. q \in entries[k] /\ stamp[r] < stamp[q] + Window
      BY DEF Active
    <3>2. q \in Requests /\ pc[q] = "admitted" /\ Key(caller[q]) = k
      BY <2>3, <3>1 DEF IInv, TypeOK, EntriesAdmitted
    <3>3. q \in Together(caller[r].sub, caller[r].ip, caller[r].path)
      BY <2>3, <3>2, TogetherByKey DEF IInv
    <3>4. stamp[q] \in Nat /\ stamp[q] <= now
      BY <3>2 DEF IInv, TypeOK
    <3> QED BY <2>3, <3>1, <3>2, <3>3, <3>4, RateAssumption
  <2>5. due \subseteq Requests
    BY DEF Together
  <2> HIDE DEF active, due
  <2>6. Cardinality(active) <= Cardinality(due) /\ Cardinality(active) \in Nat
        /\ Cardinality(due) \in Nat
    BY <2>4, <2>5, Smaller, Finite
  <2> QED BY <2>2, <2>6, RateAssumption DEF due
<1> QED BY <1>1, Invariant, PTL DEF Spec, DeniedOnlyWhenFull
=============================================================================
