----------------------- MODULE NotificationStreamProofs -----------------------
(***************************************************************************)
(* Theorems about NotificationStream, for any number of events, any page   *)
(* size and any faults.                                                    *)
(***************************************************************************)
EXTENDS NotificationStream, TLAPS

\* Without a stream nothing is on the wire; with one, lastEventID is the last
\* frame written to this client.
WireMatchesStream ==
  /\ pc \in {"closed", "fetch"} => wire = <<>>
  /\ pc \notin {"closed", "fetch"} /\ wire = <<>> => lastEventID = cursor

IInv == TypeOK /\ FramesIncrease /\ WireMatchesStream

LEMMA PageIsStored ==
  ASSUME TypeOK, NEW e \in 0..MaxEvents
  PROVE  PageAfter(e) \in 0..MaxEvents
BY StreamAssumption DEF TypeOK, PageAfter

LEMMA Concatenation ==
  ASSUME NEW S, NEW s \in Seq(S), NEW t \in Seq(S)
  PROVE  /\ s \o t \in Seq(S)
         /\ Len(s \o t) = Len(s) + Len(t)
         /\ \A i \in 1..Len(s) : (s \o t)[i] = s[i]
         /\ \A i \in 1..Len(s) + Len(t) : i > Len(s) => (s \o t)[i] = t[i - Len(s)]
OBVIOUS

LEMMA Domains == ASSUME NEW S, NEW s \in Seq(S)
                 PROVE  Len(s) \in Nat /\ DOMAIN s = 1..Len(s) /\ (s # <<>> <=> Len(s) > 0)
OBVIOUS

LEMMA Elements == ASSUME NEW S, NEW s \in Seq(S)
                  PROVE  \A i \in 1..Len(s) : s[i] \in S
OBVIOUS

LEMMA Tails ==
  ASSUME NEW S, NEW s \in Seq(S), s # <<>>
  PROVE  /\ Tail(s) \in Seq(S) /\ Head(s) = s[1] /\ Head(s) \in S
         /\ Len(Tail(s)) = Len(s) - 1
         /\ \A i \in 1..Len(s) - 1 : Tail(s)[i] = s[i + 1]
OBVIOUS

LEMMA Empty == ASSUME NEW S
               PROVE  <<>> \in Seq(S) /\ Len(<<>>) = 0 /\ DOMAIN <<>> = {}
OBVIOUS

\* What FramesIncrease says of a wire, in arithmetic.
LEMMA WireFacts ==
  ASSUME TypeOK
  PROVE  /\ Len(wire) \in Nat
         /\ FramesIncrease <=>
              /\ \A i, j \in 1..Len(wire) : i < j => wire[i] < wire[j]
              /\ \A i \in 1..Len(wire) : cursor < wire[i]
              /\ Len(wire) > 0 => wire[Len(wire)] = lastEventID
         /\ \A i \in 1..Len(wire) : wire[i] \in Nat
<1>1. wire \in Seq(Events)
  BY DEF TypeOK
<1>2. Len(wire) \in Nat /\ DOMAIN wire = 1..Len(wire) /\ (wire # <<>> <=> Len(wire) > 0)
  BY <1>1, Domains
<1>3. \A i \in 1..Len(wire) : wire[i] \in Nat
  BY <1>1, Elements, StreamAssumption DEF Events
<1> QED BY <1>2, <1>3 DEF FramesIncrease

\* lastEventID is never behind the client, nor behind a frame on the wire.
LEMMA LastEventLeads ==
  ASSUME IInv, pc \notin {"closed", "fetch"}
  PROVE  /\ lastEventID \in Nat /\ cursor \in Nat
         /\ cursor <= lastEventID
         /\ \A i \in 1..Len(wire) : wire[i] <= lastEventID
<1>1. lastEventID \in Nat /\ cursor \in Nat
  BY StreamAssumption DEF IInv, TypeOK
<1>2. /\ Len(wire) \in Nat
      /\ \A i \in 1..Len(wire) : wire[i] \in Nat
      /\ \A i, j \in 1..Len(wire) : i < j => wire[i] < wire[j]
      /\ \A i \in 1..Len(wire) : cursor < wire[i]
      /\ Len(wire) > 0 => wire[Len(wire)] = lastEventID
  BY WireFacts DEF IInv
<1>3. wire \in Seq(Events)
  BY DEF IInv, TypeOK
<1>4. wire # <<>> <=> Len(wire) > 0
  BY <1>3, Domains
<1>5. cursor <= lastEventID
  BY <1>1, <1>2, <1>4 DEF IInv, WireMatchesStream
<1>6. ASSUME NEW i \in 1..Len(wire) PROVE wire[i] <= lastEventID
  BY <1>1, <1>2
<1> QED BY <1>1, <1>5, <1>6

\* Frames above lastEventID, in order, put at the end of the wire keep it so.
LEMMA MoreFramesKeep ==
  ASSUME IInv, pc \notin {"closed", "fetch"}, pc' \notin {"closed", "fetch"},
         NEW new \in Seq(Events),
         \A i, j \in 1..Len(new) : i < j => new[i] < new[j],
         \A i \in 1..Len(new) : lastEventID < new[i],
         wire' = wire \o new,
         lastEventID' = IF Len(new) > 0 THEN new[Len(new)] ELSE lastEventID,
         cursor' = cursor
  PROVE  /\ wire' \in Seq(Events) /\ lastEventID' \in 0..MaxEvents
         /\ FramesIncrease' /\ WireMatchesStream'
<1>1. wire \in Seq(Events) /\ lastEventID \in 0..MaxEvents
  BY DEF IInv, TypeOK
<1>2. /\ Len(new) \in Nat /\ \A i \in 1..Len(new) : new[i] \in 1..MaxEvents
  BY Domains, Elements DEF Events
<1>3. /\ Len(wire) \in Nat
      /\ \A i \in 1..Len(wire) : wire[i] \in Nat
      /\ \A i, j \in 1..Len(wire) : i < j => wire[i] < wire[j]
      /\ \A i \in 1..Len(wire) : cursor < wire[i]
      /\ Len(wire) > 0 => wire[Len(wire)] = lastEventID
  BY WireFacts DEF IInv
<1>4. /\ lastEventID \in Nat /\ cursor \in Nat
      /\ cursor <= lastEventID
      /\ \A i \in 1..Len(wire) : wire[i] <= lastEventID
  BY LastEventLeads
<1>5. /\ wire' \in Seq(Events)
      /\ Len(wire') = Len(wire) + Len(new)
      /\ \A i \in 1..Len(wire) : wire'[i] = wire[i]
      /\ \A i \in 1..Len(wire) + Len(new) : i > Len(wire) => wire'[i] = new[i - Len(wire)]
  BY <1>1, Concatenation
<1>6. DOMAIN wire' = 1..Len(wire') /\ (wire' # <<>> <=> Len(wire') > 0)
  BY <1>5, Domains
<1>7. lastEventID' \in 0..MaxEvents
  BY <1>1, <1>2
<1>8. ASSUME NEW i \in 1..Len(wire'), NEW j \in 1..Len(wire'), i < j
      PROVE  wire'[i] < wire'[j]
  <2>1. CASE j <= Len(wire)
    BY <1>2, <1>3, <1>5, <1>8, <2>1
  <2>2. CASE i <= Len(wire) /\ j > Len(wire)
    <3>1. wire'[i] = wire[i] /\ wire[i] \in Nat /\ wire[i] <= lastEventID
      BY <1>3, <1>4, <1>5, <2>2
    <3>2. j - Len(wire) \in 1..Len(new) /\ wire'[j] = new[j - Len(wire)]
      BY <1>2, <1>3, <1>5, <2>2
    <3>3. lastEventID < new[j - Len(wire)] /\ new[j - Len(wire)] \in Nat
      BY <1>2, <3>2
    <3> QED BY <1>4, <3>1, <3>2, <3>3
  <2>3. CASE i > Len(wire)
    <3>1. i - Len(wire) \in 1..Len(new) /\ wire'[i] = new[i - Len(wire)]
      BY <1>2, <1>3, <1>5, <2>3
    <3>2. j - Len(wire) \in 1..Len(new) /\ wire'[j] = new[j - Len(wire)]
      BY <1>2, <1>3, <1>5, <1>8, <2>3
    <3>3. i - Len(wire) < j - Len(wire)
      BY <1>2, <1>3, <1>5, <1>8
    <3> QED BY <3>1, <3>2, <3>3
  <2> QED BY <1>2, <1>3, <1>5, <2>1, <2>2, <2>3
<1>9. ASSUME NEW i \in 1..Len(wire') PROVE cursor < wire'[i]
  <2>1. CASE i <= Len(wire)
    BY <1>2, <1>3, <1>5, <2>1
  <2>2. CASE i > Len(wire)
    <3>1. i - Len(wire) \in 1..Len(new) /\ wire'[i] = new[i - Len(wire)]
      BY <1>2, <1>3, <1>5, <2>2
    <3>2. lastEventID < new[i - Len(wire)] /\ new[i - Len(wire)] \in Nat
      BY <1>2, <3>1
    <3> QED BY <1>4, <3>1, <3>2
  <2> QED BY <1>2, <1>3, <1>5, <2>1, <2>2
<1>10. Len(wire') > 0 => wire'[Len(wire')] = lastEventID'
  <2>1. CASE Len(new) = 0
    BY <1>2, <1>3, <1>5, <2>1
  <2>2. CASE Len(new) > 0
    <3>1. Len(wire') > Len(wire) /\ Len(wire') - Len(wire) = Len(new)
      BY <1>2, <1>3, <1>5, <2>2
    <3>2. wire'[Len(wire')] = new[Len(wire') - Len(wire)]
      BY <1>2, <1>3, <1>5, <3>1
    <3> QED BY <2>2, <3>1, <3>2
  <2> QED BY <1>2, <2>1, <2>2
<1>11. FramesIncrease'
  BY <1>6, <1>8, <1>9, <1>10 DEF FramesIncrease
<1>12. ASSUME wire' = <<>> PROVE lastEventID' = cursor'
  <2>1. Len(wire') = 0
    BY <1>12, Empty
  <2>2. Len(wire) = 0 /\ Len(new) = 0
    BY <1>2, <1>3, <1>5, <2>1
  <2>3. wire = <<>>
    BY <1>1, <2>2, Domains
  <2> QED BY <2>2, <2>3 DEF IInv, WireMatchesStream
<1>13. WireMatchesStream'
  BY <1>12 DEF WireMatchesStream
<1> QED BY <1>5, <1>7, <1>11, <1>13

\* The page written after event lastEventID.
LEMMA WriteFramesKeeps ==
  ASSUME IInv, pc \notin {"closed", "fetch"}, NEW e \in 0..MaxEvents, WriteFrames(e),
         cursor' = cursor, pc' \notin {"closed", "fetch"}
  PROVE  /\ wire' \in Seq(Events) /\ lastEventID' \in 0..MaxEvents
         /\ FramesIncrease' /\ WireMatchesStream'
<1> DEFINE fresh == IF e > lastEventID THEN e - lastEventID ELSE 0
           new == [i \in 1..fresh |-> lastEventID + i]
<1>1. fresh \in Nat /\ lastEventID \in Nat /\ lastEventID + fresh \in 0..MaxEvents
  BY StreamAssumption DEF IInv, TypeOK
<1>2. wire' = wire \o new /\ lastEventID' = lastEventID + fresh
  BY DEF WriteFrames
<1> HIDE DEF fresh
<1>3. \A i \in 1..fresh : lastEventID + i \in Events
  BY <1>1, StreamAssumption DEF Events
<1>4. new \in Seq(Events) /\ Len(new) = fresh
  BY <1>1, <1>3
<1>5. \A i \in 1..fresh : new[i] = lastEventID + i
  OBVIOUS
<1> HIDE DEF new
<1>6. \A i, j \in 1..Len(new) : i < j => new[i] < new[j]
  BY <1>1, <1>4, <1>5
<1>7. \A i \in 1..Len(new) : lastEventID < new[i]
  BY <1>1, <1>4, <1>5
<1>8. lastEventID' = IF Len(new) > 0 THEN new[Len(new)] ELSE lastEventID
  BY <1>1, <1>2, <1>4, <1>5
<1> QED BY <1>2, <1>4, <1>6, <1>7, <1>8, MoreFramesKeep

LEMMA InitHolds == Init => IInv
<1> SUFFICES ASSUME Init PROVE IInv
  OBVIOUS
<1>1. <<>> \in Seq(Events) /\ DOMAIN <<>> = {}
  BY Empty
<1>2. TypeOK
  <2>1. channel \in Seq(Events) /\ wire \in Seq(Events)
    BY <1>1 DEF Init
  <2>2. /\ stored \in 0..MaxEvents /\ announced \in 0..stored /\ faults \in 0..MaxFaults
        /\ lastEventID \in 0..MaxEvents /\ recovered \in 0..MaxEvents
        /\ cursor \in 0..MaxEvents
    BY StreamAssumption DEF Init
  <2>3. /\ subscribed \in BOOLEAN /\ pc \in Steps
        /\ cutShort \in BOOLEAN /\ missed \in BOOLEAN
    BY DEF Init, Steps
  <2> QED BY <2>1, <2>2, <2>3 DEF TypeOK
<1>3. FramesIncrease
  BY <1>1 DEF Init, FramesIncrease
<1>4. WireMatchesStream
  BY DEF Init, WireMatchesStream
<1> QED BY <1>2, <1>3, <1>4 DEF IInv

\* A step that leaves the wire and both ids alone.
LEMMA QuietStep ==
  ASSUME IInv, UNCHANGED <<wire, lastEventID, cursor>>,
         pc' \in {"closed", "fetch"} => wire = <<>>,
         pc \in {"closed", "fetch"} => pc' \in {"closed", "fetch"}
  PROVE  FramesIncrease' /\ WireMatchesStream'
<1>1. FramesIncrease'
  BY DEF IInv, FramesIncrease
<1>2. WireMatchesStream'
  BY DEF IInv, WireMatchesStream
<1> QED BY <1>1, <1>2

\* A step after which nothing is on the wire and no stream is open.
LEMMA ClosingStep ==
  ASSUME wire' = <<>>, pc' \in {"closed", "fetch"}
  PROVE  FramesIncrease' /\ WireMatchesStream'
<1>1. DOMAIN wire' = {}
  BY Empty
<1> QED BY <1>1 DEF FramesIncrease, WireMatchesStream

LEMMA CoreSteps ==
  ASSUME IInv, StoreEvent \/ Publish
  PROVE  IInv'
<1> USE DEF IInv, TypeOK
<1>1. CASE StoreEvent
  <2>1. TypeOK'
    BY <1>1, StreamAssumption DEF StoreEvent, coreVars, redisVars, lossVars
  <2>2. FramesIncrease' /\ WireMatchesStream'
    BY <1>1, QuietStep DEF StoreEvent, WireMatchesStream
  <2> QED BY <2>1, <2>2
<1>2. CASE Publish
  <2>1. announced + 1 \in Events
    BY <1>2, StreamAssumption DEF Publish, Events
  <2>2. channel' \in Seq(Events)
    <3>1. channel' = channel \/ channel' = Append(channel, announced + 1)
      BY <1>2 DEF Publish, redisVars
    <3> QED BY <2>1, <3>1
  <2>3. announced' \in 0..stored
    BY <1>2, StreamAssumption DEF Publish
  <2>4. TypeOK'
    BY <1>2, <2>2, <2>3 DEF Publish, lossVars
  <2>5. FramesIncrease' /\ WireMatchesStream'
    BY <1>2, QuietStep DEF Publish, lossVars, WireMatchesStream
  <2> QED BY <2>4, <2>5
<1> QED BY <1>1, <1>2

LEMMA FaultIsBounded == ASSUME TypeOK, Fault PROVE faults' \in 0..MaxFaults
BY StreamAssumption DEF TypeOK, Fault

LEMMA ServeSteps ==
  ASSUME IInv, Serve
  PROVE  IInv'
<1> USE DEF coreVars, redisVars, lossVars
<1>0. TypeOK /\ WireMatchesStream /\ lastEventID \in 0..MaxEvents /\ cursor \in 0..MaxEvents
      /\ recovered \in 0..MaxEvents /\ <<>> \in Seq(Events)
  BY Empty DEF IInv, TypeOK
<1>1. CASE FirstFetch
  <2>1. PageAfter(cursor) \in 0..MaxEvents
    BY <1>0, PageIsStored
  <2>2. TypeOK'
    BY <1>0, <1>1, <2>1 DEF TypeOK, FirstFetch, Steps
  <2>3. FramesIncrease'
    <3>1. wire = <<>> /\ wire' = wire
      BY <1>0, <1>1 DEF FirstFetch, WireMatchesStream
    <3>2. DOMAIN wire' = {}
      BY <3>1, Empty
    <3> QED BY <3>1, <3>2 DEF FramesIncrease
  <2>4. WireMatchesStream'
    BY <1>1 DEF FirstFetch, WireMatchesStream
  <2> QED BY <2>2, <2>3, <2>4 DEF IInv
<1>2. CASE FirstFetchFails
  <2>1. TypeOK'
    BY <1>0, <1>2, FaultIsBounded DEF TypeOK, FirstFetchFails, Steps
  <2>2. wire' = <<>> /\ pc' = "closed"
    BY <1>0, <1>2 DEF FirstFetchFails, WireMatchesStream
  <2> QED BY <2>1, <2>2, ClosingStep DEF IInv
<1>3. CASE Subscribe
  <2>1. TypeOK'
    BY <1>0, <1>3 DEF TypeOK, Subscribe, Steps
  <2>2. FramesIncrease' /\ WireMatchesStream'
    BY <1>3, QuietStep DEF Subscribe
  <2> QED BY <2>1, <2>2 DEF IInv
<1>4. CASE SubscribeFails
  <2>1. /\ wire' \in Seq(Events) /\ lastEventID' \in 0..MaxEvents
        /\ FramesIncrease' /\ WireMatchesStream'
    BY <1>0, <1>4, WriteFramesKeeps DEF SubscribeFails
  <2>2. TypeOK'
    BY <1>0, <1>4, <2>1 DEF TypeOK, SubscribeFails, Steps
  <2> QED BY <2>1, <2>2 DEF IInv
<1>5. CASE WriteRecovered
  <2>1. /\ wire' \in Seq(Events) /\ lastEventID' \in 0..MaxEvents
        /\ FramesIncrease' /\ WireMatchesStream'
    BY <1>0, <1>5, WriteFramesKeeps DEF WriteRecovered
  <2>2. TypeOK'
    BY <1>0, <1>5, <2>1 DEF TypeOK, WriteRecovered, Steps
  <2> QED BY <2>1, <2>2 DEF IInv
<1>6. CASE Recover
  <2>1. PageAfter(lastEventID) \in 0..MaxEvents
    BY <1>0, PageIsStored
  <2>2. /\ wire' \in Seq(Events) /\ lastEventID' \in 0..MaxEvents
        /\ FramesIncrease' /\ WireMatchesStream'
    BY <1>0, <1>6, <2>1, WriteFramesKeeps DEF Recover
  <2>3. cutShort' \in BOOLEAN
    BY <1>0, <1>6 DEF Recover, TypeOK
  <2>4. TypeOK'
    BY <1>0, <1>6, <2>2, <2>3 DEF TypeOK, Recover, Steps
  <2> QED BY <2>2, <2>4 DEF IInv
<1>7. CASE RecoverFails
  <2>1. TypeOK'
    BY <1>0, <1>7, FaultIsBounded DEF TypeOK, RecoverFails, End, Steps
  <2>2. FramesIncrease' /\ WireMatchesStream'
    BY <1>7, QuietStep DEF RecoverFails, End
  <2> QED BY <2>1, <2>2 DEF IInv
<1>8. CASE ReceiveMessage
  <2>1. pc = "receive" /\ pc' = "receive" /\ channel # <<>> /\ channel \in Seq(Events)
        /\ channel' = Tail(channel) /\ cursor' = cursor
    BY <1>0, <1>8 DEF ReceiveMessage, TypeOK
  <2>2. Tail(channel) \in Seq(Events) /\ Head(channel) \in Events
    BY <2>1, Tails
  <2>3. CASE Head(channel) > lastEventID
    <3> DEFINE new == <<Head(channel)>>
    <3>1. wire' = Append(wire, Head(channel)) /\ lastEventID' = Head(channel)
      BY <1>8, <2>3 DEF ReceiveMessage
    <3>2. new \in Seq(Events) /\ Len(new) = 1 /\ new[1] = Head(channel)
      BY <2>2
    <3>3. wire' = wire \o new
      <4>1. wire \in Seq(Events)
        BY <1>0 DEF TypeOK
      <4> QED BY <2>2, <3>1, <4>1
    <3> HIDE DEF new
    <3>4. /\ wire' \in Seq(Events) /\ lastEventID' \in 0..MaxEvents
          /\ FramesIncrease' /\ WireMatchesStream'
      <4>1. \A i, j \in 1..Len(new) : i < j => new[i] < new[j]
        BY <3>2
      <4>2. \A i \in 1..Len(new) : lastEventID < new[i]
        BY <1>0, <2>2, <2>3, <3>2, StreamAssumption DEF Events
      <4>3. lastEventID' = IF Len(new) > 0 THEN new[Len(new)] ELSE lastEventID
        BY <3>1, <3>2
      <4>4. pc \notin {"closed", "fetch"} /\ pc' \notin {"closed", "fetch"} /\ cursor' = cursor
        BY <2>1
      <4> QED BY <3>2, <3>3, <4>1, <4>2, <4>3, <4>4, MoreFramesKeep
    <3>5. TypeOK'
      BY <1>0, <1>8, <2>1, <2>2, <3>4 DEF TypeOK, ReceiveMessage
    <3> QED BY <3>4, <3>5 DEF IInv
  <2>4. CASE ~(Head(channel) > lastEventID)
    <3>1. UNCHANGED <<wire, lastEventID>>
      BY <1>8, <2>4 DEF ReceiveMessage
    <3>2. TypeOK'
      BY <1>0, <1>8, <2>1, <2>2, <3>1 DEF TypeOK, ReceiveMessage
    <3>3. FramesIncrease' /\ WireMatchesStream'
      BY <2>1, <3>1, QuietStep
    <3> QED BY <3>2, <3>3 DEF IInv
  <2> QED BY <2>3, <2>4
<1>9. CASE ReceiveTimesOut
  <2>1. TypeOK'
    BY <1>0, <1>9 DEF TypeOK, ReceiveTimesOut, Steps
  <2>2. FramesIncrease' /\ WireMatchesStream'
    BY <1>9, QuietStep DEF ReceiveTimesOut
  <2> QED BY <2>1, <2>2 DEF IInv
<1>10. CASE ChannelBreak
  <2>1. TypeOK'
    BY <1>0, <1>10, FaultIsBounded DEF TypeOK, ChannelBreak, Steps
  <2>2. FramesIncrease' /\ WireMatchesStream'
    BY <1>10, QuietStep DEF ChannelBreak
  <2> QED BY <2>1, <2>2 DEF IInv
<1>11. CASE Resubscribe
  <2>1. TypeOK'
    BY <1>0, <1>11 DEF TypeOK, Resubscribe
  <2>2. FramesIncrease' /\ WireMatchesStream'
    BY <1>11, QuietStep DEF Resubscribe
  <2> QED BY <2>1, <2>2 DEF IInv
<1>12. CASE LifetimeEnds
  <2>1. TypeOK'
    BY <1>0, <1>12 DEF TypeOK, LifetimeEnds, End, Steps
  <2>2. FramesIncrease' /\ WireMatchesStream'
    BY <1>12, QuietStep DEF LifetimeEnds, End
  <2> QED BY <2>1, <2>2 DEF IInv
<1> QED BY <1>1, <1>2, <1>3, <1>4, <1>5, <1>6, <1>7, <1>8, <1>9, <1>10, <1>11, <1>12
        DEF Serve

LEMMA ClientSteps ==
  ASSUME IInv, Connect \/ ReadFrame \/ Reopen \/ Disconnect
  PROVE  IInv'
<1> USE DEF coreVars, redisVars, lossVars
<1>0. TypeOK /\ FramesIncrease /\ WireMatchesStream /\ wire \in Seq(Events)
      /\ <<>> \in Seq(Events)
  BY Empty DEF IInv, TypeOK
<1>1. CASE Connect
  <2>1. TypeOK'
    BY <1>0, <1>1 DEF TypeOK, Connect, Steps
  <2>2. wire' = <<>> /\ pc' = "fetch"
    BY <1>0, <1>1 DEF Connect, WireMatchesStream
  <2> QED BY <2>1, <2>2, ClosingStep DEF IInv
<1>2. CASE ReadFrame
  <2>1. wire # <<>> /\ wire' = Tail(wire) /\ cursor' = Head(wire)
        /\ pc' = pc /\ lastEventID' = lastEventID
    BY <1>2 DEF ReadFrame
  <2>2. /\ wire' \in Seq(Events) /\ cursor' = wire[1] /\ cursor' \in Events
        /\ Len(wire') = Len(wire) - 1
        /\ \A i \in 1..Len(wire) - 1 : wire'[i] = wire[i + 1]
    BY <1>0, <2>1, Tails
  <2>3. /\ DOMAIN wire' = 1..Len(wire') /\ (wire' # <<>> <=> Len(wire') > 0)
        /\ Len(wire) > 0
    BY <1>0, <2>1, <2>2, Domains
  <2>4. /\ Len(wire) \in Nat
        /\ \A i, j \in 1..Len(wire) : i < j => wire[i] < wire[j]
        /\ Len(wire) > 0 => wire[Len(wire)] = lastEventID
    BY <1>0, WireFacts
  <2>5. TypeOK'
    <3>1. Head(wire) \in Events /\ cursor' \in 0..MaxEvents
      BY <2>1, <2>2, StreamAssumption DEF Events
    <3> QED BY <1>0, <1>2, <2>1, <2>2, <3>1 DEF TypeOK, ReadFrame
  <2>6. FramesIncrease'
    <3>1. \A i, j \in 1..Len(wire') : i < j => wire'[i] < wire'[j]
      BY <2>2, <2>4
    <3>2. \A i \in 1..Len(wire') : cursor' < wire'[i]
      BY <2>2, <2>4
    <3>3. Len(wire') > 0 => wire'[Len(wire')] = lastEventID'
      BY <2>1, <2>2, <2>3, <2>4
    <3> QED BY <2>3, <3>1, <3>2, <3>3 DEF FramesIncrease
  <2>7. WireMatchesStream'
    <3>1. pc \notin {"closed", "fetch"}
      BY <1>0, <2>1 DEF WireMatchesStream
    <3>2. ASSUME wire' = <<>> PROVE lastEventID' = cursor'
      <4>1. Len(wire) = 1
        BY <2>2, <2>3, <2>4, <3>2, Empty
      <4> QED BY <2>1, <2>2, <2>4, <4>1
    <3> QED BY <2>1, <3>1, <3>2 DEF WireMatchesStream
  <2> QED BY <2>5, <2>6, <2>7 DEF IInv
<1>3. CASE Reopen
  <2>1. TypeOK'
    BY <1>0, <1>3 DEF TypeOK, Reopen, Steps
  <2>2. wire' = <<>> /\ pc' = "closed"
    BY <1>3 DEF Reopen
  <2> QED BY <2>1, <2>2, ClosingStep DEF IInv
<1>4. CASE Disconnect
  <2>1. TypeOK'
    BY <1>0, <1>4, FaultIsBounded DEF TypeOK, Disconnect, Steps
  <2>2. wire' = <<>> /\ pc' = "closed"
    BY <1>4 DEF Disconnect
  <2> QED BY <2>1, <2>2, ClosingStep DEF IInv
<1> QED BY <1>1, <1>2, <1>3, <1>4

LEMMA StutteringStep == ASSUME IInv, UNCHANGED vars PROVE IInv'
BY DEF IInv, TypeOK, FramesIncrease, WireMatchesStream, vars

\* Every frame is written once and in increasing id order, whatever the
\* channel, Core and the connections do, for any page size and any number of
\* events: the id checks of writeFrames (sse.go 69-81) and of the live branch
\* (sse.go 166-181) are enough.
THEOREM StreamInOrder == Spec => []FramesIncrease
<1>1. Init => IInv
  BY InitHolds
<1>2. IInv /\ [Next]_vars => IInv'
  BY CoreSteps, ServeSteps, ClientSteps, StutteringStep DEF Next
<1>3. IInv => FramesIncrease
  BY DEF IInv
<1> QED BY <1>1, <1>2, <1>3, PTL DEF Spec

\* No stream ever holds or writes an event that Core has not stored within
\* the bound, and every variable keeps its type.
THEOREM StreamTypes == Spec => []TypeOK
<1>1. Init => IInv
  BY InitHolds
<1>2. IInv /\ [Next]_vars => IInv'
  BY CoreSteps, ServeSteps, ClientSteps, StutteringStep DEF Next
<1>3. IInv => TypeOK
  BY DEF IInv
<1> QED BY <1>1, <1>2, <1>3, PTL DEF Spec
-----------------------------------------------------------------------------
(* The stream is an event feed: nothing is skipped unless something was lost *)

OnWire == {wire[i] : i \in DOMAIN wire}

\* Redis keeps the order of the channel.
ChannelIncreases ==
  /\ \A i, j \in DOMAIN channel : i < j => channel[i] < channel[j]
  /\ \A i \in DOMAIN channel : channel[i] <= announced

\* Every event after the client's, up to lastEventID, is about to be read.
Delivered == pc \notin {"closed", "fetch"} => cursor + 1..lastEventID \subseteq OnWire

\* Nothing is passed on that Core has not stored.
OnlyStored == cursor <= stored /\ recovered <= stored /\ lastEventID <= stored

\* An announcement the receive loop is still owed waits in the channel.
OwedIsWaiting ==
  pc = "receive" =>
    \A e \in Events : lastEventID < e /\ e <= announced => \E i \in DOMAIN channel : channel[i] = e

GapInv ==
  /\ IInv /\ OnlyStored /\ ChannelIncreases
  /\ cutShort \/ missed \/ (Delivered /\ OwedIsWaiting)

LEMMA AppendFacts ==
  ASSUME NEW S, NEW s \in Seq(S), NEW x \in S
  PROVE  /\ Append(s, x) \in Seq(S)
         /\ DOMAIN Append(s, x) = 1..Len(s) + 1
         /\ \A i \in 1..Len(s) : Append(s, x)[i] = s[i]
         /\ Append(s, x)[Len(s) + 1] = x
<1>1. Append(s, x) \in Seq(S) /\ Len(Append(s, x)) = Len(s) + 1
  OBVIOUS
<1> QED BY <1>1, Domains

LEMMA GapInit == Init => GapInv
<1> SUFFICES ASSUME Init PROVE GapInv
  OBVIOUS
<1>1. DOMAIN channel = {} /\ wire = <<>>
  BY Empty DEF Init
<1>2. ChannelIncreases
  BY <1>1 DEF ChannelIncreases
<1>3. OnlyStored
  BY DEF Init, OnlyStored
<1>4. Delivered /\ OwedIsWaiting
  BY DEF Init, Delivered, OwedIsWaiting
<1> QED BY <1>2, <1>3, <1>4, InitHolds DEF GapInv

\* The frames of a page fill the gap between lastEventID and its last event.
LEMMA PageFillsGap ==
  ASSUME TypeOK, NEW e \in 0..MaxEvents, WriteFrames(e),
         cursor + 1..lastEventID \subseteq OnWire, cursor' = cursor
  PROVE  /\ cursor' + 1..lastEventID' \subseteq OnWire'
         /\ lastEventID' \in Nat /\ e <= lastEventID'
<1> DEFINE fresh == IF e > lastEventID THEN e - lastEventID ELSE 0
           new == [i \in 1..fresh |-> lastEventID + i]
<1>1. /\ fresh \in Nat /\ lastEventID \in 0..MaxEvents /\ lastEventID + fresh \in 0..MaxEvents
      /\ e <= lastEventID + fresh
      /\ cursor \in Nat
  BY StreamAssumption DEF TypeOK
<1>2. wire' = wire \o new /\ lastEventID' = lastEventID + fresh
  BY DEF WriteFrames
<1> HIDE DEF fresh
<1>3. new \in Seq(Events) /\ Len(new) = fresh /\ \A i \in 1..fresh : new[i] = lastEventID + i
  BY <1>1, StreamAssumption DEF Events
<1> HIDE DEF new
<1>4. wire \in Seq(Events)
  BY DEF TypeOK
<1>5. /\ wire' \in Seq(Events) /\ Len(wire') = Len(wire) + fresh
      /\ \A i \in 1..Len(wire) : wire'[i] = wire[i]
      /\ \A i \in 1..Len(wire) + fresh : i > Len(wire) => wire'[i] = new[i - Len(wire)]
  BY <1>2, <1>3, <1>4, Concatenation
<1>6. Len(wire) \in Nat /\ DOMAIN wire = 1..Len(wire) /\ DOMAIN wire' = 1..Len(wire')
  BY <1>4, <1>5, Domains
<1>7. ASSUME NEW k \in cursor + 1..lastEventID' PROVE k \in OnWire'
  <2>1. CASE k <= lastEventID
    <3>1. \E i \in 1..Len(wire) : wire[i] = k
      BY <1>1, <1>6, <2>1 DEF OnWire
    <3>2. ASSUME NEW i \in 1..Len(wire), wire[i] = k PROVE k \in OnWire'
      <4>1. i \in DOMAIN wire' /\ wire'[i] = k
        BY <1>1, <1>5, <1>6, <3>2
      <4> QED BY <4>1 DEF OnWire
    <3> QED BY <3>1, <3>2
  <2>2. CASE k > lastEventID
    <3> DEFINE i == Len(wire) + (k - lastEventID)
    <3>1. k - lastEventID \in 1..fresh
      BY <1>1, <1>2, <2>2
    <3>2. i \in 1..Len(wire) + fresh /\ i > Len(wire) /\ i - Len(wire) = k - lastEventID
      BY <1>1, <1>6, <3>1
    <3> HIDE DEF i
    <3>3. wire'[i] = lastEventID + (k - lastEventID)
      BY <1>3, <1>5, <3>1, <3>2
    <3>4. i \in DOMAIN wire' /\ wire'[i] = k
      BY <1>1, <1>2, <1>5, <1>6, <3>2, <3>3
    <3> QED BY <3>4 DEF OnWire
  <2> QED BY <1>1, <1>2, <2>1, <2>2
<1> QED BY <1>1, <1>2, <1>7

\* Steps that leave the channel alone or empty it keep its order, whatever Core
\* announces.
LEMMA ChannelKept ==
  ASSUME TypeOK, ChannelIncreases, channel' \in {channel, <<>>},
         announced' \in Nat, announced <= announced'
  PROVE  ChannelIncreases'
<1>1. CASE channel' = <<>>
  BY <1>1, Empty DEF ChannelIncreases
<1>2. CASE channel' = channel
  <2>1. channel \in Seq(Events) /\ announced \in Nat
    BY StreamAssumption DEF TypeOK
  <2>2. ASSUME NEW i \in DOMAIN channel PROVE channel[i] \in Nat
    BY <2>1, Domains, Elements, StreamAssumption DEF Events
  <2> QED BY <1>2, <2>1, <2>2 DEF ChannelIncreases
<1> QED BY <1>1, <1>2

\* The first announcement above lastEventID is the next event.
LEMMA NothingBeforeTheHead ==
  ASSUME TypeOK, ChannelIncreases, OwedIsWaiting, pc = "receive", channel # <<>>,
         Head(channel) > lastEventID
  PROVE  Head(channel) = lastEventID + 1
<1>1. channel \in Seq(Events) /\ lastEventID \in 0..MaxEvents /\ announced \in 0..MaxEvents
  BY StreamAssumption DEF TypeOK
<1>2. /\ Len(channel) \in Nat /\ DOMAIN channel = 1..Len(channel) /\ 1 \in DOMAIN channel
      /\ Head(channel) = channel[1] /\ Head(channel) \in Events
  BY <1>1, Domains, Tails
<1>3. SUFFICES ASSUME lastEventID + 1 < Head(channel) PROVE FALSE
  BY <1>1, <1>2, StreamAssumption DEF Events
<1>4. Head(channel) <= announced
  BY <1>2 DEF ChannelIncreases
<1>5. lastEventID + 1 \in Events /\ lastEventID < lastEventID + 1 /\ lastEventID + 1 <= announced
  BY <1>1, <1>2, <1>3, <1>4, StreamAssumption DEF Events
<1>6. PICK i \in DOMAIN channel : channel[i] = lastEventID + 1
  BY <1>5 DEF OwedIsWaiting
<1>7. i # 1 /\ i \in Nat /\ 1 < i
  BY <1>1, <1>2, <1>3, <1>6, StreamAssumption DEF Events
<1>8. channel[1] < channel[i]
  BY <1>2, <1>6, <1>7 DEF ChannelIncreases
<1> QED BY <1>1, <1>2, <1>3, <1>6, <1>8, StreamAssumption DEF Events
\* A step that neither writes nor reads frames.
LEMMA NothingMoved ==
  ASSUME Delivered, UNCHANGED <<wire, lastEventID, cursor>>,
         pc \in {"closed", "fetch"} => pc' \in {"closed", "fetch"}
  PROVE  Delivered'
BY DEF Delivered, OnWire

\* writeFrames moves lastEventID to the end of its page, or not at all.
LEMMA PageEnds ==
  ASSUME TypeOK, NEW e \in 0..MaxEvents, WriteFrames(e)
  PROVE  lastEventID' = lastEventID \/ lastEventID' = e
<1>1. lastEventID \in Nat /\ e \in Nat
  BY StreamAssumption DEF TypeOK
<1>2. lastEventID' = lastEventID + (IF e > lastEventID THEN e - lastEventID ELSE 0)
  BY DEF WriteFrames
<1> QED BY <1>1, <1>2

LEMMA ServeOnlyStored ==
  ASSUME IInv, OnlyStored, ChannelIncreases, Serve
  PROVE  OnlyStored'
<1>0. /\ TypeOK /\ cursor \in 0..MaxEvents /\ recovered \in 0..MaxEvents
      /\ lastEventID \in 0..MaxEvents /\ stored \in Nat /\ announced \in Nat
      /\ announced <= stored /\ channel \in Seq(Events) /\ Limit \in Nat
      /\ cursor <= stored /\ recovered <= stored /\ lastEventID <= stored
  BY StreamAssumption DEF IInv, TypeOK, OnlyStored
<1>1. UNCHANGED <<cursor, stored>>
  BY DEF Serve, FirstFetch, FirstFetchFails, Subscribe, SubscribeFails, WriteRecovered, Recover,
         RecoverFails, ReceiveMessage, ReceiveTimesOut, ChannelBreak, Resubscribe, LifetimeEnds,
         End, coreVars
<1>2. ASSUME NEW e \in 0..MaxEvents PROVE PageAfter(e) <= stored
  BY <1>0, StreamAssumption DEF PageAfter
<1>3. CASE FirstFetch
  BY <1>0, <1>1, <1>2, <1>3 DEF FirstFetch, OnlyStored
<1>4. CASE SubscribeFails \/ WriteRecovered
  <2>1. WriteFrames(recovered) /\ recovered' = recovered
    BY <1>4 DEF SubscribeFails, WriteRecovered
  <2> QED BY <1>0, <1>1, <2>1, PageEnds DEF OnlyStored
<1>5. CASE Recover
  <2>1. WriteFrames(PageAfter(lastEventID)) /\ recovered' = recovered
    BY <1>5 DEF Recover
  <2>2. PageAfter(lastEventID) \in 0..MaxEvents /\ PageAfter(lastEventID) <= stored
    BY <1>0, <1>2, PageIsStored
  <2> QED BY <1>0, <1>1, <2>1, <2>2, PageEnds DEF OnlyStored
<1>6. CASE ReceiveMessage
  <2>1. /\ channel # <<>> /\ recovered' = recovered
        /\ lastEventID' \in {lastEventID, Head(channel)}
    BY <1>6 DEF ReceiveMessage
  <2>2. 1 \in DOMAIN channel /\ Head(channel) = channel[1] /\ channel[1] \in Nat
    BY <1>0, <2>1, Domains, Tails, StreamAssumption DEF Events
  <2>3. channel[1] <= announced
    BY <2>2 DEF ChannelIncreases
  <2> QED BY <1>0, <1>1, <2>1, <2>2, <2>3 DEF OnlyStored
<1>7. CASE \/ FirstFetchFails \/ Subscribe \/ RecoverFails \/ ReceiveTimesOut
           \/ ChannelBreak \/ Resubscribe \/ LifetimeEnds
  <2>1. UNCHANGED <<recovered, lastEventID>>
    BY <1>7 DEF FirstFetchFails, Subscribe, RecoverFails, ReceiveTimesOut, ChannelBreak,
                Resubscribe, LifetimeEnds
  <2> QED BY <1>1, <2>1 DEF OnlyStored
<1> QED BY <1>3, <1>4, <1>5, <1>6, <1>7 DEF Serve

LEMMA GapCoreSteps ==
  ASSUME GapInv, StoreEvent \/ Publish
  PROVE  GapInv'
<1> USE DEF coreVars, redisVars, lossVars
<1>0. /\ TypeOK /\ ChannelIncreases /\ IInv' /\ channel \in Seq(Events) /\ announced \in Nat
      /\ lastEventID \in Nat
  BY CoreSteps, StreamAssumption DEF GapInv, IInv, TypeOK
<1>01. OnlyStored'
  BY StreamAssumption DEF GapInv, IInv, TypeOK, OnlyStored, StoreEvent, Publish
<1>1. CASE StoreEvent
  <2>1. ChannelIncreases'
    BY <1>0, <1>1, ChannelKept DEF StoreEvent
  <2>2. Delivered => Delivered'
    BY <1>1, NothingMoved DEF StoreEvent
  <2>3. OwedIsWaiting => OwedIsWaiting'
    BY <1>1 DEF StoreEvent, OwedIsWaiting
  <2>4. cutShort' = cutShort /\ missed' = missed
    BY <1>1 DEF StoreEvent
  <2> QED BY <1>0, <1>01, <2>1, <2>2, <2>3, <2>4 DEF GapInv
<1>2. CASE Publish
  <2>1. announced' = announced + 1 /\ announced + 1 \in Events
    BY <1>0, <1>2, StreamAssumption DEF Publish, Events, TypeOK
  <2>2. Delivered => Delivered'
    BY <1>2, NothingMoved DEF Publish
  <2>3. UNCHANGED <<pc, lastEventID, cutShort>>
    BY <1>2 DEF Publish
  <2>4. CASE channel' = Append(channel, announced + 1) /\ UNCHANGED missed
    <3>1. /\ DOMAIN channel' = 1..Len(channel) + 1 /\ DOMAIN channel = 1..Len(channel)
          /\ Len(channel) \in Nat
          /\ \A i \in 1..Len(channel) : channel'[i] = channel[i]
          /\ channel'[Len(channel) + 1] = announced + 1
      BY <1>0, <2>1, <2>4, AppendFacts, Domains
    <3>2. \A i \in DOMAIN channel : channel[i] \in Nat
      BY <1>0, <3>1, Elements, StreamAssumption DEF Events
    <3>3. ASSUME NEW i \in DOMAIN channel', NEW j \in DOMAIN channel', i < j
          PROVE  channel'[i] < channel'[j]
      <4>1. i \in DOMAIN channel /\ channel'[i] = channel[i]
        BY <3>1, <3>3
      <4>2. CASE j \in DOMAIN channel
        <5>1. channel[i] < channel[j]
          BY <1>0, <3>3, <4>1, <4>2 DEF ChannelIncreases
        <5>2. channel'[j] = channel[j]
          BY <3>1, <4>2
        <5> QED BY <4>1, <5>1, <5>2
      <4>3. CASE j = Len(channel) + 1
        BY <1>0, <3>1, <3>2, <4>1, <4>3 DEF ChannelIncreases
      <4> QED BY <3>1, <4>2, <4>3
    <3>4. ASSUME NEW i \in DOMAIN channel' PROVE channel'[i] <= announced'
      <4>1. CASE i \in DOMAIN channel
        <5>1. channel'[i] = channel[i] /\ channel[i] <= announced /\ channel[i] \in Nat
          BY <1>0, <3>1, <3>2, <4>1 DEF ChannelIncreases
        <5> QED BY <1>0, <1>01, <2>1, <5>1
      <4>2. CASE i = Len(channel) + 1
        BY <1>0, <2>1, <3>1, <4>2
      <4> QED BY <3>1, <4>1, <4>2
    <3>5. ASSUME OwedIsWaiting PROVE OwedIsWaiting'
      <4>1. SUFFICES ASSUME pc' = "receive", NEW e \in Events, lastEventID < e, e <= announced'
                     PROVE  \E i \in DOMAIN channel' : channel'[i] = e
        BY <2>3 DEF OwedIsWaiting
      <4>2. CASE e <= announced
        <5>1. PICK i \in DOMAIN channel : channel[i] = e
          BY <2>3, <3>5, <4>1, <4>2 DEF OwedIsWaiting
        <5>2. i \in DOMAIN channel' /\ channel'[i] = e
          BY <3>1, <5>1
        <5> QED BY <5>2
      <4>3. CASE e = announced + 1
        <5>1. Len(channel) + 1 \in DOMAIN channel' /\ channel'[Len(channel) + 1] = e
          BY <3>1, <4>3
        <5> QED BY <5>1
      <4> QED BY <1>0, <1>01, <2>1, <4>1, <4>2, <4>3, StreamAssumption DEF Events
    <3>6. ChannelIncreases'
      BY <3>3, <3>4 DEF ChannelIncreases
    <3> QED BY <1>0, <1>01, <2>2, <2>3, <2>4, <3>5, <3>6 DEF GapInv
  <2>5. CASE UNCHANGED channel /\ missed' = (missed \/ pc = "receive")
    <3>1. ChannelIncreases'
      BY <1>0, <2>1, <2>5, ChannelKept
    <3>2. pc # "receive" => OwedIsWaiting'
      BY <2>3 DEF OwedIsWaiting
    <3> QED BY <1>0, <1>01, <2>2, <2>3, <2>5, <3>1, <3>2 DEF GapInv
  <2> QED BY <1>2, <2>4, <2>5 DEF Publish
<1> QED BY <1>1, <1>2

LEMMA GapServeSteps ==
  ASSUME GapInv, Serve
  PROVE  GapInv'
<1> USE DEF coreVars, redisVars, lossVars
<1>0. /\ TypeOK /\ ChannelIncreases /\ IInv /\ IInv' /\ channel \in Seq(Events)
      /\ announced \in Nat /\ lastEventID \in Nat /\ recovered \in 0..MaxEvents
      /\ lastEventID \in 0..MaxEvents /\ cursor \in 0..MaxEvents /\ announced <= announced
  BY ServeSteps, StreamAssumption DEF GapInv, IInv, TypeOK
<1>1. announced' = announced /\ missed' = missed /\ cursor' = cursor /\ stored' = stored
  BY DEF Serve, FirstFetch, FirstFetchFails, Subscribe, SubscribeFails, WriteRecovered, Recover,
         RecoverFails, ReceiveMessage, ReceiveTimesOut, ChannelBreak, Resubscribe, LifetimeEnds, End
<1>2. OnlyStored'
  BY ServeOnlyStored DEF GapInv
<1>3. CASE FirstFetch
  <2>1. ChannelIncreases'
    BY <1>0, <1>1, <1>3, ChannelKept DEF FirstFetch
  <2>2. Delivered'
    BY <1>0, <1>1, <1>3 DEF FirstFetch, Delivered
  <2>3. OwedIsWaiting' /\ cutShort' = cutShort
    BY <1>3 DEF FirstFetch, OwedIsWaiting
  <2> QED BY <1>0, <1>1, <1>2, <2>1, <2>2, <2>3 DEF GapInv
<1>4. CASE \/ FirstFetchFails \/ Subscribe \/ RecoverFails \/ ReceiveTimesOut
           \/ ChannelBreak \/ LifetimeEnds
  <2>1. ChannelIncreases'
    BY <1>0, <1>1, <1>4, ChannelKept
    DEF FirstFetchFails, Subscribe, RecoverFails, ReceiveTimesOut, ChannelBreak, LifetimeEnds, End
  <2>2. OwedIsWaiting' /\ cutShort' = cutShort
    BY <1>4 DEF OwedIsWaiting, FirstFetchFails, Subscribe, RecoverFails, ReceiveTimesOut,
                ChannelBreak, LifetimeEnds, End
  <2>3. /\ UNCHANGED <<wire, lastEventID, cursor>>
        /\ pc \in {"closed", "fetch"} => pc' \in {"closed", "fetch"}
    BY <1>4 DEF FirstFetchFails, Subscribe, RecoverFails, ReceiveTimesOut, ChannelBreak,
                LifetimeEnds, End
  <2>4. Delivered => Delivered'
    BY <2>3, NothingMoved
  <2> QED BY <1>0, <1>1, <1>2, <2>1, <2>2, <2>4 DEF GapInv
<1>5. CASE SubscribeFails \/ WriteRecovered
  <2>1. ChannelIncreases'
    BY <1>0, <1>1, <1>5, ChannelKept DEF SubscribeFails, WriteRecovered
  <2>2. /\ WriteFrames(recovered) /\ pc \notin {"closed", "fetch"}
        /\ OwedIsWaiting' /\ cutShort' = cutShort
    BY <1>5 DEF SubscribeFails, WriteRecovered, OwedIsWaiting
  <2>3. Delivered => Delivered'
    BY <1>0, <1>1, <2>2, PageFillsGap DEF Delivered
  <2> QED BY <1>0, <1>1, <1>2, <2>1, <2>2, <2>3 DEF GapInv
<1>6. CASE Recover
  <2>1. ChannelIncreases'
    BY <1>0, <1>1, <1>6, ChannelKept DEF Recover
  <2>2. /\ WriteFrames(PageAfter(lastEventID)) /\ pc \notin {"closed", "fetch"}
        /\ cutShort' = (cutShort \/ PageAfter(lastEventID) < announced)
    BY <1>6 DEF Recover
  <2>3. PageAfter(lastEventID) \in 0..MaxEvents
    BY <1>0, PageIsStored
  <2>4. ASSUME Delivered
        PROVE  Delivered' /\ lastEventID' \in Nat /\ PageAfter(lastEventID) <= lastEventID'
    BY <1>0, <1>1, <2>2, <2>3, <2>4, PageFillsGap DEF Delivered
  <2>5. ASSUME Delivered, ~cutShort' PROVE OwedIsWaiting'
    <3>0. ~(PageAfter(lastEventID) < announced)
      BY <2>2, <2>5, Zenon
    <3>1. announced <= PageAfter(lastEventID)
      BY <1>0, <2>3, <3>0, StreamAssumption
    <3>2. announced' <= lastEventID' /\ lastEventID' \in Nat
      BY <1>0, <1>1, <2>3, <2>4, <2>5, <3>1, StreamAssumption
    <3>3. ASSUME NEW e \in Events PROVE ~(lastEventID' < e /\ e <= announced')
      BY <1>0, <1>1, <3>2, StreamAssumption DEF Events
    <3> QED BY <3>3 DEF OwedIsWaiting
  <2>6. cutShort => cutShort'
    BY <2>2
  <2> QED BY <1>0, <1>1, <1>2, <2>1, <2>4, <2>5, <2>6 DEF GapInv
<1>7. CASE ReceiveMessage
  <2>1. /\ pc = "receive" /\ pc' = "receive" /\ channel # <<>> /\ channel' = Tail(channel)
        /\ cutShort' = cutShort
    BY <1>7 DEF ReceiveMessage
  <2>2. /\ channel' \in Seq(Events) /\ Head(channel) = channel[1] /\ Head(channel) \in Events
        /\ Len(channel') = Len(channel) - 1
        /\ \A i \in 1..Len(channel) - 1 : channel'[i] = channel[i + 1]
    BY <1>0, <2>1, Tails
  <2>3. /\ DOMAIN channel' = 1..Len(channel) - 1 /\ DOMAIN channel = 1..Len(channel)
        /\ Len(channel) \in Nat
    BY <1>0, <2>2, Domains
  <2>4. ChannelIncreases'
    <3>1. ASSUME NEW i \in DOMAIN channel', NEW j \in DOMAIN channel', i < j
          PROVE  channel'[i] < channel'[j]
      <4>1. /\ i + 1 \in DOMAIN channel /\ j + 1 \in DOMAIN channel /\ i + 1 < j + 1
            /\ channel'[i] = channel[i + 1] /\ channel'[j] = channel[j + 1]
        BY <2>2, <2>3, <3>1
      <4> QED BY <1>0, <4>1 DEF ChannelIncreases
    <3>2. ASSUME NEW i \in DOMAIN channel' PROVE channel'[i] <= announced'
      <4>1. i + 1 \in DOMAIN channel /\ channel'[i] = channel[i + 1]
        BY <2>2, <2>3
      <4> QED BY <1>0, <1>1, <4>1 DEF ChannelIncreases
    <3> QED BY <3>1, <3>2 DEF ChannelIncreases
  <2>5. ASSUME NEW e \in Events, lastEventID < e, e <= announced, e # Head(channel), OwedIsWaiting
        PROVE  \E i \in DOMAIN channel' : channel'[i] = e
    <3>1. PICK i \in DOMAIN channel : channel[i] = e
      BY <2>1, <2>5 DEF OwedIsWaiting
    <3>2. i # 1 /\ i - 1 \in DOMAIN channel' /\ channel'[i - 1] = channel[i]
      BY <2>2, <2>3, <2>5, <3>1
    <3> QED BY <3>1, <3>2
  <2>6. CASE Head(channel) > lastEventID
    <3>1. wire' = Append(wire, Head(channel)) /\ lastEventID' = Head(channel)
      BY <1>7, <2>6 DEF ReceiveMessage
    <3>2. /\ DOMAIN wire' = 1..Len(wire) + 1 /\ DOMAIN wire = 1..Len(wire) /\ Len(wire) \in Nat
          /\ \A i \in 1..Len(wire) : wire'[i] = wire[i]
          /\ wire'[Len(wire) + 1] = Head(channel)
      <4>1. wire \in Seq(Events)
        BY <1>0 DEF TypeOK
      <4> QED BY <2>2, <3>1, <4>1, AppendFacts, Domains
    <3>3. OnWire \subseteq OnWire' /\ Head(channel) \in OnWire'
      <4>1. ASSUME NEW i \in DOMAIN wire PROVE wire[i] \in OnWire'
        <5>1. i \in DOMAIN wire' /\ wire'[i] = wire[i]
          BY <3>2
        <5> QED BY <5>1 DEF OnWire
      <4>2. Len(wire) + 1 \in DOMAIN wire'
        BY <3>2
      <4> QED BY <3>2, <4>1, <4>2 DEF OnWire
    <3>4. ASSUME Delivered, OwedIsWaiting PROVE Delivered' /\ OwedIsWaiting'
      <4>1. Head(channel) = lastEventID + 1
        BY <1>0, <2>1, <2>6, <3>4, NothingBeforeTheHead
      <4>2. Delivered'
        <5>1. cursor + 1..lastEventID \subseteq OnWire
          BY <2>1, <3>4 DEF Delivered
        <5>2. cursor + 1..lastEventID' \subseteq cursor + 1..lastEventID \union {Head(channel)}
          BY <1>0, <3>1, <4>1
        <5> QED BY <1>1, <3>3, <5>1, <5>2 DEF Delivered
      <4>3. ASSUME NEW e \in Events, lastEventID' < e, e <= announced'
            PROVE  \E i \in DOMAIN channel' : channel'[i] = e
        <5>1. lastEventID < e /\ e # Head(channel) /\ e <= announced
          BY <1>0, <1>1, <3>1, <4>1, <4>3, StreamAssumption DEF Events
        <5> QED BY <2>5, <3>4, <5>1
      <4> QED BY <4>2, <4>3 DEF OwedIsWaiting
    <3> QED BY <1>0, <1>1, <1>2, <2>1, <2>4, <3>4 DEF GapInv
  <2>7. CASE ~(Head(channel) > lastEventID)
    <3>1. UNCHANGED <<wire, lastEventID>>
      BY <1>7, <2>7 DEF ReceiveMessage
    <3>2. Delivered => Delivered'
      BY <1>1, <2>1, <3>1, NothingMoved
    <3>3. ASSUME OwedIsWaiting PROVE OwedIsWaiting'
      <4>1. ASSUME NEW e \in Events, lastEventID' < e, e <= announced'
            PROVE  \E i \in DOMAIN channel' : channel'[i] = e
        <5>1. lastEventID < e /\ e # Head(channel) /\ e <= announced
          BY <1>0, <1>1, <2>2, <2>7, <3>1, <4>1, StreamAssumption DEF Events
        <5> QED BY <2>5, <3>3, <5>1
      <4> QED BY <4>1 DEF OwedIsWaiting
    <3> QED BY <1>0, <1>1, <1>2, <2>1, <2>4, <3>2, <3>3 DEF GapInv
  <2> QED BY <2>6, <2>7
<1>8. CASE Resubscribe
  <2>1. ChannelIncreases'
    BY <1>0, <1>1, <1>8, ChannelKept DEF Resubscribe
  <2>2. Delivered => Delivered'
    BY <1>8, NothingMoved DEF Resubscribe
  <2>3. (OwedIsWaiting => OwedIsWaiting') /\ cutShort' = cutShort
    BY <1>8 DEF Resubscribe, OwedIsWaiting
  <2> QED BY <1>0, <1>1, <1>2, <2>1, <2>2, <2>3 DEF GapInv
<1> QED BY <1>3, <1>4, <1>5, <1>6, <1>7, <1>8 DEF Serve

LEMMA GapClientSteps ==
  ASSUME GapInv, Connect \/ ReadFrame \/ Reopen \/ Disconnect
  PROVE  GapInv'
<1> USE DEF coreVars, redisVars, lossVars
<1>0. /\ TypeOK /\ ChannelIncreases /\ IInv /\ IInv' /\ FramesIncrease /\ WireMatchesStream
      /\ announced \in Nat /\ announced <= announced /\ OnlyStored
  BY ClientSteps, StreamAssumption DEF GapInv, IInv, TypeOK
<1>1. announced' = announced /\ channel' \in {channel, <<>>}
  BY DEF Connect, ReadFrame, Reopen, Disconnect
<1>2. ChannelIncreases'
  BY <1>0, <1>1, ChannelKept
<1>3. CASE Connect \/ Reopen \/ Disconnect
  <2>1. pc' \in {"closed", "fetch"} /\ UNCHANGED <<cursor, stored, recovered, lastEventID>>
    BY <1>3 DEF Connect, Reopen, Disconnect
  <2>2. Delivered' /\ OwedIsWaiting' /\ OnlyStored'
    BY <1>0, <2>1 DEF Delivered, OwedIsWaiting, OnlyStored
  <2> QED BY <1>0, <1>2, <2>2 DEF GapInv
<1>4. CASE ReadFrame
  <2>1. /\ wire # <<>> /\ wire' = Tail(wire) /\ cursor' = Head(wire) /\ pc' = pc
        /\ UNCHANGED <<lastEventID, channel, stored, recovered, cutShort, missed>>
    BY <1>4 DEF ReadFrame
  <2>2. pc \notin {"closed", "fetch"}
    BY <1>0, <2>1 DEF WireMatchesStream
  <2>3. wire \in Seq(Events)
    BY <1>0 DEF TypeOK
  <2>4. /\ wire' \in Seq(Events) /\ Head(wire) = wire[1] /\ Head(wire) \in Events
        /\ Len(wire') = Len(wire) - 1
        /\ \A i \in 1..Len(wire) - 1 : wire'[i] = wire[i + 1]
    BY <2>1, <2>3, Tails
  <2>5. /\ DOMAIN wire' = 1..Len(wire) - 1 /\ DOMAIN wire = 1..Len(wire) /\ Len(wire) \in Nat
        /\ Len(wire) > 0
    BY <2>1, <2>3, <2>4, Domains
  <2>6. /\ Head(wire) \in Nat /\ cursor \in Nat /\ lastEventID \in Nat /\ stored \in Nat
        /\ Head(wire) <= lastEventID /\ cursor < Head(wire)
    <3>1. 1 \in DOMAIN wire /\ Head(wire) \in Nat /\ stored \in Nat
      BY <1>0, <2>4, <2>5, StreamAssumption DEF Events, TypeOK
    <3>2. cursor < wire[1]
      BY <1>0, <3>1 DEF FramesIncrease
    <3> QED BY <1>0, <2>2, <2>4, <2>5, <3>1, <3>2, LastEventLeads
  <2>7. OnlyStored'
    BY <1>0, <2>1, <2>6 DEF OnlyStored
  <2>8. ASSUME Delivered PROVE Delivered'
    <3>1. ASSUME NEW e \in cursor' + 1..lastEventID' PROVE e \in OnWire'
      <4>1. e \in cursor + 1..lastEventID /\ e # wire[1]
        BY <2>1, <2>4, <2>6, <3>1
      <4>2. PICK i \in DOMAIN wire : wire[i] = e
        BY <2>2, <2>8, <4>1 DEF Delivered, OnWire
      <4>3. i # 1 /\ i - 1 \in DOMAIN wire' /\ wire'[i - 1] = e
        BY <2>4, <2>5, <4>1, <4>2
      <4> QED BY <4>3 DEF OnWire
    <3> QED BY <3>1 DEF Delivered
  <2>9. OwedIsWaiting => OwedIsWaiting'
    BY <1>1, <2>1 DEF OwedIsWaiting
  <2> QED BY <1>0, <1>2, <2>1, <2>7, <2>8, <2>9 DEF GapInv
<1> QED BY <1>3, <1>4

LEMMA GapStuttering == ASSUME GapInv, UNCHANGED vars PROVE GapInv'
<1>1. IInv'
  BY StutteringStep DEF GapInv
<1> QED BY <1>1 DEF GapInv, OnlyStored, ChannelIncreases, Delivered, OnWire, OwedIsWaiting, vars

-----------------------------------------------------------------------------
(* Step by step, the stream implements the feed *)

\* The frame at the head of the wire is stored, and with no loss it is the next.
LEMMA HeadIsNext ==
  ASSUME GapInv, wire # <<>>
  PROVE  /\ Head(wire) \in cursor + 1..stored
         /\ cutShort \/ missed \/ Head(wire) = cursor + 1
<1>1. TypeOK /\ IInv /\ FramesIncrease /\ OnlyStored /\ wire \in Seq(Events)
  BY DEF GapInv, IInv, TypeOK
<1>2. pc \notin {"closed", "fetch"}
  BY DEF GapInv, IInv, WireMatchesStream
<1>3. /\ Len(wire) \in Nat /\ DOMAIN wire = 1..Len(wire) /\ 1 \in DOMAIN wire
      /\ Head(wire) = wire[1] /\ \A i \in DOMAIN wire : wire[i] \in Nat
  BY <1>1, Domains, Tails, Elements, StreamAssumption DEF Events
<1>4. /\ cursor \in Nat /\ lastEventID \in Nat /\ stored \in Nat
      /\ Head(wire) <= lastEventID /\ cursor < Head(wire) /\ lastEventID <= stored
  BY <1>1, <1>2, <1>3, LastEventLeads, StreamAssumption DEF TypeOK, FramesIncrease, OnlyStored
<1>5. ASSUME Delivered PROVE Head(wire) = cursor + 1
  <2>1. cursor + 1 \in cursor + 1..lastEventID
    BY <1>3, <1>4
  <2>2. PICK i \in DOMAIN wire : wire[i] = cursor + 1
    BY <1>2, <1>5, <2>1 DEF Delivered, OnWire
  <2>3. i # 1 => wire[1] < wire[i]
    BY <1>1, <1>3 DEF FramesIncrease
  <2> QED BY <1>3, <1>4, <2>2, <2>3
<1> QED BY <1>3, <1>4, <1>5 DEF GapInv

LEMMA FeedInit == Init => Feed!Init
BY DEF Init, Feed!Init

\* Serve only loses, and Connect starts a connection that has lost nothing;
\* reading is the one step that moves the client.
LEMMA FeedStep ==
  ASSUME GapInv, Next
  PROVE  Feed!Next \/ UNCHANGED <<stored, cursor, cutShort \/ missed>>
<1> USE DEF coreVars, redisVars, lossVars
<1>0. cutShort \in BOOLEAN /\ missed \in BOOLEAN
  BY DEF GapInv, IInv, TypeOK
<1>1. CASE StoreEvent
  <2>1. Feed!Store
    BY <1>1 DEF StoreEvent, Feed!Store
  <2> QED BY <2>1 DEF Feed!Next
<1>2. CASE ReadFrame
  <2>1. /\ cursor' = Head(wire) /\ UNCHANGED <<stored, cutShort, missed>>
        /\ Head(wire) \in cursor + 1..stored
        /\ cutShort \/ missed \/ Head(wire) = cursor + 1
    BY <1>2, HeadIsNext DEF ReadFrame
  <2>2. Feed!Read
    BY <2>1 DEF Feed!Read
  <2> QED BY <2>2 DEF Feed!Next
<1>3. CASE Connect
  <2>1. ~cutShort' /\ ~missed' /\ UNCHANGED <<stored, cursor>>
    BY <1>3 DEF Connect
  <2>2. Feed!Reconnect
    BY <2>1 DEF Feed!Reconnect
  <2> QED BY <2>2 DEF Feed!Next
<1>4. CASE Publish \/ Serve \/ Reopen \/ Disconnect
  <2>1. UNCHANGED <<stored, cursor>>
    BY <1>4 DEF Publish, Serve, FirstFetch, FirstFetchFails, Subscribe, SubscribeFails,
                WriteRecovered, Recover, RecoverFails, ReceiveMessage, ReceiveTimesOut,
                ChannelBreak, Resubscribe, LifetimeEnds, End, Reopen, Disconnect
  <2>2. UNCHANGED <<cutShort, missed>> \/ cutShort' \/ missed'
    BY <1>0, <1>4 DEF Publish, Serve, FirstFetch, FirstFetchFails, Subscribe, SubscribeFails,
                WriteRecovered, Recover, RecoverFails, ReceiveMessage, ReceiveTimesOut,
                ChannelBreak, Resubscribe, LifetimeEnds, End, Reopen, Disconnect
  <2>3. CASE UNCHANGED <<cutShort, missed>>
    BY <2>1, <2>3
  <2>4. CASE cutShort' \/ missed'
    <3>1. (cutShort' \/ missed') = TRUE
      BY <2>4
    <3>2. Feed!Lose
      BY <2>1, <3>1 DEF Feed!Lose
    <3> QED BY <3>2 DEF Feed!Next
  <2> QED BY <2>2, <2>3, <2>4
<1> QED BY <1>1, <1>2, <1>3, <1>4 DEF Next

\* The client reads the stored events one by one, in order, across any number
\* of reconnections; it is taken past one only in a connection that lost an
\* announcement to its live stream or whose recovery a full page cut short.  The
\* recovery after the subscription (sse.go 107-119) covers every event between
\* the first page and the subscription, for any page size and any faults.
THEOREM GapsNeedLosses == Spec => ImplementsEventFeed
<1>1. Init => GapInv
  BY GapInit
<1>2. GapInv /\ [Next]_vars => GapInv'
  BY GapCoreSteps, GapServeSteps, GapClientSteps, GapStuttering DEF Next
<1>3. Init => Feed!Init
  BY FeedInit
<1>4. GapInv /\ [Next]_vars => [Feed!Next]_<<stored, cursor, cutShort \/ missed>>
  <2>1. UNCHANGED vars => UNCHANGED <<stored, cursor, cutShort \/ missed>>
    BY DEF vars
  <2> QED BY <2>1, FeedStep
<1> QED BY <1>1, <1>2, <1>3, <1>4, PTL DEF Spec, ImplementsEventFeed, Feed!Spec
=============================================================================
