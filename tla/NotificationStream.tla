------------------------- MODULE NotificationStream -------------------------
(***************************************************************************)
(* The notification event stream of one user: Core's event log, the Redis  *)
(* channel that announces new events, the handler and SSE.Serve            *)
(* (src/internal/infrastructure/notifications/sse.go), and a client that   *)
(* reconnects with the id of the last event it has read.                   *)
(*                                                                         *)
(* The user's events are numbered by their place in the user's log, so a   *)
(* page of events is an interval and is represented by its last event.     *)
(***************************************************************************)
EXTENDS Naturals, Sequences

CONSTANTS
  MaxEvents,  \* bound: how many events the user ever gets
  Limit,      \* page size of Core's events-after query, at most 100
  MaxFaults   \* bound: Core errors and connections torn down or broken

ASSUME StreamAssumption ==
  /\ MaxEvents \in Nat
  /\ Limit \in Nat \ {0}
  /\ MaxFaults \in Nat

VARIABLES
  stored,       \* Core: how many events the user has (external)
  announced,    \* Core: how many of them it has published or failed to
  subscribed,   \* Redis: the stream's subscription is in place
  channel,      \* Redis: announcements sent to it and not yet received
  pc,           \* the handler: see Steps
  lastEventID,  \* SSE.lastEventID
  recovered,    \* last event of the page fetched before the subscription
  wire,         \* frames written and not yet read by the client
  cursor,       \* the client: id of the last event read, its Last-Event-ID
  cutShort,     \* a recovery of this connection left out an announced event (history)
  missed,       \* an announcement did not reach this connection's live stream (history)
  faults        \* faults so far

coreVars  == <<stored, announced>>
redisVars == <<subscribed, channel>>
lossVars  == <<cutShort, missed>>
vars == <<stored, announced, subscribed, channel, pc, lastEventID, recovered,
          wire, cursor, cutShort, missed, faults>>

\* closed: no stream.  fetch: before the first Core call.  subscribe: before
\* SUBSCRIBE.  write: about to write the first page.  recover: about to call
\* recoverAfter.  receive: in ReceiveTimeout.  ended: Serve has returned.
Steps == {"closed", "fetch", "subscribe", "write", "recover", "receive", "ended"}

Events == 1..MaxEvents

TypeOK ==
  /\ stored \in 0..MaxEvents
  /\ announced \in 0..stored
  /\ subscribed \in BOOLEAN
  /\ channel \in Seq(Events)
  /\ pc \in Steps
  /\ lastEventID \in 0..MaxEvents
  /\ recovered \in 0..MaxEvents
  /\ wire \in Seq(Events)
  /\ cursor \in 0..MaxEvents
  /\ cutShort \in BOOLEAN
  /\ missed \in BOOLEAN
  /\ faults \in 0..MaxFaults

Init ==
  /\ stored = 0 /\ announced = 0
  /\ subscribed = FALSE /\ channel = <<>>
  /\ pc = "closed"
  /\ lastEventID = 0 /\ recovered = 0
  /\ wire = <<>>
  /\ cursor = 0
  /\ cutShort = FALSE /\ missed = FALSE
  /\ faults = 0

Fault == faults < MaxFaults /\ faults' = faults + 1

-----------------------------------------------------------------------------
(* Core: stores an event, then publishes it on the user's channel (external) *)

StoreEvent ==
  /\ stored < MaxEvents
  /\ stored' = stored + 1
  /\ UNCHANGED <<announced, redisVars, pc, lastEventID, recovered, wire, cursor, faults, lossVars>>

\* Redis delivers at most once.
Publish ==
  /\ announced < stored
  /\ announced' = announced + 1
  /\ \/ subscribed /\ channel' = Append(channel, announced + 1) /\ UNCHANGED missed
     \/ UNCHANGED channel /\ missed' = (missed \/ pc = "receive")
  /\ UNCHANGED <<stored, subscribed, pc, lastEventID, recovered, wire, cursor, faults, cutShort>>

\* Core's events-after query: the last event of the page that follows event e.
PageAfter(e) == IF stored < e + Limit THEN stored ELSE e + Limit
-----------------------------------------------------------------------------
(* The handler and SSE.Serve *)

\* The client connects with its Last-Event-ID.
Connect ==
  /\ pc = "closed"
  /\ pc' = "fetch"
  /\ cutShort' = FALSE /\ missed' = FALSE
  /\ UNCHANGED <<coreVars, redisVars, lastEventID, recovered, wire, cursor, faults>>


\* NotificationEventsAfter: the first page, before anything is streamed.
FirstFetch ==
  /\ pc = "fetch"
  /\ recovered' = PageAfter(cursor)
  /\ lastEventID' = cursor
  /\ pc' = "subscribe"
  /\ UNCHANGED <<coreVars, redisVars, wire, cursor, faults, lossVars>>

FirstFetchFails ==
  /\ pc = "fetch"
  /\ Fault
  /\ pc' = "closed"
  /\ UNCHANGED <<coreVars, redisVars, lastEventID, recovered, wire, cursor, lossVars>>

\* Subscribe and the confirmation read by Receive.
Subscribe ==
  /\ pc = "subscribe"
  /\ subscribed' = TRUE /\ channel' = <<>>
  /\ pc' = "write"
  /\ UNCHANGED <<coreVars, lastEventID, recovered, wire, cursor, faults, lossVars>>

\* Fault variant: the whole page, whatever was already written.
WriteEveryFrame(e) ==
  /\ wire' = wire \o [i \in 1..e |-> i]
  /\ lastEventID' = IF e > lastEventID THEN e ELSE lastEventID

\* Fault variant: lastEventID is advanced by the id, not to it.
WriteFramesAdding(e) ==
  LET fresh == IF e > lastEventID THEN e - lastEventID ELSE 0
  IN  /\ wire' = wire \o [i \in 1..fresh |-> lastEventID + i]
      /\ lastEventID' = IF e > lastEventID THEN lastEventID + e ELSE lastEventID

\* writeFrames on a page that ends at event e: its events after lastEventID.
WriteFrames(e) ==
  LET fresh == IF e > lastEventID THEN e - lastEventID ELSE 0
  IN  /\ wire' = wire \o [i \in 1..fresh |-> lastEventID + i]
      /\ lastEventID' = lastEventID + fresh

\* No REDIS_URL, Redis down, or no confirmation: the page is written, then "retry", and Serve
\* returns.
SubscribeFails ==
  /\ pc = "subscribe"
  /\ WriteFrames(recovered)
  /\ pc' = "ended"
  /\ UNCHANGED <<coreVars, redisVars, recovered, cursor, faults, lossVars>>

\* Fault variant: the page read before the subscription is trusted to be
\* complete, and the stream goes straight to its receive loop.
WriteRecoveredAndReceive ==
  /\ pc = "write"
  /\ WriteFrames(recovered)
  /\ pc' = "receive"
  /\ UNCHANGED <<coreVars, redisVars, recovered, cursor, faults, lossVars>>

WriteRecovered ==
  /\ pc = "write"
  /\ WriteFrames(recovered)
  /\ pc' = "recover"
  /\ UNCHANGED <<coreVars, redisVars, recovered, cursor, faults, lossVars>>

\* recoverAfter(lastEventID) and its frames: once after subscribing, and after
\* every receive that times out or fails.
Recover ==
  /\ pc = "recover"
  /\ WriteFrames(PageAfter(lastEventID))
  /\ cutShort' = (cutShort \/ PageAfter(lastEventID) < announced)
  /\ pc' = "receive"
  /\ UNCHANGED <<coreVars, redisVars, recovered, cursor, faults, missed>>

\* Serve returns and its deferred Close drops the subscription.
End ==
  /\ pc' = "ended"
  /\ subscribed' = FALSE /\ channel' = <<>>

\* recoverAfter fails: "retry", and Serve returns.
RecoverFails ==
  /\ pc = "recover"
  /\ Fault
  /\ End
  /\ UNCHANGED <<coreVars, lastEventID, recovered, wire, cursor, lossVars>>

\* A message: written if its id is above lastEventID, which then jumps to it.
ReceiveMessage ==
  /\ pc = "receive"
  /\ channel # <<>>
  /\ channel' = Tail(channel)
  /\ IF Head(channel) > lastEventID
     THEN /\ wire' = Append(wire, Head(channel))
          /\ lastEventID' = Head(channel)
     ELSE UNCHANGED <<wire, lastEventID>>
  /\ UNCHANGED <<coreVars, subscribed, pc, recovered, cursor, faults, lossVars>>

\* Nothing came for 15 seconds, or the connection could not be re-opened.
ReceiveTimesOut ==
  /\ pc = "receive"
  /\ channel = <<>>
  /\ pc' = "recover"
  /\ UNCHANGED <<coreVars, redisVars, lastEventID, recovered, wire, cursor, faults, lossVars>>

\* The subscription's connection breaks: unread announcements are gone, and the
\* client library re-subscribes at once, or only at the next receive.
ChannelBreak ==
  /\ pc = "receive"
  /\ subscribed
  /\ Fault
  /\ channel' = <<>>
  /\ subscribed' \in BOOLEAN
  /\ pc' = "recover"
  /\ UNCHANGED <<coreVars, lastEventID, recovered, wire, cursor, lossVars>>

Resubscribe ==
  /\ pc = "receive"
  /\ ~subscribed
  /\ subscribed' = TRUE
  /\ UNCHANGED <<coreVars, channel, pc, lastEventID, recovered, wire, cursor, faults, lossVars>>

\* The stream's lifetime is over, or the request timeout cancels its context.
LifetimeEnds ==
  /\ pc = "receive"
  /\ End
  /\ UNCHANGED <<coreVars, lastEventID, recovered, wire, cursor, faults, lossVars>>
-----------------------------------------------------------------------------
(* The client (external): an EventSource *)

ReadFrame ==
  /\ wire # <<>>
  /\ wire' = Tail(wire)
  /\ cursor' = Head(wire)
  /\ UNCHANGED <<coreVars, redisVars, pc, lastEventID, recovered, faults, lossVars>>

\* Everything the server wrote has been read, and the response is over.
Reopen ==
  /\ pc = "ended"
  /\ wire = <<>>
  /\ pc' = "closed"
  /\ UNCHANGED <<coreVars, redisVars, lastEventID, recovered, wire, cursor, faults, lossVars>>

\* The connection is torn down: unread frames are lost, the next write fails.
Disconnect ==
  /\ pc # "closed"
  /\ Fault
  /\ pc' = "closed"
  /\ wire' = <<>>
  /\ subscribed' = FALSE /\ channel' = <<>>
  /\ UNCHANGED <<coreVars, lastEventID, recovered, cursor, lossVars>>

Serve ==
  \/ FirstFetch \/ FirstFetchFails \/ Subscribe \/ SubscribeFails
  \/ WriteRecovered \/ Recover \/ RecoverFails
  \/ ReceiveMessage \/ ReceiveTimesOut \/ ChannelBreak \/ Resubscribe
  \/ LifetimeEnds

Next ==
  \/ StoreEvent \/ Publish
  \/ Serve
  \/ Connect \/ ReadFrame \/ Reopen \/ Disconnect

Spec == Init /\ [][Next]_vars

\* The handler's goroutine runs, the client reads and comes back.  Nothing is
\* assumed of Core's announcements.
Fairness == WF_vars(Serve) /\ WF_vars(ReadFrame) /\ WF_vars(Connect \/ Reopen)

FairSpec == Spec /\ Fairness
-----------------------------------------------------------------------------
(* Properties *)

\* Frames go out in increasing id order and none twice, across reconnections
\* too: what is on the wire is above what the client has read and ends at
\* lastEventID, which the id check of writeFrames and of the live branch keeps.
FramesIncrease ==
  /\ \A i, j \in DOMAIN wire : i < j => wire[i] < wire[j]
  /\ \A i \in DOMAIN wire : cursor < wire[i]
  /\ wire # <<>> => wire[Len(wire)] = lastEventID

\* The client's Last-Event-ID speaks for everything before it: the client reads
\* the events one by one, each stored by Core, unless in the present connection
\* an announcement failed to reach the receive loop, or more events than a page
\* were announced before a recovery.  The jump of lastEventID in the live branch
\* costs an event in no other way: neither the gap between the first page and
\* the subscription nor a broken connection does, since both are followed by a
\* recovery, nor the absence of Redis.
Feed == INSTANCE EventFeed WITH lossy <- cutShort \/ missed

ImplementsEventFeed == Feed!Spec

=============================================================================
