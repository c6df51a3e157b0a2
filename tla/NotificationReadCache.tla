----------------------- MODULE NotificationReadCache -----------------------
(***************************************************************************)
(* The short-lived copies of one user's unread count and first pages of    *)
(* notifications in Redis                                                  *)
(* (src/internal/infrastructure/notifications/read_cache.go) and the       *)
(* requests that use them (usecases/notifications.go).  A read looks up    *)
(* the user's cache version and, under it, the copy; if there is none it   *)
(* asks Core, reads the version again and files the answer under it.       *)
(* Marking notifications as read makes Core do it and then moves the       *)
(* version on, so that the copies are met no more.                         *)
(*                                                                         *)
(* Each Redis command is an action: other requests come between the two    *)
(* reads of a version, and between INCR and EXPIRE.  Every key holds the   *)
(* tenant and the email (names that hold no ':'), so the users share       *)
(* nothing and one is modelled; with either blank nothing is cached.       *)
(* What Core would answer is abstracted to the set of events, marks and    *)
(* arrivals of notifications, that it reflects.  Time is a tick.           *)
(***************************************************************************)
EXTENDS Naturals

CONSTANTS
  Readers,     \* clients that poll; each sends one request after another
  Events,      \* changes of the user's notifications: one read, all, or one new
  Kinds,       \* what is read: the count, a first page, a later page, ...
  Cacheable,   \* the kinds that are cached
  Counts,      \* of those, the unread count
  KeyText,     \* [Cacheable -> text]: what the key says, state and severity trimmed
  Regards,     \* [Kinds -> SUBSET Events]: the events that Core's answer shows
  TTL,         \* [Cacheable -> Nat]: unreadTTL (45 s) or listTTL (30 s)
  ReqTime,     \* the request timeout (30 s)
  VerTTL,      \* the lifetime of a version key (24 h)
  Forever,     \* a version key without a lifetime
  None         \* no answer

ASSUME SetsAssumption ==
  /\ Cacheable \subseteq Kinds /\ Counts \subseteq Cacheable
  /\ Regards \in [Kinds -> SUBSET Events]
  /\ Forever \notin Nat

ASSUME LifetimesAssumption ==
  /\ TTL \in [Cacheable -> Nat \ {0}]
  /\ ReqTime \in Nat
  /\ VerTTL \in Nat
  /\ VerTTL > ReqTime /\ \A k \in Cacheable : VerTTL > TTL[k]
  /\ \A j, k \in Cacheable : KeyText[j] = KeyText[k] => TTL[j] = TTL[k]

VARIABLES
  epc,         \* per event: whether Core has seen it, and its request since
  age,         \* ticks since Core saw it, capped (history)
  ver, verTTL, \* the version key: its value, 0 if there is none; its lifetime
  entries,     \* the copies, by version and key text
  pc, kind,    \* per reader: where its request is, and what it reads
  at,          \* per reader: the version it read last
  seen,        \* per reader: the events its answer reflects
  form,        \* per reader: the form of its answer
  waited,      \* per reader: ticks since the request came
  moved,       \* per reader: the version key changed meanwhile (history)
  bumped       \* the events whose INCR succeeded (history)

readerVars  == <<pc, kind, at, seen, form, waited, moved>>
versionVars == <<ver, verTTL>>
eventVars   == <<epc, age, bumped>>
vars == <<eventVars, versionVars, entries, readerVars>>

\* What Core has seen.
Core == {e \in Events : epc[e] # "idle"}

\* An age that no copy and no request in time can have missed.
Cap == VerTTL - 1 + ReqTime
Busy(r) == pc[r] \notin {"idle", "done"}
-----------------------------------------------------------------------------
(* State space *)

\* How an answer says what it says: as unreadCountFromCore reads it ("plain": a
\* page, or a number under "count"); as only notificationCount does ("nested":
\* under "data" or "Count", or a text); or a count of zero whatever there is.
AnswerForms == {"plain", "nested", "zero"}

Entry == [asked : Cacheable, seen : SUBSET Events, form : {"plain", "zero"},
          ttl : Nat \ {0}, doubtful : BOOLEAN]

TypeOK ==
  /\ epc \in [Events -> {"idle", "accepted", "incremented", "done"}]
  /\ age \in [Events -> 0 .. Cap]
  /\ ver \in Nat
  /\ verTTL \in Nat \union {Forever}
  /\ ver = 0 <=> verTTL = 0
  /\ entries \in [DOMAIN entries -> Entry]
  /\ \A x \in DOMAIN entries : x \in Nat \X {KeyText[entries[x].asked]}
  /\ pc \in [Readers -> {"idle", "version", "get", "core", "again", "set", "done"}]
  /\ kind \in [Readers -> Kinds]
  /\ at \in [Readers -> Nat]
  /\ seen \in [Readers -> SUBSET Events]
  /\ form \in [Readers -> AnswerForms]
  /\ waited \in [Readers -> 0 .. ReqTime]
  /\ moved \in [Readers -> BOOLEAN]
  /\ \A r \in Readers : pc[r] \in {"version", "get", "again", "set"} => kind[r] \in Cacheable
  /\ bumped \subseteq Events

Init ==
  /\ epc = [e \in Events |-> "idle"]
  /\ age = [e \in Events |-> 0]
  /\ ver = 0 /\ verTTL = 0
  /\ entries = <<>>
  /\ pc = [r \in Readers |-> "idle"]
  /\ kind \in [Readers -> Kinds]
  /\ at = [r \in Readers |-> 0]
  /\ seen = [r \in Readers |-> {}]
  /\ form = [r \in Readers |-> "plain"]
  /\ waited = [r \in Readers |-> 0]
  /\ moved = [r \in Readers |-> FALSE]
  /\ bumped = {}
-----------------------------------------------------------------------------
(* Reading: UnreadCount and ListNotifications *)

Goto(r, place) == pc' = [pc EXCEPT ![r] = place]

\* A request ends, with an answer ("done") or an error ("idle").
End(r, place) ==
  /\ Goto(r, place)
  /\ at' = [at EXCEPT ![r] = 0]
  /\ waited' = [waited EXCEPT ![r] = 0]
  /\ moved' = [moved EXCEPT ![r] = FALSE]

\* Fault variant: the filters of a page are not looked at.
AskUnfiltered(r, k) ==
  /\ pc[r] \in {"idle", "done"}
  /\ Goto(r, "version")
  /\ kind' = [kind EXCEPT ![r] = k]
  /\ seen' = [seen EXCEPT ![r] = {}]
  /\ form' = [form EXCEPT ![r] = "plain"]
  /\ UNCHANGED <<eventVars, versionVars, entries, at, waited, moved>>

\* A poll; a page with a cursor, a date or another state goes to Core.
Ask(r, k) ==
  /\ pc[r] \in {"idle", "done"}
  /\ Goto(r, IF k \in Cacheable THEN "version" ELSE "core")
  /\ kind' = [kind EXCEPT ![r] = k]
  /\ seen' = [seen EXCEPT ![r] = {}]
  /\ form' = [form EXCEPT ![r] = "plain"]
  /\ UNCHANGED <<eventVars, versionVars, entries, at, waited, moved>>

\* version: the key's value; "0" if there is none or Redis fails.
ReadVersion(r) ==
  /\ \/ pc[r] = "version" /\ Goto(r, "get")
     \/ pc[r] = "again" /\ Goto(r, "set")
  /\ \E v \in {ver, 0} : at' = [at EXCEPT ![r] = v]
  /\ UNCHANGED <<eventVars, versionVars, entries, kind, seen, form, waited, moved>>

Key(r) == <<at[r], KeyText[kind[r]]>>

\* Fault variant: a hit gives the copy another lifetime.
GetHitsAndRenews(r) ==
  /\ pc[r] = "get"
  /\ Key(r) \in DOMAIN entries
  /\ seen' = [seen EXCEPT ![r] = entries[Key(r)].seen]
  /\ form' = [form EXCEPT ![r] = entries[Key(r)].form]
  /\ entries' = [entries EXCEPT ![Key(r)].ttl = TTL[kind[r]]]
  /\ End(r, "done")
  /\ UNCHANGED <<eventVars, versionVars, kind>>

\* GetUnreadCount, GetList: the copy under the version just read, of whichever
\* page it is that the same key text was asked for.
GetHits(r) ==
  /\ pc[r] = "get"
  /\ Key(r) \in DOMAIN entries
  /\ seen' = [seen EXCEPT ![r] = entries[Key(r)].seen]
  /\ form' = [form EXCEPT ![r] = entries[Key(r)].form]
  /\ End(r, "done")
  /\ UNCHANGED <<eventVars, versionVars, entries, kind>>

\* No copy, or Redis fails: on to Core.
GetMisses(r) ==
  /\ pc[r] = "get"
  /\ Goto(r, "core")
  /\ at' = [at EXCEPT ![r] = 0]
  /\ UNCHANGED <<eventVars, versionVars, entries, kind, seen, form, waited, moved>>

\* Core answers with what it has seen of what was asked, untrimmed; a count may
\* be nested.  A kind that is cached is filed first.
CoreAnswers(r) ==
  /\ pc[r] = "core"
  /\ seen' = [seen EXCEPT ![r] = Core \intersect Regards[kind[r]]]
  /\ form' \in {[form EXCEPT ![r] = f] :
                  f \in {"plain"} \union IF kind[r] \in Counts THEN {"nested"} ELSE {}}
  /\ \/ /\ kind[r] \in Cacheable
        /\ Goto(r, "again")
        /\ UNCHANGED <<at, waited, moved>>
     \/ kind[r] \notin Cacheable /\ End(r, "done")
  /\ UNCHANGED <<eventVars, versionVars, entries, kind>>

\* Core fails, or the request's context ends.
CoreFails(r) ==
  /\ pc[r] = "core"
  /\ End(r, "idle")
  /\ UNCHANGED <<eventVars, versionVars, entries, kind, seen, form>>

\* unreadCountFromCore: a count it cannot read is zero, and shows nothing.
UnreadCountFromCore(r) ==
  IF form[r] = "plain" THEN [form |-> "plain", seen |-> seen[r]]
                       ELSE [form |-> "zero", seen |-> {}]

\* SetUnreadCount, SetList: filed under the version read after Core's answer;
\* an error of Redis is dropped.
File(r) ==
  /\ pc[r] = "set"
  /\ LET kept == UnreadCountFromCore(r)
         copy == [asked |-> kind[r], seen |-> kept.seen, form |-> kept.form,
                  ttl |-> TTL[kind[r]], doubtful |-> moved[r]]
     IN  entries' \in {entries, [x \in DOMAIN entries \union {Key(r)} |->
                                   IF x = Key(r) THEN copy ELSE entries[x]]}
  /\ End(r, "done")
  /\ UNCHANGED <<eventVars, versionVars, kind, seen, form>>
-----------------------------------------------------------------------------
(* Marking as read: MarkRead, MarkAllRead *)

\* Core sees the event and, of a request to mark, says so.
Happens(e, place) ==
  /\ epc[e] = "idle"
  /\ epc' = [epc EXCEPT ![e] = place]
  /\ UNCHANGED <<age, versionVars, entries, readerVars, bumped>>

Mark(e) == Happens(e, "accepted")

\* Nobody tells the cache: a notification arrives, or Core has marked and its
\* answer is lost.
Arrive(e) == Happens(e, "done")

\* Fault variant: the version is set, not counted on.
IncrAsSet(e) ==
  /\ epc[e] = "accepted"
  /\ ver' = 1 /\ verTTL' = Forever
  /\ moved' = [r \in Readers |-> Busy(r)]
  /\ bumped' = bumped \union {e}
  /\ epc' = [epc EXCEPT ![e] = "incremented"]
  /\ UNCHANGED <<age, entries, pc, kind, at, seen, form, waited>>

\* InvalidateUser, INCR: a key it creates has no lifetime yet.
Incr(e) ==
  /\ epc[e] = "accepted"
  /\ ver' = ver + 1
  /\ verTTL' = IF ver = 0 THEN Forever ELSE verTTL
  /\ moved' = [r \in Readers |-> Busy(r)]
  /\ bumped' = bumped \union {e}
  /\ epc' = [epc EXCEPT ![e] = "incremented"]
  /\ UNCHANGED <<age, entries, pc, kind, at, seen, form, waited>>

\* INCR fails; EXPIRE is sent all the same.
IncrFails(e) ==
  /\ epc[e] = "accepted"
  /\ epc' = [epc EXCEPT ![e] = "incremented"]
  /\ UNCHANGED <<age, versionVars, entries, readerVars, bumped>>

\* InvalidateUser, EXPIRE: nothing if there is no key, or if Redis fails.
Expire(e) ==
  /\ epc[e] = "incremented"
  /\ verTTL' \in {verTTL, IF ver = 0 THEN 0 ELSE VerTTL}
  /\ epc' = [epc EXCEPT ![e] = "done"]
  /\ UNCHANGED <<age, ver, entries, readerVars, bumped>>
-----------------------------------------------------------------------------
(* Redis and time *)

\* Redis drops what has lived its lifetime.  When that is the version key,
\* counting starts again and may meet copies filed before.
Tick ==
  LET lapses == verTTL = 1
      alive  == {x \in DOMAIN entries : entries[x].ttl > 1}
  IN  /\ \A r \in Readers : Busy(r) => waited[r] < ReqTime
      /\ age' = [e \in Events |-> IF e \in Core /\ age[e] < Cap THEN age[e] + 1 ELSE age[e]]
      /\ waited' = [r \in Readers |-> IF Busy(r) THEN waited[r] + 1 ELSE waited[r]]
      /\ verTTL' = IF verTTL \in {0, Forever} THEN verTTL ELSE verTTL - 1
      /\ ver' = IF lapses THEN 0 ELSE ver
      /\ entries' = [x \in alive |-> [entries[x] EXCEPT !.ttl = @ - 1, !.doubtful = @ \/ lapses]]
      /\ moved' = [r \in Readers |-> moved[r] \/ (lapses /\ Busy(r))]
      /\ UNCHANGED <<epc, bumped, pc, kind, at, seen, form>>
-----------------------------------------------------------------------------
Read(r) ==
  \/ \E k \in Kinds : Ask(r, k)
  \/ ReadVersion(r)
  \/ GetHits(r) \/ GetMisses(r)
  \/ CoreAnswers(r) \/ CoreFails(r)
  \/ File(r)

Change(e) ==
  \/ Mark(e) \/ Arrive(e)
  \/ Incr(e) \/ IncrFails(e)
  \/ Expire(e)

Next ==
  \/ \E r \in Readers : Read(r)
  \/ \E e \in Events : Change(e)
  \/ Tick

Spec == Init /\ [][Next]_vars
-----------------------------------------------------------------------------
(* Properties *)

\* How far an answer may lag Core: a later page not at all.
MaxAge(k) == IF k \in Cacheable THEN TTL[k] + ReqTime ELSE 0

\* What Core stores are the events; a kind of reading is about those it regards.
About(k, e) == e \in Regards[k]

\* Two kinds that the key says alike are alike.
Alike(k, j) == IF k \in Cacheable THEN j \in Cacheable /\ KeyText[j] = KeyText[k] ELSE j = k

\* The answer a reader was given, unless it is a zero from a copy of a nested
\* count: of that nothing is promised.
Answered(r) ==
  IF pc[r] = "done" /\ form[r] # "zero" THEN [query |-> kind[r], rows |-> seen[r]] ELSE None

\* Every answer of UnreadCount and ListNotifications is one RecentReads allows:
\* it is the answer to one kind of reading with the same key, it shows events
\* that Core has seen and all that are as old as the copy's lifetime and one
\* request together, a later page all there are, whatever the requests, the
\* marks and Redis do meanwhile.  Excepted are the zeros that answer from the
\* copy of a count that Core nested.
Recent == INSTANCE RecentReads WITH
            Writers <- Events, Requests <- Events, Queries <- Kinds,
            Matches <- About, Oldest <- Cap, stored <- [e \in Core |-> e],
            answer <- [r \in Readers |-> Answered(r)]
ImplementsRecentReads == Recent!Spec

\* Once InvalidateUser has moved the version on, the copies met under it show
\* the marks they are about; the exceptions are copies whose read overlapped a
\* change of the version key, those that outlive it (then counting starts
\* again), and the zeros kept of nested counts, which show nothing.
MarksAreShown ==
  \A x \in DOMAIN entries :
    x[1] = ver /\ ~ entries[x].doubtful /\ entries[x].form # "zero"
      => bumped \intersect Regards[entries[x].asked] \subseteq entries[x].seen
=============================================================================
