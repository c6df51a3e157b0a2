---------------------------- MODULE RecentReads ----------------------------
(***************************************************************************)
(* What a read through a cache promises its callers while Redis, Core and  *)
(* the clients may all misbehave: an answer shows only what Core has       *)
(* stored, only what the query asks for, and all of that which was stored  *)
(* MaxAge(query) ticks ago or longer.  It may lag, never further; a query  *)
(* of which MaxAge is 0 is answered exactly.  Where the cache does not     *)
(* tell queries apart, the answer to one may be that to another like it,   *)
(* as a whole.                                                             *)
(***************************************************************************)
EXTENDS Naturals

CONSTANTS Readers, Writers, Queries, Requests, None,
          MaxAge(_),        \* per query: the age from which what is stored shows
          Oldest,           \* the age at which counting stops
          Matches(_, _),    \* Matches(q, a): query q asks for a
          Alike(_, _)       \* Alike(q, p): q may be answered as p

VARIABLES stored,           \* what Core has stored, by the write that did it
          age,              \* ticks since each was stored, up to Oldest
          answer            \* what each reader was last answered

Init ==
  /\ stored = [w \in {} |-> None]
  /\ age = [w \in Writers |-> 0]
  /\ answer = [r \in Readers |-> None]

Store(w, a) ==
  /\ w \notin DOMAIN stored
  /\ stored' = [v \in DOMAIN stored \union {w} |-> IF v = w THEN a ELSE stored[v]]
  /\ UNCHANGED <<age, answer>>

Asked(q) == {w \in DOMAIN stored : Matches(q, stored[w])}

Answer(r, q, rows) ==
  /\ answer' = [answer EXCEPT ![r] = [query |-> q, rows |-> rows]]
  /\ \E p \in Queries :
       /\ Alike(q, p)
       /\ rows \subseteq Asked(p)
       /\ \A w \in Asked(p) \ rows : age[w] < MaxAge(q)
  /\ UNCHANGED <<stored, age>>

\* A new request begins, or one fails.
Clear(r) ==
  /\ answer' = [answer EXCEPT ![r] = None]
  /\ UNCHANGED <<stored, age>>

GrowOlder ==
  /\ age' = [w \in Writers |-> IF w \in DOMAIN stored /\ age[w] < Oldest
                               THEN age[w] + 1 ELSE age[w]]
  /\ UNCHANGED <<stored, answer>>

Next ==
  \/ \E w \in Writers, a \in Requests : Store(w, a)
  \/ \E r \in Readers, q \in Queries, rows \in SUBSET Writers : Answer(r, q, rows)
  \/ \E r \in Readers : Clear(r)
  \/ GrowOlder

Spec == Init /\ [][Next]_<<stored, age, answer>>
=============================================================================
