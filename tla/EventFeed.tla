----------------------------- MODULE EventFeed -----------------------------
(***************************************************************************)
(* What the event stream promises the client that reads it: events come in *)
(* the order of the user's log, across reconnections too, none twice and   *)
(* none that is not stored; and none is passed over, unless something of   *)
(* the present connection was lost.  What was lost is made good by the     *)
(* next connection for every event the client has not been taken past.     *)
(***************************************************************************)
EXTENDS Naturals

VARIABLES stored,   \* how many events the user has
          cursor,   \* the last event the client has read
          lossy     \* the present connection has lost something

Init == stored = 0 /\ cursor = 0 /\ lossy = FALSE

Store == stored' = stored + 1 /\ UNCHANGED <<cursor, lossy>>

Read ==
  /\ cursor' \in cursor + 1..stored
  /\ lossy \/ cursor' = cursor + 1
  /\ UNCHANGED <<stored, lossy>>

Lose == lossy' = TRUE /\ UNCHANGED <<stored, cursor>>

Reconnect == lossy' = FALSE /\ UNCHANGED <<stored, cursor>>

Next == Store \/ Read \/ Lose \/ Reconnect

Spec == Init /\ [][Next]_<<stored, cursor, lossy>>
=============================================================================
