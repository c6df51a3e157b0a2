---------------------------- MODULE SessionLife ----------------------------
(***************************************************************************)
(* What the session store and the middlewares promise together: a session  *)
(* is opened once, requests are let in while it is open, and when it has   *)
(* ended, by logout, expiry or restart, it lets nobody in again.  A        *)
(* request that was let in may go on after the end of its session.         *)
(***************************************************************************)
CONSTANTS Sessions, Requests, None

VARIABLES life,      \* of each session: "none", "open" or "ended"
          admitted   \* the session each request has been let in with

Init ==
  /\ life = [s \in Sessions |-> "none"]
  /\ admitted = [r \in Requests |-> None]

Open(s) ==
  /\ life[s] = "none"
  /\ life' = [life EXCEPT ![s] = "open"]
  /\ UNCHANGED admitted

Admit(r, s) ==
  /\ admitted[r] = None
  /\ life[s] = "open"
  /\ admitted' = [admitted EXCEPT ![r] = s]
  /\ UNCHANGED life

\* Sessions end, requests are over.
Stop(ending, over) ==
  /\ \A s \in ending : life[s] = "open"
  /\ life' = [s \in Sessions |-> IF s \in ending THEN "ended" ELSE life[s]]
  /\ admitted' = [r \in Requests |-> IF r \in over THEN None ELSE admitted[r]]

Next ==
  \/ \E s \in Sessions : Open(s)
  \/ \E r \in Requests, s \in Sessions : Admit(r, s)
  \/ \E ending \in SUBSET Sessions, over \in SUBSET Requests : Stop(ending, over)

Spec == Init /\ [][Next]_<<life, admitted>>
=============================================================================
