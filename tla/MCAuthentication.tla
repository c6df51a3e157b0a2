-------------------------- MODULE MCAuthentication --------------------------
(***************************************************************************)
(* Small instances, for TLC, of what authenticating a token asks of        *)
(* caches: JwksCache for the key of its signature, IdentityEmailCache for  *)
(* the email of its subject.  A validation is in one at a time and they    *)
(* share nothing, so a behaviour runs one of them: part says which, and    *)
(* with which bounds.                                                      *)
(***************************************************************************)
EXTENDS IdentityEmailCache, JwksCache

CONSTANTS e1, e2, r1, r2, s1, s2, s3, s4, t1, t2, k1, k2

VARIABLE part

\* In memory one client resolves all subjects, and the directory rests; on
\* Redis two clients resolve one subject that changes between two emails.
Bounds ==
  \/ /\ part = "memory" /\ changes = 0
     /\ pc[r2] = "idle"
     /\ \A s \in Subjects : directory[s] # e2
  \/ /\ part = "redis"
     /\ \A r \in Requests : subject[r] \in {s1, None}
     /\ \A s \in Subjects \ {s1} : directory[s] = Absent
  \/ /\ part = "keys"
     /\ directory = [s \in Subjects |-> Absent]

MCInit ==
  /\ part \in {"keys", "memory", "redis"}
  /\ Init /\ JwksInit
  /\ inMemory = (part # "redis")
  /\ part # "keys" => published = {} /\ kid = [t \in Tokens |-> k1]
  /\ Bounds

MCNext ==
  /\ UNCHANGED part
  /\ \/ part = "keys" /\ JwksNext /\ UNCHANGED vars
     \/ part # "keys" /\ Next /\ UNCHANGED jwksVars
  /\ Bounds'

MCSpec == MCInit /\ [][MCNext]_<<part, vars, jwksVars>>
=============================================================================
