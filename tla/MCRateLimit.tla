---------------------------- MODULE MCRateLimit ----------------------------
(* Callers for model checking RateLimit: two agents behind one address, one *)
(* of them from a second address too, a visitor, and a skipped path.        *)
EXTENDS RateLimit, TLC

CONSTANTS ana, ben, office, home, list, health, q1, q2, q3, q4, q5

MCCallers ==
  {[sub |-> ana, ip |-> office, path |-> list],
   [sub |-> ana, ip |-> home, path |-> list],
   [sub |-> ben, ip |-> office, path |-> list],
   [sub |-> None, ip |-> office, path |-> list],
   [sub |-> None, ip |-> office, path |-> health]}

RequestSymmetry == Permutations(Requests)
=============================================================================
