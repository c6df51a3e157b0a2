--------------------------- MODULE MCFieldCrypto ---------------------------
(***************************************************************************)
(* FieldCrypto for TLC: one protected route more than the built-in ones.   *)
(***************************************************************************)
EXTENDS FieldCrypto, TLC

MCEndpoints == [create |-> [decrypt |-> TRUE, encrypt |-> TRUE]]
MCSymmetry == Permutations(Procs) \union Permutations(Requests) \union Permutations(Tenants)

\* Bound: what goes wrong in one behaviour: two restarts, two new access tokens,
\* one of each, or one tenant left.
MaxDisturbances == 2
InBounds ==
  restarts + (bearer - 1) + 2 * Cardinality(Tenants \ members) <= MaxDisturbances
=============================================================================
