------------------------ MODULE MCActivityReadCache ------------------------
(***************************************************************************)
(* Small instances of ActivityReadCache for TLC.                           *)
(***************************************************************************)
EXTENDS ActivityReadCache, TLC

CONSTANTS r1, r2, w1, w2, l1, l2, c1

MCClientOf == [l \in {l1, l2} |-> c1]
MCClientOf1 == [l \in {l1} |-> c1]

\* Three filters: none, the agent "gestor", and the same word between blanks,
\* for which Core finds nothing; the key prints the last two alike.
MCKeyText == ("all" :> "") @@ ("gestor" :> "gestor") @@ (" gestor " :> "gestor")
MCPasses(f, r) == f = "all" \/ f = r.agent

Query(scopes, offset, filter) == [scopes |-> scopes, offset |-> offset, filter |-> filter]
OneLoan     == {Query({l1}, 0, "all")}
LoanAndClient == {Query({l1, c1}, 0, "all")}
EachKindOfQuery == {Query({c1}, 0, "gestor"), Query({c1}, 0, " gestor "),
                    Query({l1}, 0, "all"), Query({l1}, 1, "all")}

Fields(loan, client, loans) ==
  [loan_id |-> loan, client_id |-> client, loan_ids |-> loans, list_type |-> "[]any"]
NoFields == Fields(None, None, <<>>)

Create(kind, payload, activity, agent) ==
  [kind |-> kind, payload |-> payload, activity |-> activity,
   type |-> IF kind = "escalation" THEN "escalation" ELSE "call", agent |-> agent]

Single(loan, client) == Create("single", Fields(loan, client, <<>>), NoFields, "gestor")
Escalation(loan) == Create("escalation", Fields(loan, None, <<>>), NoFields, "gestor")
Batch(loans, activity) == Create("batch", Fields(None, None, loans), activity, "gestor")

FullCreate == {Single(l1, c1)}
\* The batch names loans within its activity too, where they count.
EachKindOfCreate ==
  {Single(l1, None), Create("single", Fields(None, c1, <<>>), NoFields, "sistema"),
   Batch(<<l1, l2>>, Fields(None, c1, <<l2, l1>>)), Escalation(l1)}
CreateAndEscalation == {Single(l1, c1), Escalation(l1)}
BatchCreate == {Batch(<<l1, l2>>, NoFields)}

WriterSymmetry == Permutations(Writers)
=============================================================================
