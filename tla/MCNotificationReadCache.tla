---------------------- MODULE MCNotificationReadCache ----------------------
(***************************************************************************)
(* A small instance of NotificationReadCache for TLC.                      *)
(***************************************************************************)
EXTENDS NotificationReadCache, FiniteSets, TLC

CONSTANTS r1, r2, e1, e2, e3

MCTTL == [k \in Cacheable |-> IF k = "unread" THEN 2 ELSE 1]

\* A state or severity in blanks is trimmed for the key; Core, asked with the
\* blanks, knows no notification of that name.
MCKeyText == [k \in Cacheable |-> IF k = " page " THEN "page" ELSE k]
MCRegards == [k \in Kinds |-> IF k = " page " THEN {} ELSE Events]

\* Bound: one copy in Redis at a time; copies under different keys never meet.
OneCopy == Cardinality(DOMAIN entries) <= 1

EventsAlike == Permutations(Events) \union Permutations(Readers)
=============================================================================
