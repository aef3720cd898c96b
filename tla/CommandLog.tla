----------------------------- MODULE CommandLog -----------------------------
(***************************************************************************)
(* Orderly clients, which append one after the other, each waiting until   *)
(* no earlier call is under way, implement the event log of EventLog: the  *)
(* commits in the order of their ids are the log.  Others implement        *)
(* nothing of it, and their log is left empty.                             *)
(***************************************************************************)
EXTENDS Command

\* How many commits come before c in the order of the ids.
Rank(c) == Cardinality({d \in store : d.id < c.id})

InOrder == [n \in 1 .. Cardinality(store) |-> CHOOSE c \in store : Rank(c) = n - 1]

Log == IF orderly THEN [n \in 1 .. Cardinality(store) |->
                           [by |-> InOrder[n].by, version |-> InOrder[n].version]]
                  ELSE <<>>

L == INSTANCE EventLog WITH Writer <- Request, log <- Log

\* Versions count up from 0 without a gap, nothing is stored twice and nothing
\* replaced, whatever is refused or answered after its timer.
ImplementsEventLog == L!Spec

=============================================================================
