------------------------------ MODULE Replica ------------------------------
(***************************************************************************)
(* What the synchronisation promises to the readers of the query database, *)
(* whatever its jobs, tables and failures are: a copy of the ledger that   *)
(* grows block by block.  A block is missing, half copied, copied, or lost *)
(* to the copy for good.  SyncJob implements this specification (module    *)
(* SyncReplica) as long as late calls do not overlap with later jobs.      *)
(***************************************************************************)
EXTENDS Integers

CONSTANT Last    \* the last block of the ledger

VARIABLE status

Blocks == 0 .. Last

Settled == {"copied", "lost"}

TypeOK == status \in [Blocks -> {"missing", "half"} \cup Settled]

Init == status = [b \in Blocks |-> "missing"]

Becomes(b, from, to) == status[b] = from /\ status' = [status EXCEPT ![b] = to]

\* Blocks are copied in the order of the ledger, one at a time.
Begin(b) ==
    /\ \A a \in Blocks : a < b => status[a] \in Settled
    /\ Becomes(b, "missing", "half")

Complete(b) == Becomes(b, "half", "copied")

\* A half copied block is removed, to be copied again, or to be forgotten.
Undo(b) == Becomes(b, "half", "missing")

Lose(b) == Becomes(b, "half", "lost")

Next == \E b \in Blocks : Begin(b) \/ Complete(b) \/ Undo(b) \/ Lose(b)

Spec == Init /\ [][Next]_status

\* What a reader may rely on: everything below a block that is not missing is
\* settled, so at most one block is half copied and nothing is copied beyond it.
Growing ==
    \A b \in Blocks : status[b] # "missing" =>
        \A a \in Blocks : a < b => status[a] \in Settled

=============================================================================
