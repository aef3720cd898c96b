---------------------------- MODULE SyncReplica ----------------------------
(***************************************************************************)
(* The synchronisation job implements the growing copy of Replica: the     *)
(* refinement mapping reads the state of a block off its row, and off the  *)
(* list "insertedBlock".                                                   *)
(***************************************************************************)
EXTENDS SyncJob

\* A block with a row is copied when the row is verified.  A block without one is
\* missing, unless the list, which findMissingBlock trusts, says otherwise.
StatusOf(b) ==
    CASE block[b] = "verified"              -> "copied"
      [] block[b] = "unverified"            -> "half"
      [] block[b] = "absent" /\ b \in kv    -> "lost"
      [] block[b] = "absent" /\ b \notin kv -> "missing"

R == INSTANCE Replica WITH
        Last   <- MaxBlock,
        status <- [b \in Block |-> StatusOf(b)]

\* However calls fail, time out and are interrupted by crashes, every statement
\* on the tables is a step of the growing copy: no block is copied before those
\* below it, and none that is copied or lost ever changes again.
ImplementsReplica == R!Spec

=============================================================================
