----------------------------- MODULE MCCascade -----------------------------
(* Instances of Cascade for TLC, with the ledger of MCSyncJob; the entity   *)
(* has the second commit of block 1, and the one of block 2.               *)
EXTENDS Cascade

MCNTx == [b \in Block |-> IF b % 2 = 1 THEN 2 ELSE 1]

MCWithCommit == {t \in {<<1, 1>>, <<1, 2>>, <<2, 1>>} : t[1] <= MaxBlock}

MCTwo == {<<1, 2>>, <<2, 1>>}

=============================================================================
