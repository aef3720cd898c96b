----------------------------- MODULE MCSyncJob -----------------------------
(* Instances of SyncReplica for TLC: the genesis block has one transaction, the *)
(* other blocks alternate between two and one, and commits sit in a first,  *)
(* a second and an only transaction.                                        *)
EXTENDS SyncReplica

MCNTx == [b \in Block |-> IF b % 2 = 1 THEN 2 ELSE 1]

MCWithCommit == {t \in {<<1, 1>>, <<1, 2>>, <<2, 1>>, <<3, 2>>} : t[1] <= MaxBlock}

=============================================================================
