----------------------------- MODULE MCQuerySide -----------------------------
(* Small instances of QuerySide for TLC.                                    *)
EXTENDS QuerySide

\* Four rows, of which two share their key and may fall on different pages.
MCTableRow == 0 .. 3

MCKeyOf == [r \in MCTableRow |-> CASE r = 0 -> 0 [] r \in {1, 2} -> 1 [] r = 3 -> 2]

\* What createPlatform creates its connection with.
PlatformEntities == {"Blocks", "Transactions", "KeyValue", "FabricWallet", "Commit", "Incident"}

=============================================================================
