--------------------------- MODULE MCSynchronizer ---------------------------
(* Instances of Synchronizer for TLC: start() and start(n) for small n.     *)
EXTENDS Synchronizer

MCCounts == {0, 1, 2}

MCFewCounts == {0, 2}

=============================================================================
