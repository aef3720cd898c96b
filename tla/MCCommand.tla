----------------------------- MODULE MCCommand -----------------------------
(* Instances of Command for TLC: three calls, which are interchangeable.    *)
EXTENDS CommandLog, TLC

CONSTANTS r1, r2, r3

MCRequest == {r1, r2, r3}

MCGiven == {0}

MCSymmetry == Permutations(MCRequest)

=============================================================================
