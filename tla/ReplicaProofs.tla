--------------------------- MODULE ReplicaProofs ---------------------------
(***************************************************************************)
(* What a reader of the copy may rely on, proved for every ledger.         *)
(***************************************************************************)
EXTENDS Replica, TLAPS

\* The blocks are begun in order: everything below a block that is not missing is
\* settled.
GrowInv == TypeOK /\ Growing

\* Nothing is copied in the initial states.
LEMMA GrowInit == Init => GrowInv
  BY DEF Init, GrowInv, TypeOK, Growing

\* Only Begin reaches a new block, and what is settled stays settled.
LEMMA GrowStep == GrowInv /\ [Next]_status => GrowInv'
<1> SUFFICES ASSUME GrowInv, [Next]_status PROVE GrowInv'
  OBVIOUS
<1>0. status \in [Blocks -> {"missing", "half"} \cup Settled] /\ Growing
  BY DEF GrowInv, TypeOK
\* A step at block b: b was not settled, and the blocks below it are, before and after.
<1>a. ASSUME NEW b \in Blocks, NEW s \in {"missing", "half"} \cup Settled,
             status[b] \notin Settled, status' = [status EXCEPT ![b] = s],
             \A a \in Blocks : a < b => status[a] \in Settled
      PROVE  GrowInv'
  <2>1. TypeOK'
    BY <1>0, <1>a DEF TypeOK
  <2>2. \A c \in Blocks : c > b => status[c] = "missing"
    BY <1>0, <1>a DEF Growing, Blocks, Settled
  <2>3. ASSUME NEW c \in Blocks, status'[c] # "missing", NEW a \in Blocks, a < c
        PROVE  status'[a] \in Settled
    <3>1. c <= b
      BY <1>0, <1>a, <2>2, <2>3 DEF Blocks
    <3>2. a < b
      BY <2>3, <3>1 DEF Blocks
    <3>3. QED
      BY <1>0, <1>a, <3>2 DEF Blocks
  <2>4. QED
    BY <2>1, <2>3 DEF GrowInv, Growing
<1>1. CASE \E b \in Blocks : Begin(b)
  BY <1>1, <1>a DEF Begin, Becomes, Settled
<1>2. CASE \E b \in Blocks : Complete(b) \/ Undo(b) \/ Lose(b)
  <2>1. PICK b \in Blocks, s \in {"missing", "half"} \cup Settled :
            status[b] = "half" /\ status' = [status EXCEPT ![b] = s]
    BY <1>2 DEF Complete, Undo, Lose, Becomes, Settled
  <2>2. \A a \in Blocks : a < b => status[a] \in Settled
    BY <1>0, <2>1 DEF Growing
  <2>3. QED
    BY <1>a, <2>1, <2>2 DEF Settled
<1>3. CASE UNCHANGED status
  BY <1>0, <1>3 DEF GrowInv, TypeOK, Growing
<1>4. QED
  BY <1>1, <1>2, <1>3 DEF Next

\* The copy grows block by block: below a block that is not missing every block is
\* copied, or lost for good.
THEOREM CopyGrows == Spec => []Growing
<1>1. GrowInv => Growing
  BY DEF GrowInv
<1>2. QED
  BY <1>1, GrowInit, GrowStep, PTL DEF Spec

=============================================================================
