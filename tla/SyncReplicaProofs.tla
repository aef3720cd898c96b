------------------------- MODULE SyncReplicaProofs -------------------------
(***************************************************************************)
(* What the rows of a block and the answers of the job promise, proved for *)
(* every ledger and every number of faults, timeouts and crashes, as long  *)
(* as a late call ends before the next job: verified rows are kept, with   *)
(* what they stand for, the job implements Replica, and what it tells is so*)
(***************************************************************************)
EXTENDS SyncReplica, SyncJobProofs

-----------------------------------------------------------------------------
(* The inductive invariant.  It adds to KVInv what the rows are while a    *)
(* call is pending.                                                        *)

\* At most one block is half stored, the first that the list may lack.
OneUnverified ==
    \A b \in Unverified : Unverified = {b} /\ \A a \in Block : a < b => a \in kv

\* What a pending call relies on in the tables.
RowFits(c) ==
    /\ c.do = "saveBlock" => Unverified \subseteq {c.b} /\ \A a \in Block : a < c.b => a \in kv
    /\ c.do \in {"preloadKV", "saveKV"} => block[c.b] # "absent" /\ StoredUpTo(c.b, 1)
    /\ c.do = "updateVerified" => c.b \in kv /\ StoredUpTo(c.b, 1)
    /\ c.do = "deleteBlocks" => c.set = Unverified
    /\ c.do \in DeleteStatements => \A b \in c.set : block[b] # "verified"

\* What the job has made sure of at its step.
JobRows ==
    /\ step \in {"step1", "step3", "step4", "step6b"} => Unverified = {}
    /\ step = "step0b" /\ call.do \in {"deleteTxs", "deleteCommits"} => Unverified = {}
    /\ step \in InBlockLoop => Unverified \subseteq {job.current}
    /\ step \in {"step6e", "step6f", "step6g", "step6h"} => block[job.current] # "absent"
    /\ step = "step6f" => <<job.current, job.tx>> \in txs
    /\ step \in {"step6e", "step6f"} /\ job.tx > 1 => StoredUpTo(job.current, 1)

RowInv ==
    /\ OneUnverified /\ VerifiedStored /\ JobRows
    /\ RowFits(call) /\ \A n \in DOMAIN late : RowFits(late[n])

\* The copy of the ledger as a reader sees it, the state of Replica.
Status == [b \in Block |-> StatusOf(b)]

-----------------------------------------------------------------------------
(* One statement                                                           *)

\* A block is stored up to its first transaction.
LEMMA StoredFirst ==
    \A b : StoredUpTo(b, 1) <=> <<b, 1>> \in txs /\ (<<b, 1>> \in WithCommit => <<b, 1>> \in commits)
  BY DEF StoredUpTo

\* Nothing is expected of the rows when no call is pending.
LEMMA NoCallRows == RowFits(NoCall) /\ RowFits(NoCall)'
  BY DEF RowFits, NoCall, Call, DeleteStatements

\* What the statement of a call does to each table.
LEMMA ExecuteTables ==
    ASSUME NEW c, Execute(c)
    PROVE  /\ c.do \notin {"saveBlock", "updateVerified", "deleteBlocks"} => block' = block
           /\ c.do = "saveBlock" => SaveBlock(c.b)
           /\ c.do = "updateVerified" => UpdateVerified(c.b)
           /\ c.do = "deleteBlocks" => DeleteBlocks(c.set)
           /\ c.do \notin {"saveTx", "deleteTxs"} => txs' = txs
           /\ c.do = "saveTx" => txs' = txs \cup {<<c.b, c.i>>}
           /\ c.do = "deleteTxs" => txs' = {t \in txs : t[1] # c.b}
           /\ c.do \notin {"saveCommit", "deleteCommits"} => commits' = commits
           /\ c.do = "saveCommit" => commits' = commits \cup {<<c.b, c.i>>}
           /\ c.do = "deleteCommits" => commits' = {t \in commits : t[1] # c.b}
           /\ kv \subseteq kv' \/ c.do = "saveKV"
  BY DEF Execute, tables, SaveBlock, SaveTx, SaveCommit, SaveKV, UpdateVerified,
         DeleteBlocks, DeleteTxs, DeleteCommits

\* A pending call deletes nothing of a verified block.
LEMMA ExecuteKeeps ==
    ASSUME NEW c, Execute(c), RowFits(c), CallOK(c), TypeOKTables,
           NEW b \in Block, block[b] = "verified"
    PROVE  /\ block'[b] = "verified"
           /\ \A t \in txs : t[1] = b => t \in txs'
           /\ \A t \in commits : t[1] = b => t \in commits'
<1>1. block'[b] = "verified"
  <2>1. CASE c.do = "deleteBlocks"
    BY <2>1, ExecuteTables DEF DeleteBlocks, RowFits, Unverified
  <2>2. CASE c.do = "saveBlock"
    BY <2>2, ExecuteTables DEF SaveBlock, TypeOKTables
  <2>3. CASE c.do = "updateVerified"
    BY <2>3, ExecuteTables DEF UpdateVerified, TypeOKTables
  <2>4. QED
    BY <2>1, <2>2, <2>3, ExecuteTables
<1>2. c.do \in DeleteStatements => c.b # b
  BY DEF RowFits, CallOK
<1>3. QED
  BY <1>1, <1>2, ExecuteTables DEF DeleteStatements

\* The list only grows.
LEMMA ExecuteGrows ==
    ASSUME NEW c, Execute(c), CallFits(c, kv)
    PROVE  kv \subseteq kv'
  BY ExecuteKV DEF CallFits

\* A statement keeps what the tables promise of all blocks.
LEMMA ExecuteRows ==
    ASSUME NEW c, Execute(c), RowFits(c), CallFits(c, kv), CallOK(c), TypeOKTables,
           OneUnverified, VerifiedStored
    PROVE  OneUnverified' /\ VerifiedStored'
<1>0. kv \subseteq kv'
  BY ExecuteGrows
<1>1. CASE c.do = "saveBlock"
  <2>1. block' = [block EXCEPT ![c.b] = IF @ = "absent" THEN "unverified" ELSE @] /\ c.b \in Block
    BY <1>1, ExecuteTables DEF SaveBlock, CallOK, CallType
  <2>2. Unverified' \subseteq {c.b}
    BY <1>1, <2>1 DEF RowFits, Unverified, TypeOKTables
  <2>3. OneUnverified'
    BY <1>0, <1>1, <2>2 DEF OneUnverified, RowFits
  <2>4. \A b \in Block : block'[b] = "verified" => block[b] = "verified"
    BY <2>1 DEF TypeOKTables
  <2>5. VerifiedStored'
    BY <1>0, <1>1, <2>4, ExecuteTables, StoredFirst DEF VerifiedStored, StoredUpTo
  <2>6. QED
    BY <2>3, <2>5
<1>2. CASE c.do = "updateVerified"
  <2>1. block' = [block EXCEPT ![c.b] = IF @ = "absent" THEN @ ELSE "verified"] /\ c.b \in Block
    BY <1>2, ExecuteTables DEF UpdateVerified, CallOK, CallType
  <2>2. Unverified' \subseteq Unverified
    BY <2>1 DEF Unverified, TypeOKTables
  <2>3. OneUnverified'
    BY <1>0, <2>2 DEF OneUnverified
  <2>4. \A b \in Block : block'[b] = "verified" => block[b] = "verified" \/ b = c.b
    BY <2>1 DEF TypeOKTables
  <2>5. VerifiedStored'
    BY <1>0, <1>2, <2>4, ExecuteTables DEF VerifiedStored, StoredUpTo, RowFits
  <2>6. QED
    BY <2>3, <2>5
<1>3. CASE c.do = "deleteBlocks"
  <2>1. \A b \in Block : block'[b] \in {block[b], "absent"}
    BY <1>3, ExecuteTables DEF DeleteBlocks
  <2>2. Unverified' = {}
    BY <1>3, ExecuteTables DEF DeleteBlocks, Unverified, RowFits
  <2>3. VerifiedStored'
    BY <1>0, <1>3, <2>1, ExecuteTables DEF VerifiedStored, StoredUpTo
  <2>4. QED
    BY <2>2, <2>3 DEF OneUnverified
<1>4. CASE c.do \notin {"saveBlock", "updateVerified", "deleteBlocks"}
  <2>1. block' = block
    BY <1>4, ExecuteTables
  <2>2. OneUnverified'
    BY <1>0, <2>1 DEF OneUnverified, Unverified
  <2>3. ASSUME NEW b \in Block, block[b] = "verified"
        PROVE  b \in kv' /\ StoredUpTo(b, 1)'
    BY <1>0, <2>3, ExecuteKeeps DEF VerifiedStored, StoredUpTo
  <2>4. QED
    BY <2>1, <2>2, <2>3 DEF VerifiedStored
<1>5. QED
  BY <1>1, <1>2, <1>3, <1>4

\* What is left of the call fits the tables as they then are.
LEMMA AfterRows ==
    ASSUME NEW c, NEW d, d = After(c), Execute(c), RowFits(c), CallFits(c, kv), CallOK(c),
           TypeOKTables
    PROVE  RowFits(d)'
<1>1. CASE c.do = "preloadKV"
  <2>1. d = [c EXCEPT !.do = "saveKV", !.set = kv]
    BY <1>1 DEF After
  <2>2. d.do = "saveKV" /\ d.b = c.b
    BY <2>1 DEF CallOK, CallType
  <2>3. block' = block /\ txs' = txs /\ commits' = commits
    BY <1>1, ExecuteTables
  <2>4. QED
    BY <1>1, <2>2, <2>3 DEF RowFits, StoredUpTo, DeleteStatements
<1>2. CASE c.do = "findRows" /\ Unverified # {}
  <2>1. d = [c EXCEPT !.do = "deleteBlocks", !.set = Unverified, !.b = Min(Unverified)]
    BY <1>2 DEF After
  <2>2. d.do = "deleteBlocks" /\ d.set = Unverified
    BY <2>1 DEF CallOK, CallType
  <2>3. block' = block
    BY <1>2, ExecuteTables
  <2>4. QED
    BY <2>2, <2>3 DEF RowFits, Unverified, DeleteStatements
<1>3. CASE c.do = "deleteBlocks"
  <2>1. d = [c EXCEPT !.do = "deleteTxs"]
    BY <1>3 DEF After
  <2>2. d.do = "deleteTxs" /\ d.set = c.set /\ c.set \subseteq Block
    BY <2>1 DEF CallOK, CallType
  <2>3. \A b \in c.set : block'[b] = "absent"
    BY <1>3, <2>2, ExecuteTables DEF DeleteBlocks
  <2>4. QED
    BY <2>2, <2>3 DEF RowFits, DeleteStatements
<1>4. CASE c.do \in {"deleteTxs", "deleteCommits"} /\ d # NoCall
  <2>1. d.do \in {"deleteTxs", "deleteCommits"} /\ d.set = c.set
    BY <1>4 DEF After, CallOK, CallType
  <2>2. block' = block
    BY <1>4, ExecuteTables
  <2>3. QED
    BY <1>4, <2>1, <2>2 DEF RowFits, DeleteStatements
<1>5. CASE d = NoCall
  BY <1>5, NoCallRows
<1>6. QED
  BY <1>1, <1>2, <1>3, <1>4, <1>5 DEF After

\* What a reader sees of a block, read off its row and the list.
LEMMA StatusIs ==
    ASSUME TypeOKTables, NEW b \in Block
    PROVE  /\ block[b] = "verified" => Status[b] = "copied"
           /\ block[b] = "unverified" => Status[b] = "half"
           /\ block[b] = "absent" /\ b \in kv => Status[b] = "lost"
           /\ block[b] = "absent" /\ b \notin kv => Status[b] = "missing"
           /\ block[b] \in RowState
  BY DEF Status, StatusOf, TypeOKTables

\* The same of the next state.
LEMMA StatusNext ==
    ASSUME TypeOKTables', NEW b \in Block
    PROVE  /\ block'[b] = "verified" => Status'[b] = "copied"
           /\ block'[b] = "unverified" => Status'[b] = "half"
           /\ block'[b] = "absent" /\ b \in kv' => Status'[b] = "lost"
           /\ block'[b] = "absent" /\ b \notin kv' => Status'[b] = "missing"
           /\ block'[b] \in RowState
  BY DEF Status, StatusOf, TypeOKTables

\* The blocks are those of the copy.
LEMMA StatusDomain ==
    /\ Status = [b \in Block |-> Status[b]] /\ Status' = [b \in Block |-> Status'[b]]
    /\ Block = R!Blocks
  BY DEF Status, R!Blocks, Block

\* A statement is a step of the growing copy, or leaves it alone.
LEMMA ExecuteStatus ==
    ASSUME NEW c, Execute(c), RowFits(c), CallFits(c, kv), CallOK(c), TypeOKTables,
           OneUnverified
    PROVE  [R!Next]_Status
<1>0. TypeOKTables'
  BY ExecuteType
<1> USE DEF RowState
\* What a step of the copy at block b, or a step that leaves the copy alone, has to show.
<1>a. ASSUME \A b \in Block : Status'[b] = Status[b]
      PROVE  Status' = Status
  BY <1>a, StatusDomain
<1>b. ASSUME NEW b \in Block, \A a \in Block : a # b => Status'[a] = Status[a]
      PROVE  Status' = [Status EXCEPT ![b] = Status'[b]]
  BY <1>b, StatusDomain
<1>1. CASE c.do = "saveBlock"
  <2>1. /\ block' = [block EXCEPT ![c.b] = IF @ = "absent" THEN "unverified" ELSE @]
        /\ kv' = kv /\ c.b \in Block /\ c.b \notin kv
    BY <1>1, ExecuteTables, ExecuteKV DEF SaveBlock, CallOK, CallType, CallFits
  <2>2. CASE block[c.b] # "absent"
    <3>1. block' = block
      BY <2>1, <2>2 DEF TypeOKTables
    <3>2. Status' = Status
      BY <1>0, <1>a, <2>1, <3>1, StatusIs, StatusNext
    <3>3. QED
      BY <3>2
  <2>3. CASE block[c.b] = "absent"
    <3>1. Status[c.b] = "missing" /\ Status'[c.b] = "half"
      BY <1>0, <2>1, <2>3, StatusIs, StatusNext DEF TypeOKTables
    <3>2. \A a \in Block : a < c.b => Status[a] \in R!Settled
      BY <1>1, <2>1, StatusIs DEF RowFits, Unverified, R!Settled, Block
    <3>3. \A a \in Block : a # c.b => Status'[a] = Status[a]
      BY <1>0, <2>1, StatusIs, StatusNext DEF TypeOKTables
    <3>4. R!Begin(c.b)
      BY <1>b, <2>1, <3>1, <3>2, <3>3, StatusDomain DEF R!Begin, R!Becomes, Status
    <3>5. QED
      BY <2>1, <3>4, StatusDomain DEF R!Next
  <2>4. QED
    BY <2>2, <2>3
<1>2. CASE c.do = "updateVerified"
  <2>1. /\ block' = [block EXCEPT ![c.b] = IF @ = "absent" THEN @ ELSE "verified"]
        /\ kv' = kv /\ c.b \in Block
    BY <1>2, ExecuteTables, ExecuteKV DEF UpdateVerified, CallOK, CallType
  <2>2. CASE block[c.b] # "unverified"
    <3>1. block' = block
      BY <2>1, <2>2 DEF TypeOKTables
    <3>2. Status' = Status
      BY <1>0, <1>a, <2>1, <3>1, StatusIs, StatusNext
    <3>3. QED
      BY <3>2
  <2>3. CASE block[c.b] = "unverified"
    <3>1. Status[c.b] = "half" /\ Status'[c.b] = "copied"
      BY <1>0, <2>1, <2>3, StatusIs, StatusNext DEF TypeOKTables
    <3>2. \A a \in Block : a # c.b => Status'[a] = Status[a]
      BY <1>0, <2>1, StatusIs, StatusNext DEF TypeOKTables
    <3>3. R!Complete(c.b)
      BY <1>b, <2>1, <3>1, <3>2 DEF R!Complete, R!Becomes, Status
    <3>4. QED
      BY <2>1, <3>3, StatusDomain DEF R!Next
  <2>4. QED
    BY <2>2, <2>3
<1>3. CASE c.do = "deleteBlocks"
  <2>1. /\ block' = [b \in Block |-> IF b \in Unverified THEN "absent" ELSE block[b]]
        /\ kv' = kv
    BY <1>3, ExecuteTables, ExecuteKV DEF DeleteBlocks, RowFits
  <2>2. CASE Unverified = {}
    <3>1. block' = block
      BY <2>1, <2>2 DEF TypeOKTables
    <3>2. Status' = Status
      BY <1>0, <1>a, <2>1, <3>1, StatusIs, StatusNext
    <3>3. QED
      BY <3>2
  <2>3. CASE Unverified # {}
    <3>1. PICK b \in Block : Unverified = {b} /\ block[b] = "unverified"
      BY <2>3 DEF OneUnverified, Unverified
    <3>2. Status[b] = "half" /\ Status'[b] \in {"lost", "missing"}
      BY <1>0, <2>1, <3>1, StatusIs, StatusNext
    <3>3. \A a \in Block : a # b => Status'[a] = Status[a]
      BY <1>0, <2>1, <3>1, StatusIs, StatusNext
    <3>4. R!Undo(b) \/ R!Lose(b)
      BY <1>b, <3>2, <3>3 DEF R!Undo, R!Lose, R!Becomes, Status
    <3>5. QED
      BY <3>4, StatusDomain DEF R!Next
  <2>4. QED
    BY <2>2, <2>3
<1>4. CASE c.do = "saveKV"
  <2>1. block' = block /\ kv' = kv \cup {c.b} /\ block[c.b] # "absent"
    BY <1>4, ExecuteTables, ExecuteKV DEF CallFits, RowFits
  <2>2. Status' = Status
    BY <1>0, <1>a, <2>1, StatusIs, StatusNext
  <2>3. QED
    BY <2>2
<1>5. CASE c.do \notin {"saveBlock", "updateVerified", "deleteBlocks", "saveKV"}
  <2>1. block' = block /\ kv' = kv
    BY <1>5, ExecuteTables, ExecuteKV
  <2>2. Status' = Status
    BY <1>0, <1>a, <2>1, StatusIs, StatusNext
  <2>3. QED
    BY <2>2
<1>6. QED
  BY <1>1, <1>2, <1>3, <1>4, <1>5

-----------------------------------------------------------------------------
(* The invariant is inductive.                                             *)

\* A settled job, or none, leaves nothing to say of the rows of its block.
LEMMA IdleRows ==
    ASSUME step' = "idle", call' = NoCall
    PROVE  JobRows' /\ RowFits(call)'
  BY DEF JobRows, RowFits, InBlockLoop, NoCall, Call, DeleteStatements

\* The head of the loop is reached with no block half stored.
LEMMA NextBlockRows ==
    ASSUME NEW j, NEW q, NextBlock(j, q), Unverified' = {}
    PROVE  JobRows' /\ RowFits(call)'
<1>1. CASE Settle("ok", Template)
  BY <1>1, IdleRows DEF Settle
<1>2. CASE step' = "step6b" /\ call' = NoCall
  BY <1>2 DEF JobRows, RowFits, InBlockLoop, NoCall, Call, DeleteStatements
<1>3. QED
  BY <1>1, <1>2 DEF NextBlock, Await

\* Nothing is half stored, nor promised, in the initial states.
LEMMA RowInit == Init => RowInv
<1> SUFFICES ASSUME Init PROVE RowInv
  OBVIOUS
<1>1. Unverified = {} /\ \A b \in Block : block[b] # "verified"
  BY DEF Init, Unverified
<1>2. OneUnverified /\ VerifiedStored /\ JobRows
  BY <1>1 DEF Init, OneUnverified, VerifiedStored, JobRows, InBlockLoop
<1>3. RowFits(call) /\ \A n \in DOMAIN late : RowFits(late[n])
  BY NoCallRows DEF Init
<1>4. QED
  BY <1>2, <1>3 DEF RowInv

\* One step per action; what the action's step of the job relies on is shown
\* before what it leaves to the next one.
LEMMA RowStep ==
    ASSUME ~Overlap
    PROVE  TypeInv /\ KVInv /\ RowInv /\ [Next]_vars => RowInv'
<1> SUFFICES ASSUME TypeInv, KVInv, RowInv, [Next]_vars PROVE RowInv'
  OBVIOUS
<1>0. /\ OneUnverified /\ VerifiedStored /\ JobRows /\ RowFits(call)
      /\ Order /\ CallAtStep /\ Alone /\ CallFits(call, kv)
      /\ CallOK(call) /\ TypeOKTables /\ job \in JobType
  BY DEF RowInv, KVInv, TypeInv, ControlType
<1>t. TypeOKTables'
  BY TypeStep DEF TypeInv
\* The parts about all blocks need nothing of the job.
<1>b. ASSUME Execute(call) \/ UNCHANGED tables
      PROVE  OneUnverified' /\ VerifiedStored'
  <2>1. CASE UNCHANGED tables
    BY <1>0, <2>1 DEF tables, OneUnverified, VerifiedStored, Unverified, StoredUpTo
  <2>2. QED
    BY <1>0, <1>b, <2>1, ExecuteRows
\* Late calls that have ended stay so.
<1>c. ASSUME LateDone, UNCHANGED late
      PROVE  \A n \in DOMAIN late' : RowFits(late[n])'
  BY <1>c DEF LateDone, RowFits, NoCall, Call, DeleteStatements
\* What every step of a running job has in common.
<1>a. ASSUME step # "idle", UNCHANGED late, Execute(call) \/ UNCHANGED tables,
             JobRows' /\ RowFits(call)'
      PROVE  RowInv'
  BY <1>0, <1>a, <1>b, <1>c DEF Alone, RowInv
<1>1. CASE SyncStart
  <2>1. UNCHANGED tables /\ UNCHANGED late /\ LateDone
    BY <1>1 DEF SyncStart, env
  <2>2. JobRows' /\ RowFits(call)'
    BY <1>1 DEF SyncStart, JobRows, RowFits, InBlockLoop, NoCall, Call, DeleteStatements
  <2>3. QED
    BY <1>b, <1>c, <2>1, <2>2 DEF RowInv
<1>2. CASE FindUnverified
  <2>1. JobRows' /\ RowFits(call)'
    BY <1>2 DEF FindUnverified, Await, JobRows, RowFits, InBlockLoop, NoCall, Call,
                DeleteStatements, RemoveUnverifiedBlock, tables, Unverified
  <2>2. QED
    BY <1>2, <2>1, <1>a DEF FindUnverified, env
<1>3. CASE RemoveUnverified
  <2>1. /\ call.do \in {"findRows", "deleteBlocks", "deleteTxs", "deleteCommits"}
        /\ step = "step0b" /\ Execute(call) /\ UNCHANGED late
    BY <1>0, <1>3 DEF RemoveUnverified, CallAtStep, env
  <2>2. JobRows' /\ RowFits(call)'
    <3>1. CASE After(call) # NoCall /\ step' = "step0b" /\ call' = After(call)
      <4>1. RowFits(call)'
        BY <1>0, <2>1, <3>1, AfterRows DEF RowFits
      <4>2. CASE call.do = "findRows"
        <5>1. call' = [call EXCEPT !.do = "deleteBlocks", !.set = Unverified,
                                   !.b = Min(Unverified)]
          BY <3>1, <4>2 DEF After
        <5>2. call'.do = "deleteBlocks"
          BY <1>0, <5>1 DEF CallOK, CallType
        <5>3. QED
          BY <3>1, <4>1, <5>2 DEF JobRows, InBlockLoop
      <4>3. CASE call.do = "deleteBlocks"
        <5>1. Unverified' = {}
          BY <1>0, <2>1, <4>3, ExecuteTables DEF DeleteBlocks, Unverified, RowFits
        <5>2. QED
          BY <3>1, <4>1, <5>1 DEF JobRows, InBlockLoop
      <4>4. CASE call.do \in {"deleteTxs", "deleteCommits"}
        <5>1. Unverified' = {}
          BY <1>0, <2>1, <4>4, ExecuteTables DEF JobRows, Unverified
        <5>2. QED
          BY <3>1, <4>1, <5>1 DEF JobRows, InBlockLoop
      <4>5. QED
        BY <2>1, <4>2, <4>3, <4>4
    <3>2. CASE Failed
      BY <3>2, IdleRows DEF Failed, Settle
    <3>3. CASE After(call) = NoCall /\ call.do # "findRows" /\
                  \/ step' = "step1" /\ call' = NoCall
                  \/ step' = "step0b" /\ call' = RemoveUnverifiedBlock
      <4>1. call.do # "deleteBlocks"
        BY <1>0, <3>3 DEF After, NoCall, Call, CallOK, CallType
      <4>2. Unverified' = {}
        BY <1>0, <2>1, <3>3, <4>1, ExecuteTables DEF JobRows, Unverified
      <4>3. QED
        BY <3>3, <4>2 DEF JobRows, RowFits, InBlockLoop, NoCall, Call, DeleteStatements,
                          RemoveUnverifiedBlock
    <3>4. QED
      BY <1>3, <3>1, <3>2, <3>3 DEF RemoveUnverified, Await
  <2>3. QED
    BY <2>1, <2>2, <1>a
<1>4. CASE QueryChannelHeight
  <2>1. Unverified' = {} /\ UNCHANGED tables
    BY <1>0, <1>4 DEF QueryChannelHeight, JobRows, tables, Unverified
  <2>2. CASE Failed
    BY <1>4, <2>1, <2>2, <1>a, IdleRows DEF QueryChannelHeight, Failed, Settle, env
  <2>3. CASE step' = "step3" /\ call' = NoCall
    <3>1. JobRows' /\ RowFits(call)'
      BY <2>1, <2>3 DEF JobRows, RowFits, InBlockLoop, NoCall, Call, DeleteStatements
    <3>2. QED
      BY <1>4, <2>1, <3>1, <1>a DEF QueryChannelHeight, env
  <2>4. QED
    BY <1>4, <2>2, <2>3 DEF QueryChannelHeight, Await
<1>5. CASE GetBlockHeight
  <2>1. Unverified' = {} /\ UNCHANGED tables /\ step' = "step4" /\ call' = NoCall
    BY <1>0, <1>5 DEF GetBlockHeight, Await, JobRows, tables, Unverified
  <2>2. JobRows' /\ RowFits(call)'
    BY <2>1 DEF JobRows, RowFits, InBlockLoop, NoCall, Call, DeleteStatements
  <2>3. QED
    BY <1>5, <2>1, <2>2, <1>a DEF GetBlockHeight, env
<1>6. CASE FindMissingBlock
  <2>1. Unverified' = {} /\ UNCHANGED tables
    BY <1>0, <1>6 DEF FindMissingBlock, JobRows, tables, Unverified
  <2>2. JobRows' /\ RowFits(call)'
    BY <1>6, <2>1, NextBlockRows DEF FindMissingBlock
  <2>3. QED
    BY <1>6, <2>1, <2>2, <1>a DEF FindMissingBlock, env
<1>7. CASE QueryBlock
  <2>1. /\ step' = "step6d" /\ job' = job /\ call' = InsertBlock(job.current)
        /\ UNCHANGED tables /\ Unverified = {} /\ step = "step6b"
    BY <1>0, <1>7 DEF QueryBlock, Await, JobRows
  <2>2. \A a \in Block : a < job.current => a \in kv
    BY <1>0, <2>1 DEF Order, InBlockLoop, JobType, Block
  <2>3. JobRows' /\ RowFits(call)'
    BY <2>1, <2>2 DEF JobRows, RowFits, InBlockLoop, InsertBlock, Call, DeleteStatements, tables,
                      Unverified
  <2>4. QED
    BY <1>7, <2>1, <2>3, <1>a DEF QueryBlock, env
<1>8. CASE BlockInserted
  <2>1. /\ step' = "step6e" /\ job' = job /\ call' = InsertTransaction(job.current, job.tx)
        /\ SaveBlock(job.current) /\ step = "step6d" /\ job.tx = 1 /\ job.current \in Block
    BY <1>0, <1>8, ExecuteTables
       DEF BlockInserted, Await, CallAtStep, InsertBlock, Call, JobType
  <2>2. block'[job.current] # "absent" /\ Unverified' \subseteq {job.current}
    BY <1>0, <2>1 DEF SaveBlock, JobRows, InBlockLoop, Unverified, TypeOKTables
  <2>3. JobRows' /\ RowFits(call)'
    BY <2>1, <2>2 DEF JobRows, RowFits, InBlockLoop, InsertTransaction, Call, DeleteStatements
  <2>4. QED
    BY <1>8, <2>3, <1>a DEF BlockInserted, env
<1>9. CASE TransactionInserted
  <2>1. /\ step = "step6e" /\ job' = job /\ call = InsertTransaction(job.current, job.tx)
        /\ Execute(call) /\ job.tx \in Nat \ {0} /\ block[job.current] # "absent"
    BY <1>0, <1>9 DEF TransactionInserted, Await, CallAtStep, JobRows, TypeInv, ControlType,
                      InBlockLoop
  <2>2. block' = block /\ commits' = commits /\ txs' = txs \cup {<<job.current, job.tx>>}
    BY <2>1, ExecuteTables DEF InsertTransaction, Call
  <2>3. /\ block'[job.current] # "absent" /\ <<job.current, job.tx>> \in txs'
        /\ Unverified' \subseteq {job.current}
        /\ job.tx > 1 => StoredUpTo(job.current, 1)'
    BY <1>0, <2>1, <2>2, StoredFirst DEF JobRows, InBlockLoop, StoredUpTo, Unverified
  <2>4. CASE step' = "step6f" /\ call' = InsertCommit(job.current, job.tx)
    <3>1. JobRows' /\ RowFits(call)'
      BY <2>1, <2>3, <2>4 DEF JobRows, RowFits, InBlockLoop, InsertCommit, Call, DeleteStatements
    <3>2. QED
      BY <1>9, <3>1, <1>a DEF TransactionInserted, env
  <2>5. CASE ~HasCommit /\ step' = "step6g"
             /\ call' = UpdateInsertedBlockKeyValue(job.current)
    <3>1. StoredUpTo(job.current, 1)'
      BY <2>1, <2>3, <2>5 DEF StoredUpTo, HasCommit
    <3>2. JobRows' /\ RowFits(call)'
      BY <2>1, <2>3, <2>5, <3>1
         DEF JobRows, RowFits, InBlockLoop, UpdateInsertedBlockKeyValue, Call, DeleteStatements
    <3>3. QED
      BY <1>9, <3>2, <1>a DEF TransactionInserted, env
  <2>6. QED
    BY <1>9, <2>4, <2>5 DEF TransactionInserted, Await
<1>10. CASE CommitInserted
  <2>1. /\ step = "step6f" /\ job' = job /\ call = InsertCommit(job.current, job.tx)
        /\ Execute(call) /\ job.tx \in Nat \ {0} /\ block[job.current] # "absent"
        /\ step' = "step6g" /\ call' = UpdateInsertedBlockKeyValue(job.current)
        /\ <<job.current, job.tx>> \in txs
    BY <1>0, <1>10 DEF CommitInserted, Await, CallAtStep, JobRows, TypeInv, ControlType,
                       InBlockLoop
  <2>2. block' = block /\ txs' = txs /\ commits' = commits \cup {<<job.current, job.tx>>}
    BY <2>1, ExecuteTables DEF InsertCommit, Call
  <2>3. StoredUpTo(job.current, 1)'
    BY <1>0, <2>1, <2>2 DEF JobRows, StoredUpTo
  <2>4. block'[job.current] # "absent" /\ Unverified' \subseteq {job.current}
    BY <1>0, <2>1, <2>2 DEF JobRows, InBlockLoop, Unverified
  <2>5. JobRows' /\ RowFits(call)'
    BY <2>1, <2>3, <2>4
       DEF JobRows, RowFits, InBlockLoop, UpdateInsertedBlockKeyValue, Call, DeleteStatements
  <2>6. QED
    BY <1>10, <2>5, <1>a DEF CommitInserted, env
<1>11. CASE KeyValueUpdated
  <2>1. /\ call.do \in {"preloadKV", "saveKV"} /\ call.b = job.current /\ step = "step6g"
        /\ Execute(call) /\ job' = job /\ UNCHANGED late
        /\ block[job.current] # "absent" /\ StoredUpTo(job.current, 1)
    BY <1>0, <1>11 DEF KeyValueUpdated, CallAtStep, Await, RowFits, env
  <2>2. block' = block /\ txs' = txs /\ commits' = commits
    BY <2>1, ExecuteTables
  <2>3. /\ block'[job.current] # "absent" /\ StoredUpTo(job.current, 1)'
        /\ Unverified' \subseteq {job.current}
    BY <1>0, <2>1, <2>2 DEF JobRows, InBlockLoop, StoredUpTo, Unverified
  <2>4. CASE step' = "step6g" /\ call' = After(call)
    <3>1. RowFits(call)'
      BY <1>0, <2>1, <2>4, AfterRows DEF RowFits
    <3>2. JobRows'
      BY <2>1, <2>3, <2>4 DEF JobRows, InBlockLoop
    <3>3. QED
      BY <2>1, <3>1, <3>2, <1>a
  <2>5. CASE After(call) = NoCall /\ step' = "step6h" /\ call' = SetVerified(job.current)
    <3>1. call.do # "preloadKV"
      BY <1>0, <2>5 DEF After, NoCall, Call, CallOK, CallType
    <3>2. job.current \in kv'
      BY <2>1, <3>1, ExecuteKV
    <3>3. JobRows' /\ RowFits(call)'
      BY <2>1, <2>3, <2>5, <3>2 DEF JobRows, RowFits, InBlockLoop, SetVerified, Call, DeleteStatements
    <3>4. QED
      BY <2>1, <3>3, <1>a
  <2>6. QED
    BY <1>11, <2>4, <2>5 DEF KeyValueUpdated, Await
<1>12. CASE Verified
  <2>1. /\ step = "step6h" /\ call = SetVerified(job.current) /\ Execute(call)
        /\ UNCHANGED late /\ job.current \in Block /\ block[job.current] # "absent"
        /\ \A b \in Block : block[b] = "unverified" => b = job.current
    BY <1>0, <1>12 DEF Verified, CallAtStep, JobRows, InBlockLoop, JobType, env, Unverified
  <2>2. UpdateVerified(job.current) /\ StoredUpTo(job.current, 1)
    BY <1>0, <2>1, ExecuteTables DEF SetVerified, Call, RowFits
  <2>3. block'[job.current] = "verified" /\ Unverified' = {}
    BY <1>0, <2>1, <2>2 DEF UpdateVerified, Unverified, TypeOKTables
  <2>4. CASE Await("step6e", [job EXCEPT !.tx = @ + 1],
                   InsertTransaction(job.current, job.tx + 1))
    <3>1. /\ job'.current = job.current /\ step' = "step6e"
          /\ call' = InsertTransaction(job.current, job.tx + 1)
      BY <1>0, <2>4 DEF Await, JobType
    <3>2. StoredUpTo(job.current, 1)'
      BY <2>2, <3>1 DEF UpdateVerified, StoredUpTo
    <3>3. JobRows' /\ RowFits(call)'
      BY <2>3, <3>1, <3>2
         DEF JobRows, RowFits, InBlockLoop, InsertTransaction, Call, DeleteStatements
    <3>4. QED
      BY <2>1, <3>3, <1>a
  <2>5. CASE \E j, q : NextBlock(j, q)
    <3>1. JobRows' /\ RowFits(call)'
      BY <2>3, <2>5, NextBlockRows
    <3>2. QED
      BY <2>1, <3>1, <1>a
  <2>6. QED
    BY <1>12, <2>4, <2>5 DEF Verified
<1>13. CASE CallFails
  <2>1. JobRows' /\ RowFits(call)'
    BY <1>13, IdleRows DEF CallFails, Failed, Settle
  <2>2. QED
    BY <1>13, <2>1, <1>a DEF CallFails
<1>14. CASE TimesOut
  <2>1. JobRows' /\ RowFits(call)' /\ UNCHANGED tables
    BY <1>14, IdleRows DEF TimesOut, Failed, Settle
  <2>2. late' = Append(late, call) /\ late \in Seq(CallType) /\ LateDone
    BY <1>0, <1>14 DEF TimesOut, Alone, TypeInv, EnvType
  <2>3. \A n \in DOMAIN late' : late'[n] = NoCall \/ late'[n] = call
    BY <2>2 DEF LateDone
  <2>4. \A n \in DOMAIN late' : RowFits(late[n])'
    BY <1>0, <2>1, <2>3, NoCallRows DEF RowFits, tables, Unverified, StoredUpTo
  <2>5. QED
    BY <1>b, <2>1, <2>4 DEF RowInv
<1>15. CASE LateStatement
  <2>1. PICK n \in DOMAIN late :
             /\ late[n] # NoCall
             /\ \/ Execute(late[n]) /\ late' = [late EXCEPT ![n] = After(late[n])]
                \/ UNCHANGED tables /\ late' = [late EXCEPT ![n] = NoCall]
    BY <1>15 DEF LateStatement
  <2>2. /\ step = "idle" /\ call = NoCall /\ CallFits(late[n], kv) /\ CallOK(late[n])
        /\ RowFits(late[n])
    BY <1>0, <2>1 DEF RowInv, KVInv, Alone, LateDone, CallAtStep, TypeInv, EnvType
  <2>3. PICK d : RowFits(d)' /\ late' = [late EXCEPT ![n] = d]
    BY <1>0, <2>1, <2>2, AfterRows, NoCallRows
  <2>4. OneUnverified' /\ VerifiedStored'
    BY <1>0, <2>1, <2>2, <1>b, ExecuteRows
  <2>5. JobRows' /\ RowFits(call)'
    BY <1>15, <2>2, IdleRows DEF LateStatement, control
  <2>6. \A m \in DOMAIN late : m # n => late[m] = NoCall
    BY <1>0, <2>1 DEF Alone
  <2>7. \A m \in DOMAIN late' : late'[m] = NoCall \/ late'[m] = d
    BY <2>1, <2>3, <2>6
  <2>8. \A m \in DOMAIN late' : RowFits(late[m])'
    BY <2>3, <2>7, NoCallRows DEF RowFits
  <2>9. QED
    BY <2>4, <2>5, <2>8 DEF RowInv
<1>16. CASE Crash
  <2>1. JobRows' /\ RowFits(call)' /\ UNCHANGED tables
    BY <1>16, IdleRows DEF Crash
  <2>2. \A n \in DOMAIN late' : late'[n] = NoCall
    BY <1>16 DEF Crash
  <2>3. \A n \in DOMAIN late' : RowFits(late[n])'
    BY <2>2, NoCallRows DEF RowFits
  <2>4. QED
    BY <1>b, <2>1, <2>3 DEF RowInv
<1>17. CASE UNCHANGED <<tables, control, late>>
  BY <1>17 DEF tables, control, RowInv, OneUnverified, VerifiedStored, JobRows, RowFits,
               Unverified, StoredUpTo
<1>18. QED
  BY <1>1, <1>2, <1>3, <1>4, <1>5, <1>6, <1>7, <1>8, <1>9, <1>10, <1>11, <1>12, <1>13,
     <1>14, <1>15, <1>16, <1>17 DEF Next, JobStep, NewBlock, vars, env

-----------------------------------------------------------------------------
(* The theorems                                                            *)

\* A step on the tables is the statement of the call that is pending.
LEMMA Statements ==
    ASSUME TypeInv, KVInv, RowInv, [Next]_vars
    PROVE  \/ UNCHANGED tables
           \/ \E c : /\ Execute(c) /\ RowFits(c) /\ CallFits(c, kv) /\ CallOK(c)
                     /\ TypeOKTables /\ OneUnverified
<1>1. UNCHANGED tables \/ Execute(call) \/ \E n \in DOMAIN late : Execute(late[n])
  BY DEF Next, vars, JobStep, SyncStart, FindUnverified, RemoveUnverified,
         QueryChannelHeight, GetBlockHeight, FindMissingBlock, QueryBlock, BlockInserted,
         TransactionInserted, CommitInserted, KeyValueUpdated, Verified, CallFails,
         TimesOut, LateStatement, Crash, NewBlock
<1>2. /\ RowFits(call) /\ CallFits(call, kv) /\ CallOK(call) /\ TypeOKTables /\ OneUnverified
      /\ \A n \in DOMAIN late :
            RowFits(late[n]) /\ CallFits(late[n], kv) /\ CallOK(late[n])
  BY DEF RowInv, KVInv, TypeInv, ControlType, EnvType
<1>3. QED
  BY <1>1, <1>2

\* No step deletes a verified block, or anything stored of it.
Kept == \A b \in Block : block[b] = "verified" =>
          /\ block'[b] = "verified"
          /\ \A t \in txs : t[1] = b => t \in txs'
          /\ \A t \in commits : t[1] = b => t \in commits'

\* Every step keeps what is verified.
LEMMA KeptStep == TypeInv /\ KVInv /\ RowInv /\ [Next]_vars => Kept
<1> SUFFICES ASSUME TypeInv, KVInv, RowInv, [Next]_vars PROVE Kept
  OBVIOUS
<1>1. CASE UNCHANGED tables
  BY <1>1 DEF tables, Kept
<1>2. QED
  BY <1>1, Statements, ExecuteKeeps DEF Kept

\* As long as a late call ends before the next job, a row is marked verified only
\* once its block is in the list and its first transaction is stored, and nothing
\* that fails, times out or crashes afterwards changes that.
THEOREM VerifiedIsStored == ASSUME ~Overlap PROVE Spec => []VerifiedStored
<1>1. TypeInv /\ KVInv /\ [Next]_vars => KVInv'
  BY KVStep
<1>2. TypeInv /\ KVInv /\ RowInv /\ [Next]_vars => RowInv'
  BY RowStep
<1>3. RowInv => VerifiedStored
  BY DEF RowInv
<1>4. QED
  BY <1>1, <1>2, <1>3, TypeInit, TypeStep, KVInit, RowInit, PTL DEF Spec

\* Under the same assumption no step deletes a verified block, or anything stored of it.
THEOREM VerifiedIsKept == ASSUME ~Overlap PROVE Spec => VerifiedKept
<1>1. TypeInv /\ KVInv /\ [Next]_vars => KVInv'
  BY KVStep
<1>2. TypeInv /\ KVInv /\ RowInv /\ [Next]_vars => RowInv'
  BY RowStep
<1>3. TypeInv /\ KVInv /\ RowInv /\ [Next]_vars => [Kept]_vars
  BY KeptStep
<1>4. QED
  BY <1>1, <1>2, <1>3, TypeInit, TypeStep, KVInit, RowInit, PTL DEF Spec, VerifiedKept, Kept

\* Under the same assumption the job implements the growing copy of Replica: whatever
\* fails, times out or crashes, a reader sees the blocks begun in the order of the
\* ledger, one at a time, and none that is copied or lost ever changes again.
THEOREM JobImplementsReplica == ASSUME ~Overlap PROVE Spec => ImplementsReplica
<1>1. TypeInv /\ KVInv /\ [Next]_vars => KVInv'
  BY KVStep
<1>2. TypeInv /\ KVInv /\ RowInv /\ [Next]_vars => RowInv'
  BY RowStep
<1>3. Init => R!Init
  <2> SUFFICES ASSUME Init PROVE R!Init
    OBVIOUS
  <2>1. \A b \in Block : StatusOf(b) = "missing"
    BY DEF Init, StatusOf
  <2>2. QED
    BY <2>1, StatusDomain DEF R!Init
<1>4. TypeInv /\ KVInv /\ RowInv /\ [Next]_vars => [R!Next]_Status
  <2> SUFFICES ASSUME TypeInv, KVInv, RowInv, [Next]_vars PROVE [R!Next]_Status
    OBVIOUS
  <2>1. CASE UNCHANGED tables
    BY <2>1 DEF tables, Status, StatusOf
  <2>2. QED
    BY <2>1, Statements, ExecuteStatus
<1>5. QED
  BY <1>1, <1>2, <1>3, <1>4, TypeInit, TypeStep, KVInit, RowInit, PTL
     DEF Spec, ImplementsReplica, R!Spec, Status

\* What ReplicaProofs shows of every growing copy.
RP == INSTANCE ReplicaProofs WITH
        Last   <- MaxBlock,
        status <- [b \in Block |-> StatusOf(b)]

\* So, under the same assumption, everything below a block that has a row, or is listed,
\* is verified or lost for good.
THEOREM JobCopyGrows == ASSUME ~Overlap PROVE Spec => []R!Growing
<1>1. ImplementsReplica => RP!Spec
  BY DEF ImplementsReplica, R!Spec, RP!Spec, R!Init, RP!Init, R!Next, RP!Next, R!Begin,
         RP!Begin, R!Complete, RP!Complete, R!Undo, RP!Undo, R!Lose, RP!Lose, R!Becomes,
         RP!Becomes, R!Blocks, RP!Blocks, R!Settled, RP!Settled
<1>2. RP!Growing => R!Growing
  BY DEF R!Growing, RP!Growing, R!Blocks, RP!Blocks, R!Settled, RP!Settled
<1>3. RP!Spec => []RP!Growing
  BY RP!CopyGrows
<1>4. QED
  BY <1>1, <1>2, <1>3, JobImplementsReplica, PTL

-----------------------------------------------------------------------------
(* What the job tells: to the write side, in what it counts as completed,  *)
(* in the result of its dispatch and in its record of validation; and,     *)
(* overlap or not, that maxSyncHeight caps what is stored.                 *)

(* The inductive invariant, on top of those of the list and of the rows.   *)

\* Where the job stands in its block: up to which transaction the block is stored,
\* and that nothing from there on has been told to the write side.
Told ==
    /\ step \in InBlockLoop =>
        /\ StoredUpTo(job.current, job.tx - 1)
        /\ job.tx > 1 => block[job.current] = "verified"
        /\ \A i \in Nat : i >= job.tx /\ <<job.current, i>> \in WithCommit =>
               notified[<<job.current, i>>] = 0
    /\ step \in {"step6g", "step6h"} => StoredUpTo(job.current, job.tx)

NoteInv == NotifiedOnce /\ CompletedWhole /\ Told

-----------------------------------------------------------------------------
(* What it rests on                                                        *)

\* A commit belongs to a block.
LEMMA CommitBlock == \A t \in WithCommit : t \in Tx /\ t[1] \in Block /\ t = <<t[1], t[2]>>
  BY CommitAssumption DEF Tx

\* A step that tells nobody anything keeps what was said of those who know.
LEMMA QuietNotified ==
    ASSUME TypeInv, KVInv, RowInv, [Next]_vars, NotifiedOnce, UNCHANGED notified
    PROVE  NotifiedOnce'
  BY KeptStep, CommitBlock DEF NotifiedOnce, Kept

\* Nor does a step unmake a completed block.
LEMMA QuietCompleted ==
    ASSUME TypeInv, KVInv, RowInv, [Next]_vars, CompletedWhole,
           job'.completed \subseteq job.completed
    PROVE  CompletedWhole'
<1> SUFFICES ASSUME NEW b \in job.completed
             PROVE  block'[b] = "verified" /\ StoredUpTo(b, NTx[b])'
  BY DEF CompletedWhole
<1>1. b \in Block /\ block[b] = "verified" /\ StoredUpTo(b, NTx[b])
  BY DEF CompletedWhole, TypeInv, ControlType, JobType
<1>2. QED
  BY <1>1, KeptStep DEF Kept, StoredUpTo

\* At the head of the loop the current block is not listed, so nothing of it is told.
LEMMA HeadTold ==
    ASSUME TypeInv', KVInv', RowInv', NotifiedOnce', step' = "step6b"
    PROVE  Told'
<1>1. /\ job'.tx = 1 /\ job'.current \in Block /\ job'.current \notin kv'
  BY DEF KVInv, CallAtStep, Order, InBlockLoop, TypeInv, ControlType, JobType
<1>2. block'[job'.current] # "verified"
  BY <1>1 DEF RowInv, VerifiedStored
<1>3. \A i : <<job'.current, i>> \in WithCommit => notified'[<<job'.current, i>>] = 0
  <2> SUFFICES ASSUME NEW i, <<job'.current, i>> \in WithCommit
               PROVE  notified'[<<job'.current, i>>] = 0
    OBVIOUS
  <2>1. notified'[<<job'.current, i>>] \in Nat
    BY DEF TypeInv
  <2>2. ~(notified'[<<job'.current, i>>] > 0)
    BY <1>2 DEF NotifiedOnce
  <2>3. QED
    BY <2>1, <2>2
<1>4. QED
  BY <1>1, <1>3 DEF Told, StoredUpTo

\* Outside the loop nothing is said of the block.
LEMMA OutsideTold == ASSUME step' \notin InBlockLoop PROVE Told'
  BY DEF Told, InBlockLoop

\* The invariant holds in the initial states.
LEMMA NoteInit == Init => NoteInv
  BY DEF Init, NoteInv, NotifiedOnce, CompletedWhole, Told, InBlockLoop, Template

\* Storing a transaction, and its commit if it has one, extends what is stored.
LEMMA StoredOneMore ==
    ASSUME NEW b, NEW n \in Nat \ {0}, StoredUpTo(b, n - 1), <<b, n>> \in txs,
           <<b, n>> \in WithCommit => <<b, n>> \in commits
    PROVE  StoredUpTo(b, n)
  BY DEF StoredUpTo

-----------------------------------------------------------------------------
(* The invariant is inductive: only the steps of the loop have more to show *)
(* than that they keep what is verified.                                   *)
LEMMA NoteStep ==
    ASSUME TypeInv, KVInv, RowInv, NoteInv, [Next]_vars, TypeInv', KVInv', RowInv'
    PROVE  NoteInv'
<1>0. NotifiedOnce /\ CompletedWhole /\ Told /\ CallAtStep /\ JobRows /\ TypeOKTables
      /\ job \in JobType /\ (step \in InBlockLoop => job.tx \in Nat \ {0})
  BY DEF NoteInv, KVInv, RowInv, TypeInv, ControlType
\* What a step that tells nobody anything, and completes nothing, has in common.
<1>a. ASSUME UNCHANGED notified, job'.completed \subseteq job.completed,
             step' \in InBlockLoop /\ step' # "step6b" => Told'
      PROVE  NoteInv'
  BY <1>0, <1>a, QuietNotified, QuietCompleted, HeadTold, OutsideTold DEF NoteInv
\* A step that goes from one await of a block to the next and removes nothing.
<1>b. ASSUME step \in InBlockLoop, step' \in InBlockLoop, UNCHANGED <<job, notified>>,
             \/ UNCHANGED block
             \/ job.tx = 1,
             txs \subseteq txs', commits \subseteq commits',
             step' \in {"step6g", "step6h"} => StoredUpTo(job.current, job.tx)'
      PROVE  NoteInv'
  <2>1. StoredUpTo(job.current, job.tx - 1)'
    BY <1>0, <1>b DEF Told, StoredUpTo
  <2>2. job.tx > 1 => block'[job.current] = "verified"
    BY <1>0, <1>b DEF Told
  <2>3. Told'
    BY <1>0, <1>b, <2>1, <2>2 DEF Told
  <2>4. QED
    BY <1>a, <1>b, <2>3
<1>t. Template.completed = {}
  BY DEF Template
<1>1. CASE SyncStart \/ FindUnverified \/ RemoveUnverified \/ QueryChannelHeight \/ GetBlockHeight
  <2>1. UNCHANGED notified /\ step' \notin InBlockLoop
    BY <1>1 DEF SyncStart, FindUnverified, RemoveUnverified, QueryChannelHeight,
                GetBlockHeight, Await, Settle, Failed, InBlockLoop
  <2>2. job'.completed \subseteq job.completed
    BY <1>0, <1>1, <1>t DEF SyncStart, FindUnverified, RemoveUnverified, QueryChannelHeight,
                GetBlockHeight, Await, Settle, Failed, JobType
  <2>3. QED
    BY <1>a, <2>1, <2>2
<1>2. CASE FindMissingBlock
  <2>1. UNCHANGED notified /\ step' \in {"idle", "step6b"}
    BY <1>2 DEF FindMissingBlock, NextBlock, Await, Settle
  <2>2. job'.completed \subseteq job.completed
    BY <1>0, <1>2, <1>t DEF FindMissingBlock, NextBlock, Await, Settle, JobType
  <2>3. QED
    BY <1>a, <2>1, <2>2 DEF InBlockLoop
<1>3. CASE QueryBlock
  BY <1>3, <1>b DEF QueryBlock, Await, tables, InBlockLoop
<1>4. CASE BlockInserted
  <2>1. /\ job.tx = 1 /\ Execute(call) /\ call.do = "saveBlock"
    BY <1>0, <1>4 DEF BlockInserted, CallAtStep, InsertBlock, Call
  <2>2. QED
    BY <1>4, <2>1, <1>b, ExecuteTables DEF BlockInserted, Await, InBlockLoop
<1>5. CASE TransactionInserted
  <2>1. /\ block' = block /\ commits' = commits
        /\ txs' = txs \cup {<<job.current, job.tx>>}
    BY <1>0, <1>5, ExecuteTables
       DEF TransactionInserted, CallAtStep, InsertTransaction, Call
  <2>2. /\ step = "step6e" /\ job' = job /\ notified' = notified
        /\ \/ step' = "step6f"
           \/ step' = "step6g" /\ ~HasCommit
    BY <1>5 DEF TransactionInserted, Await
  <2>3. step' = "step6g" => StoredUpTo(job.current, job.tx)'
    <3>1. StoredUpTo(job.current, job.tx - 1)' /\ <<job.current, job.tx>> \in txs'
      BY <1>0, <2>1, <2>2 DEF Told, StoredUpTo, InBlockLoop
    <3>2. QED
      BY <1>0, <2>2, <3>1 DEF StoredUpTo, HasCommit, InBlockLoop
  <2>4. QED
    BY <2>1, <2>2, <2>3, <1>b DEF InBlockLoop
<1>6. CASE CommitInserted
  <2>1. /\ block' = block /\ txs' = txs
        /\ commits' = commits \cup {<<job.current, job.tx>>}
    BY <1>0, <1>6, ExecuteTables DEF CommitInserted, CallAtStep, InsertCommit, Call
  <2>2. /\ step = "step6f" /\ step' = "step6g" /\ job' = job /\ notified' = notified
    BY <1>6 DEF CommitInserted, Await
  <2>3. StoredUpTo(job.current, job.tx)'
    BY <1>0, <2>1, <2>2 DEF Told, JobRows, StoredUpTo, InBlockLoop
  <2>4. QED
    BY <2>1, <2>2, <2>3, <1>b DEF InBlockLoop
<1>7. CASE KeyValueUpdated
  <2>1. /\ block' = block /\ txs' = txs /\ commits' = commits
        /\ step = "step6g" /\ step' \in {"step6g", "step6h"} /\ job' = job
        /\ notified' = notified
    BY <1>0, <1>7, ExecuteTables DEF KeyValueUpdated, CallAtStep, Await
  <2>2. StoredUpTo(job.current, job.tx)'
    BY <1>0, <2>1 DEF Told, StoredUpTo
  <2>3. QED
    BY <2>1, <2>2, <1>b DEF InBlockLoop
<1>8. CASE Verified
  <2> DEFINE t == <<job.current, job.tx>>
  <2>1. /\ step = "step6h" /\ job.current \in Block /\ block[job.current] # "absent"
        /\ StoredUpTo(job.current, job.tx) /\ job.tx \in Nat \ {0}
        /\ UpdateVerified(job.current)
        /\ \A i \in Nat : i >= job.tx /\ <<job.current, i>> \in WithCommit =>
               notified[<<job.current, i>>] = 0
    BY <1>0, <1>8, ExecuteTables
       DEF Verified, CallAtStep, SetVerified, Call, JobRows, Told, InBlockLoop, JobType
  <2>2. block'[job.current] = "verified" /\ txs' = txs /\ commits' = commits
    BY <1>0, <2>1 DEF UpdateVerified, TypeOKTables
  <2>3. NotifiedOnce'
    <3>1. CASE ~HasCommit
      BY <1>0, <1>8, <3>1, QuietNotified DEF Verified
    <3>2. CASE HasCommit
      <4>1. notified' = [notified EXCEPT ![t] = @ + 1] /\ t \in WithCommit
        BY <1>8, <3>2 DEF Verified, HasCommit
      <4>2. notified[t] = 0 /\ t \in commits
        BY <2>1, <4>1 DEF StoredUpTo
      <4>3. notified'[t] = 1
        BY <4>1, <4>2 DEF TypeInv
      <4>4. \A u \in WithCommit : u # t => notified'[u] = notified[u]
        BY <4>1 DEF TypeInv
      <4>5. \A u \in WithCommit : u \in commits /\ block[u[1]] = "verified" =>
                u \in commits' /\ block'[u[1]] = "verified"
        BY KeptStep, CommitBlock DEF Kept
      <4>6. t[1] = job.current
        OBVIOUS
      <4>7. QED
        BY <1>0, <2>2, <4>2, <4>3, <4>4, <4>5, <4>6 DEF NotifiedOnce
    <3>3. QED
      BY <3>1, <3>2
  <2>4. CASE /\ job.tx < NTx[job.current]
             /\ Await("step6e", [job EXCEPT !.tx = @ + 1],
                      InsertTransaction(job.current, job.tx + 1))
    <3>1. /\ job'.current = job.current /\ job'.tx = job.tx + 1
          /\ job'.completed = job.completed /\ step' = "step6e"
      BY <1>0, <2>4 DEF Await, JobType
    <3>2. StoredUpTo(job.current, job.tx - 1)'
      BY <2>1, <2>2, <3>1 DEF StoredUpTo
    <3>3. \A i \in Nat : i >= job'.tx /\ <<job.current, i>> \in WithCommit =>
              notified'[<<job.current, i>>] = 0
      <4> SUFFICES ASSUME NEW i \in Nat, i >= job.tx + 1, <<job.current, i>> \in WithCommit
                   PROVE  notified'[<<job.current, i>>] = 0
        BY <3>1
      <4>1. <<job.current, i>> # t /\ notified[<<job.current, i>>] = 0
        BY <2>1
      <4>2. notified' = notified \/ notified' = [notified EXCEPT ![t] = @ + 1]
        BY <1>8 DEF Verified
      <4>3. QED
        BY <4>1, <4>2 DEF TypeInv
    <3>4. Told'
      BY <2>1, <2>2, <3>1, <3>2, <3>3 DEF Told
    <3>5. CompletedWhole'
      BY <1>0, <3>1, QuietCompleted
    <3>6. QED
      BY <2>3, <3>4, <3>5 DEF NoteInv
  <2>5. CASE /\ job.tx = NTx[job.current]
             /\ NextBlock([job EXCEPT !.completed = @ \cup {job.current}],
                          job.queued \ {job.current})
    <3>1. step' \in {"idle", "step6b"}
      BY <2>5 DEF NextBlock, Await, Settle
    <3>2. job'.completed \subseteq job.completed \cup {job.current}
      BY <1>0, <1>t, <2>5 DEF NextBlock, Await, Settle, JobType
    <3>3. ASSUME NEW b \in job.completed
          PROVE  block'[b] = "verified" /\ StoredUpTo(b, NTx[b])'
      <4>1. b \in Block /\ block[b] = "verified" /\ StoredUpTo(b, NTx[b])
        BY <1>0 DEF CompletedWhole, JobType
      <4>2. QED
        BY <4>1, KeptStep DEF Kept, StoredUpTo
    <3>4. ASSUME NEW b, b = job.current
          PROVE  block'[b] = "verified" /\ StoredUpTo(b, NTx[b])'
      BY <2>1, <2>2, <2>5, <3>4 DEF StoredUpTo
    <3>5. CompletedWhole'
      BY <3>2, <3>3, <3>4 DEF CompletedWhole
    <3>6. Told'
      BY <2>3, <3>1, HeadTold, OutsideTold DEF InBlockLoop
    <3>7. QED
      BY <2>3, <3>5, <3>6 DEF NoteInv
  <2>6. QED
    BY <1>8, <2>4, <2>5 DEF Verified
<1>9. CASE CallFails \/ TimesOut \/ Crash
  <2>1. UNCHANGED notified /\ step' = "idle"
    BY <1>9 DEF CallFails, TimesOut, Crash, Failed, Settle
  <2>2. job'.completed \subseteq job.completed
    BY <1>9, <1>t DEF CallFails, TimesOut, Crash, Failed, Settle
  <2>3. QED
    BY <1>a, <2>1, <2>2 DEF InBlockLoop
<1>10. CASE LateStatement
  <2>1. step = "idle" \/ LateDone
    BY DEF KVInv, Alone
  <2>2. step = "idle"
    BY <1>10, <2>1 DEF LateStatement, LateDone
  <2>3. UNCHANGED <<step, job, notified>>
    BY <1>10 DEF LateStatement, control
  <2>4. QED
    BY <1>a, <2>2, <2>3 DEF InBlockLoop
<1>11. CASE UNCHANGED <<tables, control, notified>>
  BY <1>0, <1>11 DEF tables, control, NoteInv, NotifiedOnce, CompletedWhole, Told, StoredUpTo
<1>12. QED
  BY <1>1, <1>2, <1>3, <1>4, <1>5, <1>6, <1>7, <1>8, <1>9, <1>10, <1>11
     DEF Next, JobStep, NewBlock, vars

-----------------------------------------------------------------------------
(* The theorems                                                            *)

\* As long as a late call ends before the next job, the write side hears of a commit
\* at most once, and only of a commit that is stored in a verified block.
THEOREM ToldOnce == ASSUME ~Overlap PROVE Spec => []NotifiedOnce
<1>1. TypeInv /\ KVInv /\ [Next]_vars => KVInv'
  BY KVStep
<1>2. TypeInv /\ KVInv /\ RowInv /\ [Next]_vars => RowInv'
  BY RowStep
<1>3. TypeInv /\ KVInv /\ RowInv /\ NoteInv /\ [Next]_vars /\ TypeInv' /\ KVInv' /\ RowInv'
        => NoteInv'
  BY NoteStep
<1>4. NoteInv => NotifiedOnce
  BY DEF NoteInv
<1>5. QED
  BY <1>1, <1>2, <1>3, <1>4, TypeInit, TypeStep, KVInit, RowInit, NoteInit, PTL DEF Spec

\* Under the same assumption a block the running job counts as completed is verified,
\* with all its transactions and their commits.
THEOREM CompletedIsWhole == ASSUME ~Overlap PROVE Spec => []CompletedWhole
<1>1. TypeInv /\ KVInv /\ [Next]_vars => KVInv'
  BY KVStep
<1>2. TypeInv /\ KVInv /\ RowInv /\ [Next]_vars => RowInv'
  BY RowStep
<1>3. TypeInv /\ KVInv /\ RowInv /\ NoteInv /\ [Next]_vars /\ TypeInv' /\ KVInv' /\ RowInv'
        => NoteInv'
  BY NoteStep
<1>4. NoteInv => CompletedWhole
  BY DEF NoteInv
<1>5. QED
  BY <1>1, <1>2, <1>3, <1>4, TypeInit, TypeStep, KVInit, RowInit, NoteInit, PTL DEF Spec

-----------------------------------------------------------------------------
(* What a successful dispatch promises.                                    *)

\* A job succeeds at the head of the loop, when nothing is queued: all of its range
\* is listed then, and no row is unverified.
LEMMA SucceedsStep ==
    ASSUME TypeInv, KVInv, RowInv, [Next]_vars, TypeInv'
    PROVE  Succeeds => \A b \in 0 .. job.hFabric : block'[b] = "verified" \/ b \in Lost'
<1> SUFFICES ASSUME Succeeds, NEW b \in 0 .. job.hFabric
             PROVE  block'[b] = "verified" \/ b \in Lost'
  OBVIOUS
<1>0. /\ JobRows /\ Order /\ CallAtStep /\ TypeOKTables /\ TypeOKTables' /\ RowFits(call)
      /\ job \in JobType /\ b \in Block
  BY LedgerAssumption DEF RowInv, KVInv, TypeInv, ControlType, JobType, Block
\* Listed, with no row unverified: nothing else is left for b.
<1>a. ASSUME b \in kv', Unverified' = {}
      PROVE  block'[b] = "verified" \/ b \in Lost'
  BY <1>0, <1>a DEF Lost, Unverified, TypeOKTables, RowState
<1>1. CASE FindMissingBlock
  <2>1. MissingUpTo(job.hFabric) = {} /\ UNCHANGED tables /\ step = "step4"
    BY <1>1 DEF FindMissingBlock, NextBlock, Await, Settle, Succeeds
  <2>2. b \in kv' /\ Unverified' = {}
    BY <1>0, <2>1 DEF MissingUpTo, JobRows, tables, Unverified
  <2>3. QED
    BY <1>a, <2>2
<1>2. CASE Verified
  <2>1. /\ job.queued \ {job.current} = {} /\ step = "step6h"
        /\ call = SetVerified(job.current) /\ Execute(call)
    BY <1>0, <1>2 DEF Verified, NextBlock, Await, Settle, Succeeds, CallAtStep
  <2>2. UpdateVerified(job.current) /\ job.current \in kv /\ kv' = kv
    BY <1>0, <2>1, ExecuteTables, ExecuteKV DEF SetVerified, Call, RowFits
  <2>3. b \in kv'
    BY <1>0, <2>1, <2>2 DEF Order, InBlockLoop
  <2>4. Unverified' = {}
    BY <1>0, <2>1, <2>2 DEF UpdateVerified, JobRows, InBlockLoop, Unverified, TypeOKTables,
                            JobType
  <2>5. QED
    BY <1>a, <2>3, <2>4
<1>3. ~FindMissingBlock /\ ~Verified => ~Succeeds
  BY DEF Succeeds, Next, vars, JobStep, SyncStart, FindUnverified, RemoveUnverified,
         QueryChannelHeight, GetBlockHeight, QueryBlock, BlockInserted,
         TransactionInserted, CommitInserted, KeyValueUpdated, CallFails, TimesOut,
         LateStatement, Crash, NewBlock, Await, Settle, Failed, control
<1>4. QED
  BY <1>1, <1>2, <1>3

\* As long as a late call ends before the next job, a job that succeeds leaves every
\* block of its range verified, or lost by an earlier job.
THEOREM OkIsAccounted == ASSUME ~Overlap PROVE Spec => OkAccounted
<1> DEFINE Accounted ==
             Succeeds => \A b \in 0 .. job.hFabric : block'[b] = "verified" \/ b \in Lost'
<1>1. TypeInv /\ KVInv /\ [Next]_vars => KVInv'
  BY KVStep
<1>2. TypeInv /\ KVInv /\ RowInv /\ [Next]_vars => RowInv'
  BY RowStep
<1>3. TypeInv /\ KVInv /\ RowInv /\ [Next]_vars /\ TypeInv' => [Accounted]_vars
  BY SucceedsStep
<1>4. QED
  BY <1>1, <1>2, <1>3, TypeInit, TypeStep, KVInit, RowInit, PTL DEF Spec, OkAccounted

-----------------------------------------------------------------------------
(* The height of the job.  Nothing here needs the late calls to have ended. *)

\* A pending call stores no block above t.
CallBelow(c, t) ==
    /\ c.do \in {"saveBlock", "preloadKV", "saveKV"} => c.b <= t
    /\ c.do = "saveKV" => \A b \in c.set : b <= t

\* Nothing is, or is going to be, stored above t.
Below(t) ==
    /\ \A b \in Present \cup kv : b <= t
    /\ step \in {"step3", "step4"} \cup InBlockLoop => job.hFabric <= t
    /\ step \in InBlockLoop =>
           job.current <= t /\ \A b \in job.queued : b <= t
    /\ CallBelow(call, t) /\ \A n \in DOMAIN late : CallBelow(late[n], t)

\* Nothing is promised of the height when no call is pending.
LEMMA NoCallBelow == \A t : CallBelow(NoCall, t)
  BY DEF CallBelow, NoCall, Call

\* The target is a height, and only grows.
LEMMA TargetGrows ==
    ASSUME TypeInv, [Next]_vars
    PROVE  Target \in Nat /\ Target' \in Nat /\ Target <= Target'
<1>1. height \in Nat /\ height' \in Nat /\ height <= height' /\ MaxSyncHeight \in Nat
  BY BoundsAssumption
     DEF TypeInv, EnvType, Block, Next, vars, env, JobStep, SyncStart, FindUnverified,
         RemoveUnverified, QueryChannelHeight, GetBlockHeight, FindMissingBlock, QueryBlock,
         BlockInserted, TransactionInserted, CommitInserted, KeyValueUpdated, Verified,
         CallFails, TimesOut, LateStatement, Crash, NewBlock
<1>2. QED
  BY <1>1 DEF Target

\* The statement of a pending call stores nothing above t,
LEMMA ExecuteBelow ==
    ASSUME NEW t \in Nat, NEW c, CallBelow(c, t), CallOK(c), Execute(c), TypeOKTables,
           \A b \in Present \cup kv : b <= t
    PROVE  \A b \in (Present \cup kv)' : b <= t
<1>1. \A b \in kv' : b <= t
  BY ExecuteKV DEF CallBelow
<1>2. \A b \in Present' : b \in Present \/ (c.do = "saveBlock" /\ b = c.b)
  <2>1. CASE c.do = "saveBlock"
    BY <2>1, ExecuteTables DEF SaveBlock, Present, TypeOKTables, CallOK, CallType
  <2>2. CASE c.do = "updateVerified"
    BY <2>2, ExecuteTables DEF UpdateVerified, Present, TypeOKTables, CallOK, CallType
  <2>3. CASE c.do = "deleteBlocks"
    BY <2>3, ExecuteTables DEF DeleteBlocks, Present
  <2>4. QED
    BY <2>1, <2>2, <2>3, ExecuteTables DEF Present
<1>3. QED
  BY <1>1, <1>2 DEF CallBelow

\* nor does what is left of it.
LEMMA AfterBelow ==
    ASSUME NEW t \in Nat, NEW c, CallBelow(c, t), CallOK(c), \A b \in kv : b <= t
    PROVE  CallBelow(After(c), t)
<1>1. CASE c.do = "preloadKV"
  <2>1. After(c) = [c EXCEPT !.do = "saveKV", !.set = kv]
    BY <1>1 DEF After
  <2>2. After(c).do = "saveKV" /\ After(c).set = kv /\ After(c).b = c.b
    BY <2>1 DEF CallOK, CallType
  <2>3. QED
    BY <1>1, <2>2 DEF CallBelow
<1>2. CASE c.do # "preloadKV"
  <2>1. After(c) = NoCall \/ After(c).do \in DeleteStatements
    BY <1>2 DEF After, CallOK, CallType, DeleteStatements
  <2>2. QED
    BY <2>1, NoCallBelow DEF CallBelow, DeleteStatements
<1>3. QED
  BY <1>1, <1>2

\* In the next state, what is below t is below any later target.
LEMMA BelowGrows ==
    ASSUME NEW t \in Nat, NEW u \in Nat, t <= u, TypeInv', Below(t)'
    PROVE  Below(u)'
<1>1. \A c : CallBelow(c, t) /\ CallOK(c) => CallBelow(c, u)
  BY DEF CallBelow, CallOK, CallType, Block
<1>2. \A b \in Block : b <= t => b <= u
  BY DEF Block
<1>3. QED
  BY <1>1, <1>2 DEF Below, TypeInv, ControlType, EnvType, JobType, TypeOKTables, Present,
                    CallBelow, CallOK, CallType

\* At the start everything is below.
LEMMA BelowInit == Init => Below(Target)
  BY NoCallBelow DEF Init, Below, Present, InBlockLoop

\* The head of the loop queues blocks of the range only.
LEMMA NextBlockBelow ==
    ASSUME NEW t \in Nat, NEW j \in JobType, NEW q \in SUBSET Block, NextBlock(j, q),
           j.hFabric <= t, \A b \in q : b <= t
    PROVE  /\ step' \in {"step3", "step4"} \cup InBlockLoop => job'.hFabric <= t
           /\ step' \in InBlockLoop => job'.current <= t /\ \A b \in job'.queued : b <= t
           /\ CallBelow(call', t)
<1>1. CASE Settle("ok", Template)
  BY <1>1, NoCallBelow DEF Settle, InBlockLoop
<1>2. CASE q # {} /\ Await("step6b", [j EXCEPT !.queued = q, !.current = First(q), !.tx = 1], NoCall)
  <2>1. First(q) \in q
    BY <1>2, MinProp DEF First, Block
  <2>2. job'.hFabric = j.hFabric /\ job'.queued = q /\ job'.current = First(q)
    BY <1>2 DEF Await, JobType
  <2>3. QED
    BY <1>2, <2>1, <2>2, NoCallBelow DEF Await
<1>3. QED
  BY <1>1, <1>2 DEF NextBlock

\* One step per action, t being the target before the step.
LEMMA BelowStep ==
    ASSUME NEW t \in Nat, t = Target, TypeInv, Below(t), [Next]_vars
    PROVE  Below(t)'
<1>0. /\ \A b \in Present \cup kv : b <= t
      /\ CallBelow(call, t) /\ CallOK(call) /\ TypeOKTables /\ job \in JobType
  BY DEF Below, TypeInv, ControlType
\* The tables, and the late calls when they do not change.
<1>b. ASSUME Execute(call) \/ UNCHANGED tables
      PROVE  (\A b \in Present \cup kv : b <= t)'
  <2>1. CASE UNCHANGED tables
    BY <1>0, <2>1 DEF tables, Present
  <2>2. QED
    BY <1>0, <1>b, <2>1, ExecuteBelow
<1>a. ASSUME UNCHANGED late, Execute(call) \/ UNCHANGED tables,
             /\ step' \in {"step3", "step4"} \cup InBlockLoop => job'.hFabric <= t
             /\ step' \in InBlockLoop => job'.current <= t /\ \A b \in job'.queued : b <= t
             /\ CallBelow(call', t)
      PROVE  Below(t)'
  BY <1>a, <1>b DEF Below, CallBelow
\* A step of the loop that stays in the block.
<1>c. ASSUME step \in InBlockLoop, UNCHANGED <<job, late>>, Execute(call) \/ UNCHANGED tables,
             CallBelow(call', t)
      PROVE  Below(t)'
  BY <1>a, <1>c DEF Below
<1>1. CASE SyncStart
  BY <1>1, <1>a, NoCallBelow DEF SyncStart, env, InBlockLoop
<1>2. CASE FindUnverified
  BY <1>2, <1>a
     DEF FindUnverified, Await, env, InBlockLoop, CallBelow, NoCall, Call,
         RemoveUnverifiedBlock
<1>3. CASE RemoveUnverified
  <2>1. CallBelow(After(call), t) /\ CallBelow(NoCall, t) /\ CallBelow(RemoveUnverifiedBlock, t)
    BY <1>0, AfterBelow, NoCallBelow DEF CallBelow, RemoveUnverifiedBlock, Call
  <2>2. step' \in {"idle", "step0b", "step1"} /\ CallBelow(call', t)
    BY <1>3, <2>1 DEF RemoveUnverified, Await, Failed, Settle
  <2>3. QED
    BY <1>3, <2>2, <1>a DEF RemoveUnverified, env, InBlockLoop
<1>4. CASE QueryChannelHeight
  <2>1. \/ step' = "idle" /\ call' = NoCall
        \/ step' = "step3" /\ job'.hFabric = t /\ call' = NoCall
    BY <1>0, <1>4 DEF QueryChannelHeight, Await, Failed, Settle, JobType
  <2>2. QED
    BY <1>4, <2>1, <1>a, NoCallBelow DEF QueryChannelHeight, env, InBlockLoop
<1>5. CASE GetBlockHeight
  <2>1. step' = "step4" /\ job'.hFabric = job.hFabric /\ call' = NoCall /\ step = "step3"
    BY <1>0, <1>5 DEF GetBlockHeight, Await, JobType
  <2>2. QED
    BY <1>5, <2>1, <1>a, NoCallBelow DEF GetBlockHeight, InBlockLoop, Below, env
<1>6. CASE FindMissingBlock
  <2> DEFINE found == MissingUpTo(job.hFabric)
             j == [job EXCEPT !.missing = found, !.validated = (found = Derived)]
  <2>1. job.hFabric <= t /\ job.hFabric \in Block
    BY <1>0, <1>6 DEF FindMissingBlock, Below, JobType
  <2>2. found \in SUBSET Block /\ \A b \in found : b <= t
    BY <2>1, LedgerAssumption DEF MissingUpTo, Block
  <2>3. (found = Derived) \in BOOLEAN
    OBVIOUS
  <2>4. j \in JobType /\ j.hFabric = job.hFabric
    BY <1>0, <2>2, <2>3, Zenon DEF JobType
  <2>5. NextBlock(j, found)
    BY <1>6 DEF FindMissingBlock
  <2> HIDE DEF found, j
  <2>6. QED
    BY <1>6, <2>1, <2>2, <2>4, <2>5, <1>a, NextBlockBelow DEF FindMissingBlock, env
<1>7. CASE QueryBlock
  <2>1. CallBelow(call', t)
    BY <1>7 DEF QueryBlock, Await, InsertBlock, Call, CallBelow, Below, InBlockLoop
  <2>2. QED
    BY <1>7, <2>1, <1>c DEF QueryBlock, Await, env, InBlockLoop
<1>8. CASE BlockInserted
  <2>1. CallBelow(call', t)
    BY <1>8 DEF BlockInserted, Await, InsertTransaction, Call, CallBelow
  <2>2. QED
    BY <1>8, <2>1, <1>c DEF BlockInserted, Await, env, InBlockLoop
<1>9. CASE TransactionInserted
  <2>1. CallBelow(call', t)
    BY <1>9 DEF TransactionInserted, Await, InsertCommit, UpdateInsertedBlockKeyValue, Call,
                CallBelow, Below, InBlockLoop
  <2>2. QED
    BY <1>9, <2>1, <1>c DEF TransactionInserted, Await, env, InBlockLoop
<1>10. CASE CommitInserted
  <2>1. CallBelow(call', t)
    BY <1>10 DEF CommitInserted, Await, UpdateInsertedBlockKeyValue, Call, CallBelow, Below,
                 InBlockLoop
  <2>2. QED
    BY <1>10, <2>1, <1>c DEF CommitInserted, Await, env, InBlockLoop
<1>11. CASE KeyValueUpdated
  <2>1. CallBelow(After(call), t)
    BY <1>0, AfterBelow
  <2>2. CallBelow(call', t)
    BY <1>11, <2>1 DEF KeyValueUpdated, Await, SetVerified, Call, CallBelow
  <2>3. QED
    BY <1>11, <2>2, <1>c DEF KeyValueUpdated, Await, env, InBlockLoop
<1>12. CASE Verified
  <2>1. /\ job.hFabric <= t /\ job.current <= t /\ \A b \in job.queued : b <= t
        /\ Execute(call) /\ UNCHANGED late
    BY <1>12 DEF Verified, Below, InBlockLoop, env
  <2>2. CASE Await("step6e", [job EXCEPT !.tx = @ + 1],
                   InsertTransaction(job.current, job.tx + 1))
    <3>1. /\ job'.current = job.current /\ job'.queued = job.queued
          /\ job'.hFabric = job.hFabric
      BY <1>0, <2>2 DEF Await, JobType
    <3>2. CallBelow(call', t)
      BY <2>2 DEF Await, InsertTransaction, Call, CallBelow
    <3>3. QED
      BY <2>1, <3>1, <3>2, <1>a
  <2>3. CASE NextBlock([job EXCEPT !.completed = @ \cup {job.current}],
                       job.queued \ {job.current})
    <3> DEFINE j == [job EXCEPT !.completed = @ \cup {job.current}]
               q == job.queued \ {job.current}
    <3>1. j \in JobType /\ j.hFabric = job.hFabric /\ q \in SUBSET Block
      BY <1>0 DEF JobType
    <3>2. \A b \in q : b <= t
      BY <2>1
    <3>3. NextBlock(j, q)
      BY <2>3
    <3> HIDE DEF j, q
    <3>4. QED
      BY <2>1, <3>1, <3>2, <3>3, <1>a, NextBlockBelow
  <2>4. QED
    BY <1>12, <2>2, <2>3 DEF Verified
<1>13. CASE CallFails
  BY <1>13, <1>a, NoCallBelow DEF CallFails, Failed, Settle, InBlockLoop
<1>14. CASE TimesOut
  <2>1. step' = "idle" /\ call' = NoCall /\ UNCHANGED tables /\ late' = Append(late, call)
    BY <1>14 DEF TimesOut, Failed, Settle
  <2>2. late \in Seq(CallType)
    BY DEF TypeInv, EnvType
  <2>3. \A n \in DOMAIN late' : (n \in DOMAIN late /\ late'[n] = late[n]) \/ late'[n] = call
    BY <2>1, <2>2
  <2>4. \A n \in DOMAIN late' : CallBelow(late'[n], t)
    BY <1>0, <2>3 DEF Below
  <2>5. QED
    BY <1>b, <2>1, <2>4, NoCallBelow DEF Below, InBlockLoop
<1>15. CASE LateStatement
  <2>1. PICK n \in DOMAIN late :
             \/ Execute(late[n]) /\ late' = [late EXCEPT ![n] = After(late[n])]
             \/ UNCHANGED tables /\ late' = [late EXCEPT ![n] = NoCall]
    BY <1>15 DEF LateStatement
  <2>2. CallBelow(late[n], t) /\ CallOK(late[n])
    BY DEF Below, TypeInv, EnvType
  <2>3. (\A b \in Present \cup kv : b <= t)'
    <3>1. CASE UNCHANGED tables
      BY <3>1, <1>b
    <3>2. QED
      BY <1>0, <2>1, <2>2, <3>1, ExecuteBelow
  <2>4. PICK d : CallBelow(d, t) /\ late' = [late EXCEPT ![n] = d]
    BY <1>0, <2>1, <2>2, AfterBelow, NoCallBelow
  <2>5. \A m \in DOMAIN late' : m \in DOMAIN late /\ (late'[m] = late[m] \/ late'[m] = d)
    BY <2>4
  <2>6. \A m \in DOMAIN late' : CallBelow(late'[m], t)
    BY <2>4, <2>5 DEF Below
  <2>7. UNCHANGED <<step, job, call>>
    BY <1>15 DEF LateStatement, control
  <2>8. QED
    BY <2>3, <2>6, <2>7 DEF Below
<1>16. CASE Crash
  <2>1. /\ step' = "idle" /\ call' = NoCall /\ UNCHANGED tables
        /\ \A n \in DOMAIN late' : late'[n] = NoCall
    BY <1>16 DEF Crash
  <2>2. QED
    BY <1>b, <2>1, NoCallBelow DEF Below, InBlockLoop
<1>17. CASE UNCHANGED <<tables, control, late>>
  BY <1>17 DEF tables, control, Below, CallBelow, Present
<1>18. QED
  BY <1>1, <1>2, <1>3, <1>4, <1>5, <1>6, <1>7, <1>8, <1>9, <1>10, <1>11, <1>12, <1>13,
     <1>14, <1>15, <1>16, <1>17 DEF Next, JobStep, NewBlock, vars, env

\* The same against the target of the next state.
LEMMA BelowTargetStep == TypeInv /\ Below(Target) /\ [Next]_vars /\ TypeInv' => Below(Target)'
<1> SUFFICES ASSUME TypeInv, Below(Target), [Next]_vars, TypeInv'
             PROVE  Below(Target)'
  OBVIOUS
<1> DEFINE t == Target
<1>1. t \in Nat /\ t <= Target' /\ Target' \in Nat
  BY TargetGrows
<1>2. PICK u \in Nat : u = Target
  BY <1>1
<1>3. Below(u)'
  BY <1>2, BelowStep
<1>4. PICK v \in Nat : v = Target'
  BY <1>1
<1>5. Below(v)'
  BY <1>1, <1>2, <1>3, <1>4, BelowGrows
<1>6. QED
  BY <1>4, <1>5 DEF Below, CallBelow

\* What is below the target is below the cap.
LEMMA BelowCap == TypeInv /\ Below(Target) => CapKept
<1> SUFFICES ASSUME TypeInv, Below(Target), MaxSyncHeight # 0,
                    NEW b \in Present \cup kv
             PROVE  b \in 0 .. MaxSyncHeight
  BY DEF CapKept
<1>1. b \in Nat /\ b <= Target
  BY DEF TypeInv, TypeOKTables, Present, Block, Below
<1>2. Target <= MaxSyncHeight /\ Target \in Nat /\ MaxSyncHeight \in Nat
  BY BoundsAssumption DEF Target, TypeInv, EnvType, Block
<1>3. QED
  BY <1>1, <1>2

\* No block above maxSyncHeight is ever stored or listed, whatever fails, times out or
\* crashes, and even when late calls overlap with later jobs.
THEOREM CapIsKept == Spec => []CapKept
  BY TypeInit, TypeStep, BelowInit, BelowTargetStep, BelowCap, PTL DEF Spec

-----------------------------------------------------------------------------
(* What the validation of step 5 shows.                                    *)

\* Before step 4 nothing is validated; after step 1 nothing is listed above the height
\* the job has read.
Reading ==
    /\ step \in {"step0a", "step0b", "step1", "step3", "step4"} => ~job.validated
    /\ step \in {"step3", "step4"} => \A b \in kv : b <= job.hFabric

\* While the job reads, no call is late, so the list does not change.
LEMMA ReadingStep ==
    ASSUME TypeInv, KVInv, Below(Target), Reading, [Next]_vars
    PROVE  Reading'
<1>0. job \in JobType /\ Template.validated = FALSE
  BY DEF TypeInv, ControlType, Template
<1> USE DEF Reading
<1>1. CASE SyncStart
  BY <1>0, <1>1 DEF SyncStart
<1>2. CASE FindUnverified \/ RemoveUnverified
  <2>1. step \in {"step0a", "step0b"} /\ step' \in {"step0b", "step1", "idle"}
    BY <1>2 DEF FindUnverified, RemoveUnverified, Await, Failed, Settle
  <2>2. job'.validated = job.validated
    BY <1>0, <1>2 DEF FindUnverified, RemoveUnverified, Await, Failed, Settle, JobType
  <2>3. QED
    BY <2>1, <2>2
<1>3. CASE QueryChannelHeight
  <2>1. \/ step' = "idle"
        \/ /\ step' = "step3" /\ job'.hFabric = Target
           /\ job'.validated = job.validated /\ kv' = kv
    BY <1>0, <1>3 DEF QueryChannelHeight, Await, Failed, Settle, JobType, tables
  <2>2. QED
    BY <1>3, <2>1 DEF QueryChannelHeight, Below
<1>4. CASE GetBlockHeight
  <2>1. /\ step = "step3" /\ step' = "step4" /\ job'.hFabric = job.hFabric
        /\ job'.validated = job.validated /\ kv' = kv
    BY <1>0, <1>4 DEF GetBlockHeight, Await, JobType, tables
  <2>2. QED
    BY <2>1
<1>5. CASE FindMissingBlock \/ QueryBlock \/ BlockInserted \/ TransactionInserted
           \/ CommitInserted \/ KeyValueUpdated \/ Verified
  <2>1. step' \in {"idle"} \cup InBlockLoop
    BY <1>5 DEF FindMissingBlock, QueryBlock, BlockInserted, TransactionInserted,
                CommitInserted, KeyValueUpdated, Verified, NextBlock, Await, Settle,
                InBlockLoop
  <2>2. QED
    BY <2>1 DEF InBlockLoop
<1>6. CASE CallFails \/ TimesOut \/ Crash
  BY <1>6 DEF CallFails, TimesOut, Crash, Failed, Settle
<1>7. CASE LateStatement
  <2>1. step = "idle" /\ step' = step
    BY <1>7 DEF KVInv, Alone, LateDone, LateStatement, control
  <2>2. QED
    BY <2>1
<1>8. CASE UNCHANGED <<tables, control>>
  BY <1>8 DEF tables, control
<1>9. QED
  BY <1>1, <1>2, <1>3, <1>4, <1>5, <1>6, <1>7, <1>8 DEF Next, JobStep, NewBlock, vars

\* A job whose missing blocks are the derived ones has no lost block among them.
LEMMA ValidatedStep ==
    ASSUME TypeInv, KVInv, Reading, [Next]_vars
    PROVE  step = "step4" /\ step' # "step4" /\ job'.validated =>
             \A b \in Lost : b < job.hQuery
<1> SUFFICES ASSUME step = "step4", step' # "step4", job'.validated,
                    NEW b \in Lost
             PROVE  b < job.hQuery
  OBVIOUS
<1>0. job \in JobType /\ kv \subseteq Block /\ Template.validated = FALSE
  BY DEF TypeInv, ControlType, TypeOKTables, Template
<1>1. FindMissingBlock
  BY <1>0 DEF Reading, Next, vars, JobStep, SyncStart, FindUnverified, RemoveUnverified,
         QueryChannelHeight, GetBlockHeight, QueryBlock, BlockInserted,
         TransactionInserted, CommitInserted, KeyValueUpdated, Verified, CallFails,
         TimesOut, LateStatement, Crash, NewBlock, Settle, Failed, control
<1>2. MissingUpTo(job.hFabric) = Derived
  <2> DEFINE found == MissingUpTo(job.hFabric)
             j == [job EXCEPT !.missing = found, !.validated = (found = Derived)]
  <2>1. NextBlock(j, found)
    BY <1>1 DEF FindMissingBlock
  <2>2. job'.validated = j.validated
    <3>a. found \in SUBSET Block /\ (found = Derived) \in BOOLEAN
      BY <1>0, LedgerAssumption DEF MissingUpTo, JobType, Block
    <3>b. j \in JobType
      BY <1>0, <3>a, Zenon DEF JobType
    <3> HIDE DEF j, found
    <3>1. job' # Template
      BY <1>0
    <3>2. job' = [j EXCEPT !.queued = found, !.current = First(found), !.tx = 1]
      BY <2>1, <3>1 DEF NextBlock, Settle, Await
    <3>3. QED
      BY <3>b, <3>2 DEF JobType
  <2>3. j.validated = (found = Derived)
    BY <1>0 DEF JobType
  <2>4. QED
    BY <2>2, <2>3
<1>3. b \in kv /\ b <= job.hFabric /\ b \in Block
  BY <1>0 DEF Lost, Reading
<1>4. b \notin Derived
  BY <1>2, <1>3 DEF MissingUpTo
<1>5. QED
  BY <1>0, <1>3, <1>4 DEF Derived, JobType, Block

\* As long as a late call ends before the next job, step 5 validates only when no lost
\* block is at or above the height the tables show: when the block above the verified
\* ones is lost, the job's record tells.
THEOREM LossIsShown == ASSUME ~Overlap PROVE Spec => LossShows
<1> DEFINE Shown == step = "step4" /\ step' # "step4" /\ job'.validated =>
                      \A b \in Lost : b < job.hQuery
<1>1. TypeInv /\ KVInv /\ [Next]_vars => KVInv'
  BY KVStep
<1>2. Init => Reading
  BY DEF Init, Reading
<1>3. TypeInv /\ KVInv /\ Below(Target) /\ Reading /\ [Next]_vars => Reading'
  BY ReadingStep
<1>4. TypeInv /\ KVInv /\ Reading /\ [Next]_vars => [Shown]_vars
  BY ValidatedStep
<1>5. QED
  BY <1>1, <1>2, <1>3, <1>4, TypeInit, TypeStep, KVInit, BelowInit, BelowTargetStep, PTL
     DEF Spec, LossShows


=============================================================================
