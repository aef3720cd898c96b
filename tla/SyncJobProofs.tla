--------------------------- MODULE SyncJobProofs ---------------------------
(* Theorems about SyncJob, for every ledger, every cap and every bound.     *)
EXTENDS SyncJob, SequenceTheorems, WellFoundedInduction, TLAPS

-----------------------------------------------------------------------------
(* The community modules' Min and Max on sets of block numbers             *)

\* The least-number principle, for a set.
LEMMA LeastNatural ==
    ASSUME NEW S \in SUBSET Nat, S # {}
    PROVE  \E n \in S : \A m \in S : n <= m
<1> DEFINE R == OpToRel(<, Nat)
<1>1. PICK n \in S : \A m \in S : <<m, n>> \notin R
  BY NatLessThanWellFounded, WFMin, Zenon
<1>2. \A m \in S : ~(m < n)
  BY <1>1 DEF OpToRel
<1>3. QED
  BY <1>2

\* Min chooses the least element.
LEMMA MinProp ==
    ASSUME NEW S \in SUBSET Nat, S # {}
    PROVE  Min(S) \in S /\ \A x \in S : Min(S) <= x
<1>1. PICK n \in S : \A m \in S : n <= m
  BY LeastNatural
<1>2. QED
  BY <1>1 DEF Min

\* Max chooses the greatest element of a bounded set.
LEMMA MaxProp ==
    ASSUME NEW n \in Nat, NEW S \in SUBSET (0 .. n), S # {}
    PROVE  Max(S) \in S /\ \A x \in S : x <= Max(S)
<1> DEFINE T == {n - x : x \in S}
<1>1. T \in SUBSET Nat /\ T # {}
  <2>1. \A x \in S : n - x \in Nat
    OBVIOUS
  <2>2. QED
    BY <2>1, S # {}
<1>2. PICK t \in T : \A u \in T : t <= u
  BY <1>1, LeastNatural
<1>3. PICK m \in S : t = n - m
  BY <1>2
<1>4. \A x \in S : x <= m
  <2>1. TAKE x \in S
  <2>2. t <= n - x
    BY <1>2
  <2>3. QED
    BY <2>2, <1>3
<1>5. QED
  BY <1>3, <1>4 DEF Max

-----------------------------------------------------------------------------
(* Type correctness.  TypeOK is not inductive: that a statement stores only *)
(* transactions of the ledger follows from what the pending calls carry.    *)

DeleteStatements == {"deleteBlocks", "deleteTxs", "deleteCommits"}

CallOK(c) ==
    /\ c \in CallType
    /\ c.do = "saveTx" => <<c.b, c.i>> \in Tx
    /\ c.do = "saveCommit" => <<c.b, c.i>> \in WithCommit
    /\ c.do \in DeleteStatements => c.b \in c.set

ControlType ==
    /\ step \in Step
    /\ job \in JobType
    /\ CallOK(call)
    /\ result \in {"none", "ok", "error"}
    /\ step \in InBlockLoop => job.tx \in 1 .. NTx[job.current]

EnvType ==
    /\ height \in Block
    /\ late \in Seq(CallType)
    /\ \A n \in DOMAIN late : CallOK(late[n])
    /\ faults \in Nat
    /\ crashes \in Nat

TypeInv == TypeOKTables /\ ControlType /\ notified \in [WithCommit -> Nat] /\ EnvType

\* A transaction of block b is <<b, i>> with i within NTx[b].
LEMMA TxProp ==
    \A b \in Block : \A i \in Nat : <<b, i>> \in Tx <=> i \in 1 .. NTx[b]
<1>1. TAKE b \in Block, i \in Nat
<1>2. <<b, i>> \in Tx <=> \E c \in Block : <<b, i>> \in {c} \X (1 .. NTx[c])
  BY DEF Tx
<1>3. QED
  BY <1>2, Zenon

\* The statement of a well-formed call keeps the tables well-typed.
LEMMA ExecuteType ==
    ASSUME TypeOKTables, NEW c, CallOK(c), Execute(c)
    PROVE  TypeOKTables'
<1> USE DEF TypeOKTables, RowState
<1>1. CASE UNCHANGED tables
  BY <1>1 DEF tables
<1>2. CASE c.do = "saveBlock" /\ SaveBlock(c.b)
  BY <1>2 DEF SaveBlock, CallOK, CallType
<1>3. CASE c.do = "saveTx" /\ SaveTx(<<c.b, c.i>>)
  BY <1>3 DEF SaveTx, CallOK
<1>4. CASE c.do = "saveCommit" /\ SaveCommit(<<c.b, c.i>>)
  BY <1>4 DEF SaveCommit, CallOK
<1>5. CASE c.do = "saveKV" /\ SaveKV(c.set, c.b)
  BY <1>5 DEF SaveKV, CallOK, CallType
<1>6. CASE c.do = "updateVerified" /\ UpdateVerified(c.b)
  BY <1>6 DEF UpdateVerified, CallOK, CallType
<1>7. CASE c.do = "deleteBlocks" /\ DeleteBlocks(c.set)
  BY <1>7 DEF DeleteBlocks
<1>8. CASE c.do = "deleteTxs" /\ DeleteTxs(c.b)
  BY <1>8 DEF DeleteTxs
<1>9. CASE c.do = "deleteCommits" /\ DeleteCommits(c.b)
  BY <1>9 DEF DeleteCommits
<1>10. QED
  BY <1>1, <1>2, <1>3, <1>4, <1>5, <1>6, <1>7, <1>8, <1>9 DEF Execute

\* The absence of a call is a well-formed call.
LEMMA NoCallOK == CallOK(NoCall)
  BY LedgerAssumption DEF CallOK, NoCall, Call, CallType, Statement, Block, DeleteStatements

\* What is left of a well-formed call is well-formed.
LEMMA AfterType ==
    ASSUME TypeOKTables, NEW c, CallOK(c)
    PROVE  CallOK(After(c))
<1> USE DEF CallOK, CallType, Statement, DeleteStatements
<1>0. Unverified \in SUBSET Block /\ Block \in SUBSET Nat
  BY DEF Unverified, Block
<1>1. CASE c.do = "preloadKV"
  <2>1. After(c) = [c EXCEPT !.do = "saveKV", !.set = kv]
    BY <1>1 DEF After
  <2>2. QED
    BY <2>1 DEF TypeOKTables
<1>2. CASE c.do = "findRows" /\ Unverified # {}
  <2>1. After(c) = [c EXCEPT !.do = "deleteBlocks", !.set = Unverified, !.b = Min(Unverified)]
    BY <1>2 DEF After
  <2>2. Min(Unverified) \in Unverified
    BY <1>0, <1>2, MinProp
  <2>3. After(c).b \in After(c).set /\ After(c).set \in SUBSET Block
    BY <2>1, <2>2, <1>0
  <2>4. After(c).do = "deleteBlocks" /\ After(c) \in CallType
    BY <2>1, <2>2, <1>0
  <2>5. QED
    BY <2>3, <2>4
<1>3. CASE c.do = "deleteBlocks"
  <2>1. After(c) = [c EXCEPT !.do = "deleteTxs"]
    BY <1>3 DEF After
  <2>2. QED
    BY <1>3, <2>1
<1>4. CASE c.do \in {"deleteTxs", "deleteCommits"} /\ Ahead(c) # {}
  <2>1. After(c) = [c EXCEPT !.b = Min(Ahead(c))]
    BY <1>4 DEF After
  <2>2. Ahead(c) \in SUBSET c.set /\ c.set \in SUBSET Block
    BY DEF Ahead
  <2>3. Min(Ahead(c)) \in Ahead(c)
    BY <1>0, <1>4, <2>2, MinProp
  <2>4. QED
    BY <1>4, <2>1, <2>2, <2>3
<1>5. CASE c.do = "deleteTxs" /\ Ahead(c) = {}
  <2>1. After(c) = [c EXCEPT !.do = "deleteCommits", !.b = Min(c.set)]
    BY <1>5 DEF After
  <2>2. c.set \in SUBSET Block /\ c.set # {}
    BY <1>5
  <2>3. Min(c.set) \in c.set
    BY <1>0, <2>2, MinProp
  <2>4. QED
    BY <2>1, <2>2, <2>3
<1>6. CASE /\ c.do \notin {"preloadKV", "deleteBlocks", "deleteTxs"}
           /\ ~(c.do = "findRows" /\ Unverified # {})
           /\ ~(c.do = "deleteCommits" /\ Ahead(c) # {})
  <2>1. After(c) = NoCall
    BY <1>6 DEF After
  <2>2. QED
    BY <2>1, NoCallOK
<1>7. QED
  BY <1>1, <1>2, <1>3, <1>4, <1>5, <1>6

\* The three ways in which a handler of the job ends keep the types.
LEMMA AwaitType ==
    ASSUME TypeInv, NEW s \in Step, NEW j \in JobType, NEW c, CallOK(c), Await(s, j, c),
           s \in InBlockLoop => j.tx \in 1 .. NTx[j.current]
    PROVE  ControlType'
<1>1. step' = s /\ job' = j /\ call' = c /\ result' = result
  BY DEF Await
<1>2. CallOK(call')
  BY <1>1
<1>3. QED
  BY <1>1, <1>2 DEF TypeInv, ControlType, CallOK

\* ... when the job settles, with a well-typed record,
LEMMA SettleType ==
    ASSUME NEW r \in {"none", "ok", "error"}, NEW j \in JobType, Settle(r, j)
    PROVE  ControlType'
<1>1. step' = "idle" /\ job' = j /\ call' = NoCall /\ result' = r
  BY DEF Settle
<1>2. CallOK(call')
  BY <1>1, NoCallOK
<1>3. QED
  BY <1>1, <1>2 DEF ControlType, CallOK, Step, InBlockLoop

\* The state in which a job starts is well-typed.
LEMMA TemplateType == Template \in JobType
  BY LedgerAssumption DEF Template, JobType, Block

\* ... and at the head of the loop, which may do either.
LEMMA NextBlockType ==
    ASSUME TypeInv, NEW j \in JobType, NEW q \in SUBSET Block, NextBlock(j, q)
    PROVE  ControlType'
<1>1. CASE q = {} /\ Settle("ok", Template)
  BY <1>1, SettleType, TemplateType
<1>2. CASE q # {} /\ Await("step6b", [j EXCEPT !.queued = q, !.current = First(q), !.tx = 1], NoCall)
  <2> DEFINE k == [j EXCEPT !.queued = q, !.current = First(q), !.tx = 1]
  <2>1. First(q) \in q
    BY <1>2, MinProp DEF First, Block
  <2>2. k \in JobType /\ k.tx = 1 /\ k.current \in Block
    BY <2>1 DEF JobType
  <2>3. k.tx \in 1 .. NTx[k.current]
    BY <2>2, LedgerAssumption
  <2>4. QED
    BY <1>2, <2>2, <2>3, AwaitType, NoCallOK DEF Step
<1>3. QED
  BY <1>1, <1>2 DEF NextBlock

\* The types hold in the initial states.
LEMMA TypeInit == Init => TypeInv
<1> SUFFICES ASSUME Init PROVE TypeInv
  OBVIOUS
<1>1. TypeOKTables /\ notified \in [WithCommit -> Nat]
  BY DEF Init, TypeOKTables, RowState
<1>2. ControlType
  BY TemplateType, NoCallOK DEF Init, ControlType, Step, InBlockLoop
<1>3. EnvType
  BY DEF Init, EnvType
<1>4. QED
  BY <1>1, <1>2, <1>3 DEF TypeInv

\* One step per action; tables, control and environment are kept in turn.
LEMMA TypeStep == TypeInv /\ [Next]_vars => TypeInv'
<1> SUFFICES ASSUME TypeInv, [Next]_vars PROVE TypeInv'
  OBVIOUS
<1> USE DEF TypeInv
<1>a. UNCHANGED tables => TypeOKTables'
  BY DEF tables, TypeOKTables
<1>b. UNCHANGED notified => (notified \in [WithCommit -> Nat])'
  OBVIOUS
<1>c. UNCHANGED env => EnvType'
  BY DEF env, EnvType
<1>d. UNCHANGED control => ControlType'
  BY DEF control, ControlType
<1>e. Execute(call) => TypeOKTables'
  BY ExecuteType DEF ControlType
<1>f. CallOK(After(call))
  BY AfterType DEF ControlType
<1>g. \A b \in Block : \A i \in Nat : \A do \in Statement \ (DeleteStatements \cup {"saveTx", "saveCommit"}) :
          CallOK(Call(do, b, i))
  BY DEF CallOK, Call, CallType
<1>h. 0 \in Block /\ 1 \in Nat
  BY LedgerAssumption DEF Block
<1>1. CASE SyncStart
  BY <1>1, <1>a, <1>b, <1>c, TemplateType, NoCallOK
     DEF SyncStart, ControlType, Step, InBlockLoop
<1>2. CASE FindUnverified
  <2>1. CallOK(RemoveUnverifiedBlock)
    BY <1>g, <1>h DEF RemoveUnverifiedBlock, Statement, DeleteStatements
  <2>2. [job EXCEPT !.unverified = Unverified] \in JobType
    BY DEF ControlType, JobType, Unverified
  <2>3. ControlType'
    BY <1>2, <2>1, <2>2, AwaitType, NoCallOK DEF FindUnverified, Step, InBlockLoop, ControlType
  <2>4. QED
    BY <1>2, <2>3, <1>a, <1>b, <1>c DEF FindUnverified
<1>3. CASE RemoveUnverified
  <2> DEFINE rest == job.unverified \ {Min(job.unverified)}
             j    == [job EXCEPT !.unverified = rest]
  <2>1. CallOK(RemoveUnverifiedBlock)
    BY <1>g, <1>h DEF RemoveUnverifiedBlock, Statement, DeleteStatements
  <2>2. j \in JobType /\ job \in JobType
    BY DEF ControlType, JobType
  <2>3. ControlType'
    <3>1. CASE Await("step0b", job, After(call))
      BY <3>1, <1>f, <2>2, AwaitType DEF Step, InBlockLoop
    <3>2. CASE Failed
      BY <3>2, <2>2, SettleType DEF Failed
    <3>3. CASE Await("step1", j, NoCall)
      BY <3>3, <2>2, AwaitType, NoCallOK DEF Step, InBlockLoop
    <3>4. CASE Await("step0b", j, RemoveUnverifiedBlock)
      BY <3>4, <2>1, <2>2, AwaitType DEF Step, InBlockLoop
    <3>5. QED
      BY <1>3, <3>1, <3>2, <3>3, <3>4 DEF RemoveUnverified
  <2>4. QED
    BY <1>3, <2>3, <1>e, <1>b, <1>c DEF RemoveUnverified
<1>4. CASE QueryChannelHeight
  <2>1. Target \in Block
    BY BoundsAssumption, LedgerAssumption DEF Target, EnvType, Block
  <2>2. [job EXCEPT !.hFabric = Target] \in JobType /\ job \in JobType
    BY <2>1 DEF ControlType, JobType
  <2>3. ControlType'
    BY <1>4, <2>2, AwaitType, SettleType, NoCallOK
       DEF QueryChannelHeight, Step, InBlockLoop, Failed
  <2>4. QED
    BY <1>4, <2>3, <1>a, <1>b, <1>c DEF QueryChannelHeight
<1>5. CASE GetBlockHeight
  <2>1. BlockHeight \in 0 .. MaxBlock + 1
    <3>1. Present \in SUBSET (0 .. MaxBlock)
      BY DEF Present, Block
    <3>2. Present # {} => Max(Present) \in Present
      BY <3>1, MaxProp, LedgerAssumption
    <3>3. CASE Present = {}
      BY <3>3, LedgerAssumption DEF BlockHeight
    <3>4. CASE Present # {}
      <4>1. Max(Present) \in 0 .. MaxBlock
        BY <3>1, <3>2, <3>4
      <4>2. BlockHeight = Max(Present) + 1
        BY <3>4 DEF BlockHeight
      <4>3. QED
        BY <4>1, <4>2, LedgerAssumption
    <3>5. QED
      BY <3>3, <3>4
  <2>2. /\ [job EXCEPT !.hQuery = BlockHeight] \in JobType
        /\ [job EXCEPT !.hQuery = 0] \in JobType
    BY <2>1, LedgerAssumption DEF ControlType, JobType
  <2>3. ControlType'
    BY <1>5, <2>2, AwaitType, NoCallOK DEF GetBlockHeight, Step, InBlockLoop
  <2>4. EnvType'
    BY <1>5 DEF GetBlockHeight, EnvType, env
  <2>5. QED
    BY <1>5, <2>3, <2>4, <1>a, <1>b DEF GetBlockHeight, env
<1>6. CASE FindMissingBlock
  <2> DEFINE found == MissingUpTo(job.hFabric)
             j == [job EXCEPT !.missing = found, !.validated = (found = Derived)]
  <2>1. found \in SUBSET Block
    BY LedgerAssumption DEF MissingUpTo, ControlType, JobType, Block
  <2>2. (found = Derived) \in BOOLEAN
    OBVIOUS
  <2>3. j \in JobType
    BY <2>1, <2>2, Zenon DEF ControlType, JobType
  <2>4. ControlType'
    BY <1>6, <2>1, <2>3, NextBlockType DEF FindMissingBlock
  <2>5. QED
    BY <1>6, <2>4, <1>a, <1>b, <1>c DEF FindMissingBlock
<1>7. CASE QueryBlock
  <2>1. CallOK(InsertBlock(job.current))
    BY <1>g, <1>h DEF InsertBlock, Statement, DeleteStatements, ControlType, JobType
  <2>2. ControlType'
    BY <1>7, <2>1, AwaitType DEF QueryBlock, Step, InBlockLoop, ControlType
  <2>3. QED
    BY <1>7, <2>2, <1>a, <1>b, <1>c DEF QueryBlock
<1>8. CASE BlockInserted
  <2>1. CallOK(InsertTransaction(job.current, job.tx))
    BY <1>8, TxProp DEF BlockInserted, InsertTransaction, Call, CallOK, CallType, Statement,
                        DeleteStatements, ControlType, JobType, InBlockLoop
  <2>2. ControlType'
    BY <1>8, <2>1, AwaitType DEF BlockInserted, Step, InBlockLoop, ControlType
  <2>3. QED
    BY <1>8, <2>2, <1>e, <1>b, <1>c DEF BlockInserted
<1>9. CASE TransactionInserted
  <2>1. HasCommit => CallOK(InsertCommit(job.current, job.tx))
    BY DEF HasCommit, InsertCommit, Call, CallOK, CallType, Statement, DeleteStatements,
           ControlType, JobType
  <2>2. CallOK(UpdateInsertedBlockKeyValue(job.current))
    BY <1>g, <1>h DEF UpdateInsertedBlockKeyValue, Statement, DeleteStatements, ControlType, JobType
  <2>3. ControlType'
    BY <1>9, <2>1, <2>2, AwaitType DEF TransactionInserted, Step, InBlockLoop, ControlType
  <2>4. QED
    BY <1>9, <2>3, <1>e, <1>b, <1>c DEF TransactionInserted
<1>10. CASE CommitInserted
  <2>1. CallOK(UpdateInsertedBlockKeyValue(job.current))
    BY <1>g, <1>h DEF UpdateInsertedBlockKeyValue, Statement, DeleteStatements, ControlType, JobType
  <2>2. ControlType'
    BY <1>10, <2>1, AwaitType DEF CommitInserted, Step, InBlockLoop, ControlType
  <2>3. QED
    BY <1>10, <2>2, <1>e, <1>b, <1>c DEF CommitInserted
<1>11. CASE KeyValueUpdated
  <2>1. CallOK(SetVerified(job.current))
    BY <1>g, <1>h DEF SetVerified, Statement, DeleteStatements, ControlType, JobType
  <2>2. ControlType'
    BY <1>11, <1>f, <2>1, AwaitType DEF KeyValueUpdated, Step, InBlockLoop, ControlType
  <2>3. QED
    BY <1>11, <2>2, <1>e, <1>b, <1>c DEF KeyValueUpdated
<1>12. CASE Verified
  <2>1. (notified \in [WithCommit -> Nat])'
    <3>1. \A t \in WithCommit : [notified EXCEPT ![t] = @ + 1] \in [WithCommit -> Nat]
      OBVIOUS
    <3>2. \/ notified' = notified
          \/ \E t \in WithCommit : notified' = [notified EXCEPT ![t] = @ + 1]
      BY <1>12, Zenon DEF Verified, HasCommit
    <3>3. QED
      BY <3>1, <3>2
  <2>2. job \in JobType /\ job.tx \in 1 .. NTx[job.current] /\ job.current \in Block
    BY <1>12 DEF Verified, ControlType, InBlockLoop, JobType
  <2>3. ControlType'
    <3>1. CASE /\ job.tx < NTx[job.current]
               /\ Await("step6e", [job EXCEPT !.tx = @ + 1],
                        InsertTransaction(job.current, job.tx + 1))
      <4> DEFINE j == [job EXCEPT !.tx = @ + 1]
      <4>1. /\ j \in JobType /\ j.tx = job.tx + 1 /\ j.current = job.current
            /\ j.tx \in 1 .. NTx[j.current]
        BY <2>2, <3>1, LedgerAssumption DEF JobType
      <4>2. <<job.current, job.tx + 1>> \in Tx
        BY <4>1, <2>2, TxProp DEF JobType
      <4>3. CallOK(InsertTransaction(job.current, job.tx + 1))
        BY <4>1, <4>2, <2>2 DEF InsertTransaction, Call, CallOK, CallType, Statement,
                                DeleteStatements, JobType
      <4>4. QED
        BY <3>1, <4>1, <4>3, AwaitType DEF Step
    <3>2. CASE NextBlock([job EXCEPT !.completed = @ \cup {job.current}],
                         job.queued \ {job.current})
      <4>1. [job EXCEPT !.completed = @ \cup {job.current}] \in JobType
        BY <2>2 DEF JobType
      <4>2. job.queued \ {job.current} \in SUBSET Block
        BY <2>2 DEF JobType
      <4>3. QED
        BY <3>2, <4>1, <4>2, NextBlockType
    <3>3. QED
      BY <1>12, <3>1, <3>2 DEF Verified
  <2>4. Execute(call) /\ UNCHANGED env
    BY <1>12 DEF Verified
  <2>5. QED
    BY <2>1, <2>3, <2>4, <1>e, <1>c
<1>13. CASE CallFails
  <2>1. ControlType'
    BY <1>13, SettleType DEF CallFails, Failed, ControlType
  <2>2. EnvType'
    BY <1>13 DEF CallFails, EnvType
  <2>3. QED
    BY <1>13, <2>1, <2>2, <1>a, <1>b DEF CallFails
<1>14. CASE TimesOut
  <2>1. ControlType'
    BY <1>14, SettleType DEF TimesOut, Failed, ControlType
  <2>2. late' \in Seq(CallType) /\ \A n \in DOMAIN late' : CallOK(late'[n])
    <3>1. late' = Append(late, call) /\ late \in Seq(CallType) /\ call \in CallType
      BY <1>14 DEF TimesOut, EnvType, ControlType, CallOK
    <3>2. /\ late' \in Seq(CallType)
          /\ \A n \in DOMAIN late' : (n \in DOMAIN late /\ late'[n] = late[n]) \/ late'[n] = call
      BY <3>1
    <3>3. QED
      BY <3>2 DEF EnvType, ControlType
  <2>3. EnvType'
    BY <1>14, <2>2 DEF TimesOut, EnvType
  <2>4. QED
    BY <1>14, <2>1, <2>3, <1>a, <1>b DEF TimesOut
<1>15. CASE LateStatement
  <2>1. PICK n \in DOMAIN late :
             \/ Execute(late[n]) /\ late' = [late EXCEPT ![n] = After(late[n])]
             \/ UNCHANGED tables /\ late' = [late EXCEPT ![n] = NoCall]
    BY <1>15 DEF LateStatement
  <2>2. CallOK(late[n]) /\ CallOK(After(late[n])) /\ CallOK(NoCall)
    BY AfterType, NoCallOK DEF EnvType
  <2>3. TypeOKTables'
    BY <2>1, <2>2, <1>a, ExecuteType
  <2>4. late' \in Seq(CallType) /\ \A m \in DOMAIN late' : CallOK(late'[m])
    <3>1. PICK c : CallOK(c) /\ late' = [late EXCEPT ![n] = c]
      BY <2>1, <2>2
    <3>2. late \in Seq(CallType) /\ c \in CallType
      BY <3>1 DEF EnvType, CallOK
    <3>3. late' \in Seq(CallType)
      BY <3>1, <3>2, ExceptSeq
    <3>4. \A m \in DOMAIN late' : m \in DOMAIN late /\ (late'[m] = late[m] \/ late'[m] = c)
      BY <3>1, <3>2
    <3>5. QED
      BY <3>1, <3>3, <3>4 DEF EnvType
  <2>5. EnvType'
    BY <1>15, <2>4 DEF LateStatement, EnvType
  <2>6. QED
    BY <1>15, <2>3, <2>5, <1>b, <1>d DEF LateStatement
<1>16. CASE Crash
  <2>1. ControlType'
    BY <1>16, TemplateType, NoCallOK DEF Crash, ControlType, Step, InBlockLoop
  <2>2. late' \in Seq(CallType) /\ \A n \in DOMAIN late' : CallOK(late'[n])
    BY <1>16, NoCallOK DEF Crash, EnvType, CallOK
  <2>3. EnvType'
    BY <1>16, <2>2 DEF Crash, EnvType
  <2>4. QED
    BY <1>16, <2>1, <2>3, <1>a, <1>b DEF Crash
<1>17. CASE NewBlock
  <2>1. EnvType'
    BY <1>17, LedgerAssumption DEF NewBlock, EnvType, Block
  <2>2. QED
    BY <1>17, <2>1, <1>a, <1>b, <1>d DEF NewBlock
<1>18. CASE UNCHANGED vars
  BY <1>18, <1>a, <1>b, <1>c, <1>d DEF vars
<1>19. QED
  BY <1>1, <1>2, <1>3, <1>4, <1>5, <1>6, <1>7, <1>8, <1>9, <1>10, <1>11, <1>12, <1>13,
     <1>14, <1>15, <1>16, <1>17, <1>18 DEF Next, JobStep

\* Every reachable state is well-typed: in particular a job never stores a row
\* for anything that is not on the ledger, and asks for no block beyond it.
THEOREM TypeCorrect == Spec => []TypeOK
<1>1. TypeInv => TypeOK
  BY DEF TypeInv, TypeOK, ControlType, EnvType, CallOK
<1>2. QED
  BY <1>1, TypeInit, TypeStep, PTL DEF Spec

-----------------------------------------------------------------------------
(* The list "insertedBlock" has no gap.                                    *)

\* Only the save of updateInsertedBlockKeyValue writes the list.
LEMMA ExecuteKV ==
    ASSUME NEW c, Execute(c)
    PROVE  /\ c.do # "saveKV" => kv' = kv
           /\ c.do = "saveKV" => kv' = c.set \cup {c.b}
  BY DEF Execute, tables, SaveBlock, SaveTx, SaveCommit, SaveKV, UpdateVerified,
         DeleteBlocks, DeleteTxs, DeleteCommits

\* The absence of a call fits every list.
LEMMA NoCallFits == \A list : CallFits(NoCall, list)
  BY DEF CallFits, NoCall, Call

\* A call that has executed a statement fits the list as it then is.
LEMMA AfterFits ==
    ASSUME NEW c, CallFits(c, kv), Execute(c), CallOK(c)
    PROVE  CallFits(After(c), kv')
<1>1. CASE c.do = "preloadKV"
  <2>1. After(c) = [c EXCEPT !.do = "saveKV", !.set = kv] /\ kv' = kv
    BY <1>1, ExecuteKV DEF After
  <2>2. After(c).do = "saveKV" /\ After(c).set = kv /\ After(c).b = c.b
    BY <2>1 DEF CallOK, CallType
  <2>3. QED
    BY <1>1, <2>1, <2>2 DEF CallFits
<1>2. CASE c.do # "preloadKV"
  <2>1. After(c) = NoCall \/ After(c).do \in DeleteStatements
    BY <1>2 DEF After, CallOK, CallType, DeleteStatements
  <2>2. QED
    BY <2>1, NoCallFits DEF CallFits, DeleteStatements
<1>3. QED
  BY <1>1, <1>2

\* The list stays without a gap when a pending call executes a statement.
LEMMA ExecutePrefix ==
    ASSUME NEW c, CallFits(c, kv), Execute(c), KVPrefix, CallOK(c), TypeOKTables
    PROVE  KVPrefix'
<1>1. CASE c.do # "saveKV"
  BY <1>1, ExecuteKV DEF KVPrefix
<1>2. CASE c.do = "saveKV"
  <2>1. kv' = kv \cup {c.b} /\ \A a \in Block : a < c.b => a \in kv
    BY <1>2, ExecuteKV DEF CallFits
  <2>2. QED
    BY <2>1 DEF KVPrefix
<1>3. QED
  BY <1>1, <1>2

\* While no call is late, the late part of the invariant says nothing.
LatePart == Alone /\ \A n \in DOMAIN late : CallFits(late[n], kv)

\* A step that leaves the late calls alone, all of them ended, keeps that part.
LEMMA LateQuiet == LateDone /\ UNCHANGED late => LatePart' /\ LateDone'
  BY NoCallFits DEF LatePart, LateDone, Alone

\* A settled job leaves nothing to say of the job.
LEMMA SettleKV ==
    ASSUME NEW r, NEW j, Settle(r, j)
    PROVE  Order' /\ CallAtStep' /\ CallFits(call', kv')
<1>1. step' = "idle" /\ call' = NoCall
  BY DEF Settle
<1>2. QED
  BY <1>1, NoCallFits DEF Order, CallAtStep, InBlockLoop

\* The head of the loop: what is queued is exactly what the list lacks.
LEMMA NextBlockKV ==
    ASSUME NEW j \in JobType, NEW q \in SUBSET (0 .. j.hFabric), NextBlock(j, q),
           \A a \in 0 .. j.hFabric : a \in q <=> a \notin kv'
    PROVE  Order' /\ CallAtStep' /\ CallFits(call', kv')
<1>1. CASE q = {} /\ Settle("ok", Template)
  BY <1>1, SettleKV
<1>2. CASE q # {} /\ Await("step6b", [j EXCEPT !.queued = q, !.current = First(q), !.tx = 1], NoCall)
  <2> DEFINE k == [j EXCEPT !.queued = q, !.current = First(q), !.tx = 1]
  <2>1. q \in SUBSET Nat /\ j.hFabric \in Nat
    BY DEF JobType, Block
  <2>2. First(q) \in q /\ \A x \in q : First(q) <= x
    BY <1>2, <2>1, MinProp DEF First
  <2>3. step' = "step6b" /\ job' = k /\ call' = NoCall
    BY <1>2 DEF Await
  <2>4. /\ k.queued = q /\ k.current = First(q) /\ k.tx = 1 /\ k.hFabric = j.hFabric
    BY DEF JobType
  <2>5. Order'
    BY <2>1, <2>2, <2>3, <2>4 DEF Order, InBlockLoop
  <2>6. CallAtStep'
    BY <2>3, <2>4 DEF CallAtStep
  <2>7. QED
    BY <2>3, <2>5, <2>6, NoCallFits
<1>3. QED
  BY <1>1, <1>2 DEF NextBlock

\* A step within the loop over the transactions of a block: the list is
\* unchanged, or has just received the current block.
LEMMA InLoopKV ==
    ASSUME NEW s \in InBlockLoop, NEW j, NEW c, Await(s, j, c), Order, step \in InBlockLoop,
           j.queued = job.queued, j.current = job.current, j.hFabric = job.hFabric,
           \A q \in job.queued :
               q \in kv' <=> q = job.current /\ (s = "step6h" \/ j.tx > 1),
           kv \subseteq kv'
    PROVE  Order'
<1>1. step' = s /\ job' = j
  BY DEF Await
<1>2. QED
  BY <1>1 DEF Order

\* The invariant of the list holds in the initial states.
LEMMA KVInit == Init => KVInv
<1> SUFFICES ASSUME Init PROVE KVInv
  OBVIOUS
<1>1. KVPrefix /\ Order /\ CallAtStep
  BY DEF Init, KVPrefix, Order, CallAtStep, InBlockLoop
<1>2. Alone /\ CallFits(call, kv) /\ \A n \in DOMAIN late : CallFits(late[n], kv)
  BY NoCallFits DEF Init, Alone, LateDone
<1>3. QED
  BY <1>1, <1>2 DEF KVInv

\* It is inductive: one step per action, and the parts of KVInv under it.
LEMMA KVStep ==
    ASSUME ~Overlap
    PROVE  TypeInv /\ KVInv /\ [Next]_vars => KVInv'
<1> SUFFICES ASSUME TypeInv, KVInv, [Next]_vars PROVE KVInv'
  OBVIOUS
<1>0. /\ KVPrefix /\ Order /\ CallAtStep /\ LatePart /\ CallFits(call, kv)
      /\ CallOK(call) /\ TypeOKTables /\ job \in JobType
  BY DEF KVInv, LatePart, TypeInv, ControlType
\* What every step of a running job has in common.
<1>a. ASSUME step # "idle", UNCHANGED late, Execute(call) \/ UNCHANGED tables,
             Order' /\ CallAtStep' /\ CallFits(call', kv')
      PROVE  KVInv'
  <2>1. LatePart'
    BY <1>0, <1>a, LateQuiet DEF LatePart, Alone
  <2>2. KVPrefix'
    BY <1>0, <1>a, ExecutePrefix DEF KVPrefix, tables
  <2>3. QED
    BY <1>a, <2>1, <2>2 DEF KVInv, LatePart
<1>b. Execute(call) /\ call.do # "saveKV" => kv' = kv
  BY ExecuteKV
<1>1. CASE SyncStart
  <2>1. LatePart'
    BY <1>1, LateQuiet DEF SyncStart, env
  <2>2. Order' /\ CallAtStep' /\ CallFits(call', kv') /\ kv' = kv
    BY <1>1, NoCallFits DEF SyncStart, Order, CallAtStep, InBlockLoop, tables
  <2>3. QED
    BY <1>0, <2>1, <2>2 DEF KVInv, LatePart, KVPrefix
<1>2. CASE FindUnverified
  <2>1. Order' /\ CallAtStep' /\ CallFits(call', kv')
    BY <1>2, NoCallFits
       DEF FindUnverified, Await, Order, CallAtStep, InBlockLoop, CallFits,
           RemoveUnverifiedBlock, Call
  <2>2. QED
    BY <1>2, <2>1, <1>a DEF FindUnverified, env
<1>3. CASE RemoveUnverified
  <2>1. call.do \in {"findRows", "deleteBlocks", "deleteTxs", "deleteCommits"}
    BY <1>0, <1>3 DEF RemoveUnverified, CallAtStep
  <2>2. After(call) = NoCall \/ After(call).do \in DeleteStatements
    BY <1>0, <2>1 DEF After, CallOK, CallType, DeleteStatements
  <2>3. Order' /\ CallAtStep' /\ CallFits(call', kv')
    <3>1. CASE \E s, j, c : /\ Await(s, j, c)
                            /\ s = "step0b" /\ c.do \in DeleteStatements \cup {"findRows"}
      BY <3>1 DEF Await, Order, CallAtStep, InBlockLoop, CallFits, DeleteStatements
    <3>2. CASE \E j : Await("step1", j, NoCall)
      BY <3>2, NoCallFits DEF Await, Order, CallAtStep, InBlockLoop
    <3>3. CASE Failed
      BY <3>3, SettleKV DEF Failed
    <3>4. QED
      BY <1>3, <2>2, <3>1, <3>2, <3>3 DEF RemoveUnverified, RemoveUnverifiedBlock, Call
  <2>4. QED
    BY <1>3, <2>3, <1>a DEF RemoveUnverified, env
<1>4. CASE QueryChannelHeight
  <2>1. Order' /\ CallAtStep' /\ CallFits(call', kv')
    <3>1. CASE Failed
      BY <3>1, SettleKV DEF Failed
    <3>2. CASE Await("step3", [job EXCEPT !.hFabric = Target], NoCall)
      BY <3>2, NoCallFits DEF Await, Order, CallAtStep, InBlockLoop
    <3>3. QED
      BY <1>4, <3>1, <3>2 DEF QueryChannelHeight
  <2>2. QED
    BY <1>4, <2>1, <1>a DEF QueryChannelHeight, env
<1>5. CASE GetBlockHeight
  <2>1. Order' /\ CallAtStep' /\ CallFits(call', kv')
    BY <1>5, NoCallFits DEF GetBlockHeight, Await, Order, CallAtStep, InBlockLoop
  <2>2. QED
    BY <1>5, <2>1, <1>a DEF GetBlockHeight, env
<1>6. CASE FindMissingBlock
  <2> DEFINE found == MissingUpTo(job.hFabric)
             j == [job EXCEPT !.missing = found, !.validated = (found = Derived)]
  <2>1. found \in SUBSET Block /\ (found = Derived) \in BOOLEAN
    BY <1>0, LedgerAssumption DEF MissingUpTo, JobType, Block
  <2>2. j \in JobType /\ j.hFabric = job.hFabric
    BY <1>0, <2>1, Zenon DEF JobType
  <2>3. found \in SUBSET (0 .. j.hFabric) /\ \A a \in 0 .. j.hFabric : a \in found <=> a \notin kv'
    BY <1>6, <2>2 DEF MissingUpTo, FindMissingBlock, tables
  <2>4. Order' /\ CallAtStep' /\ CallFits(call', kv')
    BY <1>6, <2>2, <2>3, NextBlockKV DEF FindMissingBlock
  <2>5. QED
    BY <1>6, <2>4, <1>a DEF FindMissingBlock, env
<1>7. CASE QueryBlock
  <2>1. /\ Await("step6d", job, InsertBlock(job.current)) /\ kv' = kv
        /\ step = "step6b" /\ job.tx = 1 /\ job.current \in job.queued
    BY <1>0, <1>7 DEF QueryBlock, CallAtStep, Order, InBlockLoop, tables
  <2>2. Order'
    BY <1>0, <2>1, InLoopKV DEF InBlockLoop, Order
  <2>3. CallAtStep' /\ CallFits(call', kv')
    BY <1>0, <2>1 DEF Await, CallAtStep, CallFits, InsertBlock, Call, Order, InBlockLoop
  <2>4. QED
    BY <1>7, <2>2, <2>3, <1>a DEF QueryBlock, env
<1>8. CASE BlockInserted
  <2>1. /\ Await("step6e", job, InsertTransaction(job.current, job.tx)) /\ kv' = kv
        /\ step = "step6d"
    BY <1>0, <1>8, <1>b DEF BlockInserted, CallAtStep, InsertBlock, Call
  <2>2. Order'
    BY <1>0, <2>1, InLoopKV DEF InBlockLoop, Order
  <2>3. CallAtStep' /\ CallFits(call', kv')
    BY <2>1 DEF Await, CallAtStep, CallFits, InsertTransaction, Call
  <2>4. QED
    BY <1>8, <2>2, <2>3, <1>a DEF BlockInserted, env
<1>9. CASE TransactionInserted
  <2>1. kv' = kv /\ step = "step6e"
    BY <1>0, <1>9, <1>b DEF TransactionInserted, CallAtStep, InsertTransaction, Call
  <2>2. CASE Await("step6f", job, InsertCommit(job.current, job.tx))
    <3>1. Order'
      BY <1>0, <2>1, <2>2, InLoopKV DEF InBlockLoop, Order
    <3>2. CallAtStep' /\ CallFits(call', kv')
      BY <2>2 DEF Await, CallAtStep, CallFits, InsertCommit, Call
    <3>3. QED
      BY <1>9, <3>1, <3>2, <1>a DEF TransactionInserted, env
  <2>3. CASE Await("step6g", job, UpdateInsertedBlockKeyValue(job.current))
    <3>1. Order'
      BY <1>0, <2>1, <2>3, InLoopKV DEF InBlockLoop, Order
    <3>2. CallAtStep' /\ CallFits(call', kv')
      BY <1>0, <2>1, <2>3
         DEF Await, CallAtStep, CallFits, UpdateInsertedBlockKeyValue, Call, Order,
             InBlockLoop, JobType, Block
    <3>3. QED
      BY <1>9, <3>1, <3>2, <1>a DEF TransactionInserted, env
  <2>4. QED
    BY <1>9, <2>2, <2>3 DEF TransactionInserted
<1>10. CASE CommitInserted
  <2>1. /\ kv' = kv /\ step = "step6f"
        /\ Await("step6g", job, UpdateInsertedBlockKeyValue(job.current))
    BY <1>0, <1>10, <1>b DEF CommitInserted, CallAtStep, InsertCommit, Call
  <2>2. Order'
    BY <1>0, <2>1, InLoopKV DEF InBlockLoop, Order
  <2>3. CallAtStep' /\ CallFits(call', kv')
    BY <1>0, <2>1
       DEF Await, CallAtStep, CallFits, UpdateInsertedBlockKeyValue, Call, Order,
           InBlockLoop, JobType, Block
  <2>4. QED
    BY <1>10, <2>2, <2>3, <1>a DEF CommitInserted, env
<1>11. CASE KeyValueUpdated
  <2>1. call.do \in {"preloadKV", "saveKV"} /\ call.b = job.current /\ step = "step6g"
    BY <1>0, <1>11 DEF KeyValueUpdated, CallAtStep
  <2>2. CASE call.do = "preloadKV"
    <3>1. /\ After(call) = [call EXCEPT !.do = "saveKV", !.set = kv]
          /\ After(call).do = "saveKV" /\ After(call).b = job.current
      BY <1>0, <2>1, <2>2 DEF After, CallOK, CallType
    <3>a. NoCall.do = "none"
      BY DEF NoCall, Call
    <3>2. Await("step6g", job, After(call)) /\ kv' = kv
      BY <1>11, <2>2, <3>1, <3>a, <1>b DEF KeyValueUpdated
    <3>3. Order'
      BY <1>0, <2>1, <3>2, InLoopKV DEF InBlockLoop, Order
    <3>4. CallFits(call', kv')
      BY <1>0, <1>11, <3>2, AfterFits DEF Await, KeyValueUpdated
    <3>5. CallAtStep'
      BY <3>1, <3>2 DEF Await, CallAtStep
    <3>6. QED
      BY <1>11, <3>3, <3>4, <3>5, <1>a DEF KeyValueUpdated, env
  <2>3. CASE call.do = "saveKV"
    <3>1. After(call) = NoCall
      BY <2>3 DEF After
    <3>2. Await("step6h", job, SetVerified(job.current)) /\ kv' = kv \cup {job.current}
      BY <1>0, <1>11, <2>1, <2>3, <3>1, ExecuteKV DEF KeyValueUpdated, CallFits
    <3>3. Order'
      BY <1>0, <2>1, <3>2, InLoopKV DEF InBlockLoop, Order
    <3>4. CallAtStep' /\ CallFits(call', kv')
      BY <3>2 DEF Await, CallAtStep, CallFits, SetVerified, Call
    <3>5. QED
      BY <1>11, <3>3, <3>4, <1>a DEF KeyValueUpdated, env
  <2>4. QED
    BY <2>1, <2>2, <2>3
<1>12. CASE Verified
  <2>1. kv' = kv /\ step = "step6h"
    BY <1>0, <1>12, <1>b DEF Verified, CallAtStep, SetVerified, Call
  <2>2. job.current \in job.queued /\ job.current \in kv
    BY <1>0, <2>1 DEF Order, InBlockLoop
  <2>3. CASE /\ job.tx < NTx[job.current]
             /\ Await("step6e", [job EXCEPT !.tx = @ + 1],
                      InsertTransaction(job.current, job.tx + 1))
    <3> DEFINE j == [job EXCEPT !.tx = @ + 1]
    <3>1. /\ j.queued = job.queued /\ j.current = job.current /\ j.hFabric = job.hFabric
          /\ j.tx = job.tx + 1 /\ j.tx > 1
      BY <1>0, <2>1 DEF JobType, TypeInv, ControlType, InBlockLoop
    <3>2. Order'
      BY <1>0, <2>1, <2>3, <3>1, InLoopKV DEF InBlockLoop, Order
    <3>3. CallAtStep' /\ CallFits(call', kv')
      BY <2>3, <3>1 DEF Await, CallAtStep, CallFits, InsertTransaction, Call
    <3>4. QED
      BY <1>12, <3>2, <3>3, <1>a DEF Verified, env
  <2>4. CASE NextBlock([job EXCEPT !.completed = @ \cup {job.current}],
                       job.queued \ {job.current})
    <3> DEFINE j == [job EXCEPT !.completed = @ \cup {job.current}]
               q == job.queued \ {job.current}
    <3>1. j \in JobType /\ j.hFabric = job.hFabric
      BY <1>0 DEF JobType
    <3>2. q \in SUBSET (0 .. j.hFabric)
      BY <1>0, <2>1, <3>1 DEF Order, InBlockLoop, JobType, Block
    <3>3. \A a \in 0 .. j.hFabric : a \in q <=> a \notin kv'
      BY <1>0, <2>1, <2>2, <3>1 DEF Order, InBlockLoop
    <3>4. Order' /\ CallAtStep' /\ CallFits(call', kv')
      BY <2>4, <3>1, <3>2, <3>3, NextBlockKV
    <3>5. QED
      BY <1>12, <3>4, <1>a DEF Verified, env
  <2>5. QED
    BY <1>12, <2>3, <2>4 DEF Verified
<1>13. CASE CallFails
  <2>1. Order' /\ CallAtStep' /\ CallFits(call', kv')
    BY <1>13, SettleKV DEF CallFails, Failed
  <2>2. QED
    BY <1>13, <2>1, <1>a DEF CallFails
<1>14. CASE TimesOut
  <2>1. Order' /\ CallAtStep' /\ CallFits(call', kv') /\ step' = "idle" /\ kv' = kv
    BY <1>14, SettleKV DEF TimesOut, Failed, Settle, tables
  <2>2. late' = Append(late, call) /\ late \in Seq(CallType) /\ LateDone
    BY <1>0, <1>14 DEF TimesOut, LatePart, Alone, TypeInv, EnvType
  <2>3. \A n \in DOMAIN late' : late'[n] = NoCall \/ (n = Len(late) + 1 /\ late'[n] = call)
    BY <2>2 DEF LateDone
  <2>4. LatePart'
    BY <1>0, <2>1, <2>3, NoCallFits DEF LatePart, Alone
  <2>5. QED
    BY <1>0, <2>1, <2>4 DEF KVInv, LatePart, KVPrefix
<1>15. CASE LateStatement
  <2>1. PICK n \in DOMAIN late :
             /\ late[n] # NoCall
             /\ \/ Execute(late[n]) /\ late' = [late EXCEPT ![n] = After(late[n])]
                \/ UNCHANGED tables /\ late' = [late EXCEPT ![n] = NoCall]
    BY <1>15 DEF LateStatement
  <2>2. step = "idle" /\ call = NoCall /\ CallFits(late[n], kv) /\ CallOK(late[n])
    BY <1>0, <2>1 DEF LatePart, Alone, LateDone, CallAtStep, TypeInv, EnvType
  <2>3. PICK c : CallFits(c, kv') /\ late' = [late EXCEPT ![n] = c]
    BY <2>1, <2>2, AfterFits, NoCallFits
  <2>4. KVPrefix'
    BY <1>0, <2>1, <2>2, ExecutePrefix DEF KVPrefix, tables
  <2>5. step' = "idle" /\ call' = NoCall
    BY <1>15, <2>2 DEF LateStatement, control
  <2>6. Order' /\ CallAtStep' /\ CallFits(call', kv')
    BY <2>5, NoCallFits DEF Order, CallAtStep, InBlockLoop
  <2>7. \A m \in DOMAIN late : m # n => late[m] = NoCall
    BY <1>0, <2>1 DEF LatePart, Alone
  <2>8. /\ DOMAIN late' = DOMAIN late /\ late'[n] = c
        /\ \A m \in DOMAIN late : m # n => late'[m] = late[m]
    BY <2>1, <2>3
  <2>9. LatePart'
    BY <2>3, <2>5, <2>7, <2>8, NoCallFits DEF LatePart, Alone
  <2>10. QED
    BY <2>4, <2>6, <2>9 DEF KVInv, LatePart
<1>16. CASE Crash
  <2>1. step' = "idle" /\ call' = NoCall /\ kv' = kv /\ \A n \in DOMAIN late' : late'[n] = NoCall
    BY <1>16 DEF Crash, tables
  <2>2. Order' /\ CallAtStep' /\ CallFits(call', kv')
    BY <2>1, NoCallFits DEF Order, CallAtStep, InBlockLoop
  <2>3. LatePart'
    BY <2>1, NoCallFits DEF LatePart, Alone
  <2>4. QED
    BY <1>0, <2>1, <2>2, <2>3 DEF KVInv, LatePart, KVPrefix
<1>17. CASE UNCHANGED <<tables, control, late>>
  BY <1>0, <1>17
     DEF tables, control, KVInv, LatePart, KVPrefix, Order, CallAtStep, Alone, LateDone
<1>18. QED
  BY <1>1, <1>2, <1>3, <1>4, <1>5, <1>6, <1>7, <1>8, <1>9, <1>10, <1>11, <1>12, <1>13,
     <1>14, <1>15, <1>16, <1>17 DEF Next, JobStep, NewBlock, vars, env

\* However calls fail or time out and wherever the process crashes: as long as a
\* call that lost its timer ends before the next job, the list "insertedBlock"
\* has no gap.
THEOREM ListHasNoGap == ASSUME ~Overlap PROVE Spec => []KVPrefix
<1>1. KVInv => KVPrefix
  BY DEF KVInv
<1>2. TypeInv /\ KVInv /\ [Next]_vars => KVInv'
  BY KVStep
<1>3. QED
  BY <1>1, <1>2, TypeInit, TypeStep, KVInit, PTL DEF Spec

\* The statement of a pending call gives no listed block its row back.
LEMMA ExecuteLost ==
    ASSUME NEW c, CallFits(c, kv), Execute(c), CallOK(c), TypeOKTables
    PROVE  Lost \subseteq Lost'
<1> USE DEF Lost
<1>1. CASE UNCHANGED tables
  BY <1>1 DEF tables
<1>2. CASE c.do = "saveBlock" /\ SaveBlock(c.b)
  <2>1. c.b \notin kv
    BY <1>2 DEF CallFits
  <2>2. QED
    BY <1>2, <2>1 DEF SaveBlock, TypeOKTables
<1>3. CASE SaveTx(<<c.b, c.i>>) \/ SaveCommit(<<c.b, c.i>>)
  BY <1>3 DEF SaveTx, SaveCommit
<1>4. CASE c.do = "saveKV" /\ SaveKV(c.set, c.b)
  BY <1>4 DEF SaveKV, CallFits
<1>5. CASE UpdateVerified(c.b)
  BY <1>5 DEF UpdateVerified, TypeOKTables
<1>6. CASE DeleteBlocks(c.set)
  BY <1>6 DEF DeleteBlocks, TypeOKTables
<1>7. CASE DeleteTxs(c.b) \/ DeleteCommits(c.b)
  BY <1>7 DEF DeleteTxs, DeleteCommits
<1>8. QED
  BY <1>1, <1>2, <1>3, <1>4, <1>5, <1>6, <1>7 DEF Execute

\* Every step keeps the lost blocks lost: the job only stores blocks that the
\* list lacks, and a late call finds the list as the job left it.
LEMMA LostStep == TypeInv /\ KVInv /\ [Next]_vars => Lost \subseteq Lost'
<1> SUFFICES ASSUME TypeInv, KVInv, [Next]_vars PROVE Lost \subseteq Lost'
  OBVIOUS
<1>1. CASE UNCHANGED tables
  BY <1>1 DEF tables, Lost
<1>2. CASE Execute(call)
  BY <1>2, ExecuteLost DEF KVInv, TypeInv, ControlType
<1>3. CASE \E n \in DOMAIN late : Execute(late[n])
  BY <1>3, ExecuteLost DEF KVInv, TypeInv, EnvType
<1>4. UNCHANGED tables \/ Execute(call) \/ \E n \in DOMAIN late : Execute(late[n])
  BY DEF Next, vars, JobStep, SyncStart, FindUnverified, RemoveUnverified,
         QueryChannelHeight, GetBlockHeight, FindMissingBlock, QueryBlock, BlockInserted,
         TransactionInserted, CommitInserted, KeyValueUpdated, Verified, CallFails,
         TimesOut, LateStatement, Crash, NewBlock
<1>5. QED
  BY <1>1, <1>2, <1>3, <1>4

\* Under the same assumption a block that is listed and has no row is beyond
\* repair: no later job, failing or not, fetches it again.
THEOREM LostIsForever == ASSUME ~Overlap PROVE Spec => LostForever
<1>1. TypeInv /\ KVInv /\ [Next]_vars => KVInv'
  BY KVStep
<1>2. TypeInv /\ KVInv /\ [Next]_vars => [Lost \subseteq Lost']_vars
  BY LostStep
<1>3. QED
  BY <1>1, <1>2, TypeInit, TypeStep, KVInit, PTL DEF Spec, LostForever

=============================================================================
