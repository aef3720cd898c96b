------------------------------ MODULE QueryDb ------------------------------
(***************************************************************************)
(* The four tables of the query side (src/src/querydb): blocks, tx, commit *)
(* and the KeyValue row "insertedBlock", and the SQL statements that the   *)
(* functions of createQueryDb issue on them.  One statement is one step:   *)
(* PostgreSQL makes a statement atomic, nothing makes a function of        *)
(* createQueryDb atomic, for it opens no transaction around its            *)
(* statements.  A function in progress is a "call": the statement it will  *)
(* execute next and what it has read so far.                               *)
(*                                                                         *)
(* A definition X_Defect is X with a plausible defect.  The specification  *)
(* does not use it: putting it in the place of X shows that a property     *)
(* would notice (README, "Sensitivity of the properties").                 *)
(***************************************************************************)
EXTENDS Integers, FiniteSetsExt

CONSTANTS
    MaxBlock,    \* the last block the ledger can reach in this instance
    NTx,         \* NTx[b]: the number of transactions of block b
    WithCommit   \* the <<b, i>> whose write set holds a commit

Block == 0 .. MaxBlock

ASSUME LedgerAssumption ==
    /\ MaxBlock \in Nat
    /\ NTx \in [Block -> Nat \ {0}]

\* The i-th transaction of block b is <<b, i>>.
Tx == UNION {{b} \X (1 .. NTx[b]) : b \in Block}

ASSUME CommitAssumption == WithCommit \subseteq Tx

VARIABLES
    block,       \* block[b]: whether b has a row, and its column "verified"
    txs,         \* the rows of the tx table
    commits,     \* the rows of the commit table, named by their transaction
    kv           \* the block numbers listed in the value of "insertedBlock"

tables == <<block, txs, commits, kv>>

RowState == {"absent", "unverified", "verified"}

Present    == {b \in Block : block[b] # "absent"}

Unverified_NoRow == {}

\* findUnverified, and the first statement of removeUnverifiedBlock.
Unverified == {b \in Block : block[b] = "unverified"}

\* Blocks that findMissingBlock takes for stored and that have no row.
Lost == {b \in kv : block[b] = "absent"}

TypeOKTables ==
    /\ block \in [Block -> RowState]
    /\ txs \subseteq Tx
    /\ commits \subseteq WithCommit
    /\ kv \subseteq Block

-----------------------------------------------------------------------------
(* Calls. "b" and "i" say which row the next statement is about, "set" is   *)
(* what an earlier statement of the same call has read.                     *)

Statement == {"none", "saveBlock", "saveTx", "saveCommit", "preloadKV", "saveKV",
              "updateVerified", "findRows", "deleteBlocks", "deleteTxs", "deleteCommits"}

CallType == [do : Statement, b : Block, i : Nat, set : SUBSET Block]

Call(do, b, i) == [do |-> do, b |-> b, i |-> i, set |-> {}]

NoCall == Call("none", 0, 0)

SaveBlock_Verified(b) ==
    /\ block' = [block EXCEPT ![b] = "verified"]
    /\ UNCHANGED <<txs, commits, kv>>

\* insertBlock: save() keeps the column "verified" of an existing row, and
\* gives a new row its default, false.
SaveBlock(b) ==
    /\ block' = [block EXCEPT ![b] = IF @ = "absent" THEN "unverified" ELSE @]
    /\ UNCHANGED <<txs, commits, kv>>

SaveTx(t) ==
    /\ txs' = txs \cup {t}
    /\ UNCHANGED <<block, commits, kv>>

SaveCommit(t) ==
    /\ commits' = commits \cup {t}
    /\ UNCHANGED <<block, txs, kv>>

SaveKV_Overwrite(read, b) ==
    /\ kv' = {b}
    /\ UNCHANGED <<block, txs, commits>>

\* updateInsertedBlockKeyValue writes back the list it has read, and b.
SaveKV(read, b) ==
    /\ kv' = read \cup {b}
    /\ UNCHANGED <<block, txs, commits>>

\* updateVerified: an UPDATE that matches no row is no error.
UpdateVerified(b) ==
    /\ block' = [block EXCEPT ![b] = IF @ = "absent" THEN @ ELSE "verified"]
    /\ UNCHANGED <<txs, commits, kv>>

DeleteBlocks_Dropped(S) == UNCHANGED tables

DeleteBlocks(S) ==
    /\ block' = [b \in Block |-> IF b \in S THEN "absent" ELSE block[b]]
    /\ UNCHANGED <<txs, commits, kv>>

DeleteTxs(b) ==
    /\ txs' = {t \in txs : t[1] # b}
    /\ UNCHANGED <<block, commits, kv>>

DeleteCommits(b) ==
    /\ commits' = {t \in commits : t[1] # b}
    /\ UNCHANGED <<block, txs, kv>>

\* The next statement of call c.
Execute(c) ==
    \/ c.do \in {"none", "preloadKV", "findRows"} /\ UNCHANGED tables
    \/ c.do = "saveBlock"      /\ SaveBlock(c.b)
    \/ c.do = "saveTx"         /\ SaveTx(<<c.b, c.i>>)
    \/ c.do = "saveCommit"     /\ SaveCommit(<<c.b, c.i>>)
    \/ c.do = "saveKV"         /\ SaveKV(c.set, c.b)
    \/ c.do = "updateVerified" /\ UpdateVerified(c.b)
    \/ c.do = "deleteBlocks"   /\ DeleteBlocks(c.set)
    \/ c.do = "deleteTxs"      /\ DeleteTxs(c.b)
    \/ c.do = "deleteCommits"  /\ DeleteCommits(c.b)

\* removeUnverifiedBlock deletes the transactions, then the commits, of the
\* blocks it has found, one block at a time in ascending order.
Ahead(c) == {b \in c.set : b > c.b}

\* What is left of call c after that statement; NoCall when it returns.
After(c) ==
    CASE c.do = "preloadKV" -> [c EXCEPT !.do = "saveKV", !.set = kv]
      [] c.do = "findRows" /\ Unverified # {} ->
           [c EXCEPT !.do = "deleteBlocks", !.set = Unverified, !.b = Min(Unverified)]
      [] c.do = "deleteBlocks" -> [c EXCEPT !.do = "deleteTxs"]
      [] c.do \in {"deleteTxs", "deleteCommits"} /\ Ahead(c) # {} ->
           [c EXCEPT !.b = Min(Ahead(c))]
      [] c.do = "deleteTxs" /\ Ahead(c) = {} ->
           [c EXCEPT !.do = "deleteCommits", !.b = Min(c.set)]
      [] OTHER -> NoCall

\* The calls the synchronisation job makes.
InsertBlock(b)                 == Call("saveBlock", b, 0)
InsertTransaction(b, i)        == Call("saveTx", b, i)
InsertCommit(b, i)             == Call("saveCommit", b, i)
UpdateInsertedBlockKeyValue(b) == Call("preloadKV", b, 0)
SetVerified(b)                 == Call("updateVerified", b, 0)
RemoveUnverifiedBlock          == Call("findRows", 0, 0)

\* Reads: findMissingBlock looks only at the KeyValue row, getBlockHeight only
\* at the blocks table (0 stands for null: the job only subtracts it).
BlockHeight == IF Present = {} THEN 0 ELSE Max(Present) + 1

MissingUpTo_Short(h)   == {b \in 0 .. h - 1 : b \notin kv}
MissingUpTo_Refetch(h) == {b \in 0 .. h : b \notin kv \/ b + 1 = BlockHeight}

MissingUpTo(h) == {b \in 0 .. h : b \notin kv}

=============================================================================
