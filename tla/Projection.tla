----------------------------- MODULE Projection -----------------------------
(***************************************************************************)
(* How a transaction of the ledger becomes rows of the query side:         *)
(* processBlockEvent reads it, Transactions.setData classifies it, and     *)
(* parseWriteSet takes the commit out of its write set; and how the rows   *)
(* are read back, by code and as commits once more                         *)
(* (queryPaginatedTxAndParseToCommits).  The contract eventstore, which is *)
(* not part of the repository, stores the commits on the ledger.           *)
(*                                                                         *)
(* An input argument stands for its prefix, a payload for what the parsers *)
(* ask of it.  That statements fail and interleave is the module SyncJob.  *)
(***************************************************************************)
EXTENDS Integers, Sequences, FiniteSetsExt

CONSTANTS
    MaxTx,       \* bound: transactions of the ledger
    CommitId     \* commit ids of an entity

ASSUME ProjectionAssumption == MaxTx \in Nat

\* Entities whose name begins with dev_entity, with private_entityName, with neither.
EntityName == {"dev", "test", "ordinary"}

Contract == {"unprefixed", "eventstore", "privatedata"}

Fn == {"createCommit", "deleteByEntityId", "deleteByEntityIdCommitId", "other"}

\* "ok" says that the response of the endorsed proposal has status 200.
CallOf(chaincode, contracts, fns) ==
    [type : {"ENDORSER"}, chaincode : {chaincode}, contract : contracts, fn : fns,
     entity : EntityName, id : CommitId, valid : BOOLEAN, ok : BOOLEAN]

\* A config transaction has no id in its header, and no action.
Config ==
    [type |-> "CONFIG", chaincode |-> "", contract |-> "unprefixed", fn |-> "other",
     entity |-> "ordinary", id |-> 0, valid |-> TRUE, ok |-> FALSE]

\* Another chaincode may be called with the same arguments, and write values that look
\* like commits.
LedgerTx ==
    {Config} \cup CallOf("eventstore", Contract, Fn)
             \cup CallOf("foreign", Contract, {"createCommit"})

\* A commit row has the key of the commit's entity and id.
Key(tx) == <<tx.entity, tx.id>>

VARIABLES
    ledger,    \* the transactions, in the order of the blocks
    world,     \* the transactions whose commit is in the public state of the contract
    rows,      \* rows of the tx table, one per transaction synchronised
    commits    \* the transactions whose commit is in the commit table

projectionVars == <<ledger, world, rows, commits>>

Codes == {"TEST", "PUBLIC_COMMIT", "PRIVATE_COMMIT", "ERROR", "UNKNOWN", "INVALID_RESPONSE"}

OnePerKey(S) == \A m, n \in S : Key(ledger[m]) = Key(ledger[n]) => m = n

ProjectionTypeOK ==
    /\ ledger \in Seq(LedgerTx) /\ Len(ledger) <= MaxTx
    /\ world \subseteq DOMAIN ledger /\ OnePerKey(world)
    /\ Len(rows) <= Len(ledger)
    /\ \A n \in DOMAIN rows : rows[n].code \in Codes
    /\ commits \subseteq DOMAIN rows /\ OnePerKey(commits)

ProjectionInit == ledger = <<>> /\ world = {} /\ rows = <<>> /\ commits = {}

-----------------------------------------------------------------------------
(* The ledger                                                              *)

IsPrivate(tx) == tx.contract = "privatedata"

\* What a call puts into the public write set of its chaincode: a private call nothing,
\* its writes are hashes of a collection.
Writes(tx) ==
    IF IsPrivate(tx) THEN <<>>
    ELSE CASE tx.fn = "createCommit" -> << [is_delete |-> FALSE, value |-> "commit"] >>
           [] tx.fn = "other"        -> << [is_delete |-> FALSE, value |-> "json"] >>
           [] OTHER                  -> << [is_delete |-> TRUE, value |-> "none"] >>

\* The namespaces of a read-write set are in the order of their names; "_lifecycle" is
\* read by every call and not written.
RWSet(tx) ==
    << [ns |-> "_lifecycle", writes |-> <<>>], [ns |-> tx.chaincode, writes |-> Writes(tx)] >>

\* A call that changes the public state of the contract.
Applies(tx) == tx.chaincode = "eventstore" /\ tx.valid /\ ~IsPrivate(tx)

Stores(tx) == Applies(tx) /\ tx.fn = "createCommit"

Deletes(tx) == Applies(tx) /\ tx.fn \in {"deleteByEntityId", "deleteByEntityIdCommitId"}

\* The keys that a call writes anew or deletes.
Touches(tx, key) ==
    /\ Stores(tx) \/ Deletes(tx)
    /\ key[1] = tx.entity
    /\ tx.fn # "deleteByEntityId" => key[2] = tx.id

\* The contract applies a transaction to its state, a store of values by key.
Commit(tx) ==
    /\ Len(ledger) < MaxTx
    /\ ledger' = Append(ledger, tx)
    /\ world' = {k \in world : ~Touches(tx, Key(ledger[k]))}
                   \cup {n \in {Len(ledger) + 1} : Stores(tx)}
    /\ UNCHANGED <<rows, commits>>

-----------------------------------------------------------------------------
(* processBlockEvent                                                       *)

\* A code of the block's metadata, or no text for a transaction without an id.
ValidationCode(tx) == IF tx.type = "CONFIG" THEN "" ELSE IF tx.valid THEN "VALID" ELSE "INVALID"

ProposalInput_Any(tx) == [contract |-> tx.contract, fn |-> tx.fn, entity |-> tx.entity]

\* The arguments are kept for the chaincode eventstore only.
ProposalInput(tx) ==
    IF tx.chaincode = "eventstore"
    THEN [contract |-> tx.contract, fn |-> tx.fn, entity |-> tx.entity]
    ELSE [contract |-> "unprefixed", fn |-> "other", entity |-> "ordinary"]

\* Of a config transaction the write set is an object, not a list.
WriteSet(tx) == IF tx.type = "CONFIG" THEN <<>> ELSE RWSet(tx)

-----------------------------------------------------------------------------
(* Transactions.setData                                                    *)

\* Contract and function of an input: "eventstore:createCommit".
Called(input) == <<input.contract, input.fn>>

\* The calls that the unit tests make, and that the chaincode's own tests make.
OfUnitTest(input) ==
    \/ /\ input.entity = "dev"
       /\ Called(input) \in {<<"unprefixed", "createCommit">>, <<"eventstore", "createCommit">>,
                             <<"privatedata", "createCommit">>,
                             <<"eventstore", "deleteByEntityId">>,
                             <<"eventstore", "deleteByEntityIdCommitId">>,
                             <<"privatedata", "deleteByEntityIdCommitId">>}
    \/ input.entity = "test" /\ Called(input) = <<"privatedata", "createCommit">>

\* The tests of setData in their order; the first is that for the unit tests.
Kind(input) ==
    IF OfUnitTest(input) THEN "TEST"
    ELSE CASE Called(input) = <<"eventstore", "createCommit">>  -> "PUBLIC_COMMIT"
           [] Called(input) = <<"privatedata", "createCommit">> -> "PRIVATE_COMMIT"
           [] Called(input) \in {<<"eventstore", "deleteByEntityId">>,
                                 <<"eventstore", "deleteByEntityIdCommitId">>,
                                 <<"privatedata", "deleteByEntityIdCommitId">>} -> "ERROR"
           [] OTHER -> "UNKNOWN"

\* A deletion of anything but the test entity is classified as an error.
Code(input, validation, ok) ==
    IF validation = "VALID" /\ ok THEN Kind(input) ELSE "INVALID_RESPONSE"

Row(tx) ==
    [chaincode  |-> tx.chaincode,
     validation |-> ValidationCode(tx),
     code       |-> Code(ProposalInput(tx), ValidationCode(tx), tx.ok),
     writeSet   |-> WriteSet(tx)]

-----------------------------------------------------------------------------
(* parseWriteSet, and insertCommit of what it finds                        *)

OwnWrites_First(row) == row.writeSet[1].writes

\* The first namespace of the transaction's own chaincode.
OwnWrites(row) ==
    row.writeSet[Min({n \in DOMAIN row.writeSet : row.writeSet[n].ns = row.chaincode})].writes

IsCommit(write) == write.value = "commit" /\ ~write.is_delete

\* What is not a list is no write set; no write, no value and a deletion give null.
ParsesToCommit(row) ==
    row.writeSet # <<>> /\ OwnWrites(row) # <<>> /\ IsCommit(OwnWrites(row)[1])

\* save replaces the row that has the key of the commit.
Synchronise ==
    /\ Len(rows) < Len(ledger)
    /\ LET n == Len(rows) + 1
       IN  /\ rows' = Append(rows, Row(ledger[n]))
           /\ commits' = IF ParsesToCommit(Row(ledger[n]))
                         THEN {k \in commits : Key(ledger[k]) # Key(ledger[n])} \cup {n}
                         ELSE commits
    /\ UNCHANGED <<ledger, world>>

ProjectionNext == Synchronise \/ \E tx \in LedgerTx : Commit(tx)

ProjectionSpec == ProjectionInit /\ [][ProjectionNext]_projectionVars

-----------------------------------------------------------------------------
(* Reads                                                                   *)

WithCode(code) == {n \in DOMAIN rows : rows[n].code = code /\ rows[n].validation = "VALID"}

\* queryPaginatedTxAndParseToCommits: one transaction without a commit makes the
\* whole page null.
PageIsNull(code) == \E n \in WithCode(code) : ~ParsesToCommit(rows[n])

-----------------------------------------------------------------------------

\* Every commit in the public state of the contract has its row once the ledger is
\* synchronised, and the row is that of the transaction which put the commit there, unless
\* a later one that the ledger did not apply -- an invalid one, or one of another chaincode
\* -- has taken it: parseWriteSet looks at neither.
WorldProjected ==
    \A n \in world \cap DOMAIN rows :
        \E k \in commits : /\ Key(ledger[k]) = Key(ledger[n]) /\ k >= n
                          /\ k # n => ~Stores(ledger[k])

\* The two ways to read public commits agree: no page of the tx table by their code is
\* null, and what is on it is a valid transaction of the contract whose key has a row in
\* the commit table, its own or a later one.  Private commits are in neither: no
\* transaction with their code parses, and a page on which there is one is null.
ReadsAgree ==
    /\ ~PageIsNull("PUBLIC_COMMIT")
    /\ \A n \in WithCode("PUBLIC_COMMIT") :
          /\ Stores(ledger[n])
          /\ \E k \in commits : Key(ledger[k]) = Key(ledger[n]) /\ k >= n
    /\ \A n \in WithCode("PRIVATE_COMMIT") : ~ParsesToCommit(rows[n])

=============================================================================
