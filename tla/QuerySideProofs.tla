--------------------------- MODULE QuerySideProofs ---------------------------
(***************************************************************************)
(* Proofs about QuerySide, for every length of the ledger, of the table    *)
(* and of the list of messages, and for every size of a page.              *)
(***************************************************************************)
EXTENDS QuerySide, FiniteSetTheorems, SequenceTheorems, TLAPS

-----------------------------------------------------------------------------
(* The inductive invariants                                                *)

RowSet == {Row(tx) : tx \in LedgerTx}

\* A transaction whose write set has a commit, and what parseWriteSet finds.
Creates(tx) == tx.type = "ENDORSER" /\ tx.fn = "createCommit" /\ ~IsPrivate(tx)

\* A row is that of its transaction.  What the contract holds was put there by the last of
\* its transactions to touch the key; every commit that was parsed has a row of its key,
\* its own or a later one's.
ProjectionInv ==
    /\ ledger \in Seq(LedgerTx) /\ Len(ledger) <= MaxTx
    /\ rows \in Seq(RowSet) /\ Len(rows) <= Len(ledger)
    /\ \A n \in 1 .. Len(rows) : rows[n] = Row(ledger[n])
    /\ world \subseteq 1 .. Len(ledger)
    /\ \A n \in world :
          /\ Stores(ledger[n])
          /\ \A k \in 1 .. Len(ledger) :
                k > n /\ Stores(ledger[k]) => Key(ledger[k]) # Key(ledger[n])
    /\ commits \subseteq 1 .. Len(rows) /\ OnePerKey(commits)
    /\ \A n \in 1 .. Len(rows) :
          Creates(ledger[n]) => \E k \in commits : Key(ledger[k]) = Key(ledger[n]) /\ k >= n

\* While no row has been removed, nor added in front of another, the rows there were at the
\* beginning have kept their places: those below "skip" that are alone with their keys have
\* been read, and all are counted.
PagingInv ==
    /\ PagingTypeOK
    /\ ~disturbed =>
         /\ asked \subseteq table
         /\ at = "find" => \A a \in asked : Before(KeyOf[a]) < total
         /\ at # "done" /\ skip # Undefined =>
               \A a \in asked : Alone(a) /\ Before(KeyOf[a]) < skip => a \in got
         /\ at = "done" /\ skip # Undefined => \A a \in asked : Alone(a) => a \in got

\* The endpoint has not received what is still on its way or not yet sent.
MessageInv ==
    /\ MessageTypeOK
    /\ \A m \in Msg : m \in posting \/ m \notin 1 .. Len(sent) => received[m] = 0

QuerySideInv == ProjectionInv /\ PagingInv /\ MessageInv

-----------------------------------------------------------------------------
(* From a transaction to a row and back                                    *)

\* A config transaction is not endorsed.
LEMMA ConfigType ==
  Config.type = "CONFIG"
  BY DEF Config

\* A transaction is the config transaction, or an endorsed call.
LEMMA TxKinds ==
  ASSUME NEW tx \in LedgerTx
  PROVE  \/ tx = Config
         \/ /\ tx.type = "ENDORSER" /\ tx.chaincode \in {"eventstore", "foreign"}
            /\ tx.contract \in Contract /\ tx.fn \in Fn
  BY DEF LedgerTx, CallOf, Fn

\* The first namespace of an endorsed transaction is not its own, the second one is.
LEMMA OwnWritesOf ==
  ASSUME NEW tx \in LedgerTx, tx.type = "ENDORSER"
  PROVE  Row(tx).writeSet # <<>> /\ OwnWrites(Row(tx)) = Writes(tx)
  <1>1. tx.chaincode # "_lifecycle"
    BY TxKinds, ConfigType
  <1> DEFINE w == Writes(tx)
             s == << [ns |-> "_lifecycle", writes |-> <<>>], [ns |-> tx.chaincode, writes |-> w] >>
  <1>2. Row(tx).writeSet = s /\ Row(tx).chaincode = tx.chaincode
    BY DEF Row, WriteSet, RWSet
  <1> HIDE DEF w
  <1>3. {n \in DOMAIN s : s[n].ns = tx.chaincode} = {2}
    BY <1>1
  <1>4. Min({2}) = 2
    BY DEF Min
  <1>5. s # <<>> /\ s[2].writes = w
    OBVIOUS
  <1> HIDE DEF s
  <1>6. OwnWrites(Row(tx)) = s[Min({n \in DOMAIN s : s[n].ns = tx.chaincode})].writes
    BY <1>2 DEF OwnWrites
  <1>7. OwnWrites(Row(tx)) = w
    BY <1>3, <1>4, <1>5, <1>6
  <1> QED  BY <1>2, <1>5, <1>7 DEF w

\* The parser finds the commit of every public creation and of nothing else: a private one
\* has no public write.
LEMMA ParsesCreations ==
  ASSUME NEW tx \in LedgerTx
  PROVE  ParsesToCommit(Row(tx)) <=> Creates(tx)
  <1>1. CASE tx = Config
    BY <1>1 DEF Config, ParsesToCommit, Row, WriteSet, Creates
  <1>2. CASE tx.type = "ENDORSER"
    <2>1. tx.fn \in Fn
      BY <1>2, TxKinds, ConfigType
    <2> DEFINE o == OwnWrites(Row(tx))
    <2>2. Row(tx).writeSet # <<>> /\ o = Writes(tx)
      BY <1>2, OwnWritesOf
    <2>3. ParsesToCommit(Row(tx)) <=> o # <<>> /\ o[1].value = "commit" /\ ~o[1].is_delete
      BY <2>2 DEF ParsesToCommit, IsCommit
    <2> HIDE DEF o
    <2>4. CASE IsPrivate(tx)
      <3>1. o = <<>>
        BY <2>2, <2>4 DEF Writes
      <3> QED  BY <2>3, <2>4, <3>1 DEF Creates
    <2>5. CASE ~IsPrivate(tx) /\ tx.fn = "createCommit"
      <3>1. o = << [is_delete |-> FALSE, value |-> "commit"] >>
        BY <2>2, <2>5 DEF Writes
      <3>2. o # <<>> /\ o[1].value = "commit" /\ o[1].is_delete = FALSE
        BY <3>1
      <3> QED  BY <1>2, <2>3, <2>5, <3>2 DEF Creates
    <2>6. CASE ~IsPrivate(tx) /\ tx.fn # "createCommit"
      <3>1. \/ o = << [is_delete |-> FALSE, value |-> "json"] >>
            \/ o = << [is_delete |-> TRUE, value |-> "none"] >>
        BY <2>2, <2>6 DEF Writes
      <3>2. o[1].value # "commit"
        BY <3>1
      <3> QED  BY <2>3, <2>6, <3>2 DEF Creates
    <2> QED  BY <2>4, <2>5, <2>6
  <1> QED  BY <1>1, <1>2, TxKinds

\* What is classified as a public or a private commit is a valid creation by the contract
\* of that name.
LEMMA CodeOfRow ==
  ASSUME NEW tx \in LedgerTx
  PROVE  /\ Row(tx).code \in Codes
         /\ Row(tx).code = "PUBLIC_COMMIT" => Stores(tx)
         /\ Row(tx).code = "PRIVATE_COMMIT" => IsPrivate(tx)
  <1> DEFINE input == ProposalInput(tx)
             v == ValidationCode(tx)
  <1>1. Row(tx).code = Code(input, v, tx.ok)
    BY DEF Row
  <1>2. v = "VALID" => tx.valid
    BY DEF ValidationCode
  <1>3. \/ /\ tx.chaincode = "eventstore"
           /\ input.contract = tx.contract /\ input.fn = tx.fn
        \/ input.contract = "unprefixed"
    BY DEF ProposalInput
  <1> HIDE DEF input, v
  <1>4. Code(input, v, tx.ok) \in Codes
    BY DEF Code, Kind, Codes
  <1>5. /\ Code(input, v, tx.ok) = "PUBLIC_COMMIT" =>
              v = "VALID" /\ input.contract = "eventstore" /\ input.fn = "createCommit"
        /\ Code(input, v, tx.ok) = "PRIVATE_COMMIT" => input.contract = "privatedata"
    BY DEF Code, Kind, Called
  <1> QED  BY <1>1, <1>2, <1>3, <1>4, <1>5 DEF Stores, Applies, IsPrivate

\* A transaction that stores a commit touches the key of it and no other.
LEMMA StoresTouches ==
  ASSUME NEW tx, NEW other, Stores(tx), ~Touches(tx, Key(other))
  PROVE  Key(other) # Key(tx)
  BY DEF Stores, Touches, Key

\* What the contract stores, the parser finds.
LEMMA StoresCreates ==
  ASSUME NEW tx \in LedgerTx, Stores(tx)
  PROVE  Creates(tx)
  <1>1. tx # Config
    <2>1. tx.chaincode = "eventstore"
      BY DEF Stores, Applies
    <2>2. Config.chaincode = ""
      BY DEF Config
    <2> QED  BY <2>1, <2>2
  <1> QED  BY <1>1, TxKinds DEF Stores, Applies, Creates

\* Rows follow the ledger, and the commit table follows the rows.
LEMMA ProjectionStep ==
  ASSUME ProjectionInv, ProjectionNext
  PROVE  ProjectionInv'
  <1>1. /\ ledger \in Seq(LedgerTx) /\ rows \in Seq(RowSet) /\ Len(ledger) \in Nat /\ Len(rows) \in Nat
        /\ Len(rows) <= Len(ledger) /\ world \subseteq 1 .. Len(ledger)
        /\ commits \subseteq 1 .. Len(rows)
    BY DEF ProjectionInv
  <1>2. ASSUME NEW tx \in LedgerTx, Commit(tx) PROVE ProjectionInv'
    <2> DEFINE last == Len(ledger) + 1
    <2>1. /\ ledger' = Append(ledger, tx) /\ Len(ledger) < MaxTx /\ UNCHANGED <<rows, commits>>
          /\ world' = {k \in world : ~Touches(tx, Key(ledger[k]))} \cup {n \in {last} : Stores(tx)}
      BY <1>2 DEF Commit
    <2>2. /\ ledger' \in Seq(LedgerTx) /\ Len(ledger') = last
          /\ \A n \in 1 .. Len(ledger) : ledger'[n] = ledger[n]
          /\ ledger'[last] = tx
      BY <1>1, <2>1
    <2>3. Len(ledger') <= MaxTx
      BY <1>1, <2>1, <2>2, ProjectionAssumption
    <2>4. /\ rows' \in Seq(RowSet) /\ Len(rows') <= Len(ledger')
          /\ \A n \in 1 .. Len(rows') : rows'[n] = Row(ledger'[n])
      BY <1>1, <2>1, <2>2 DEF ProjectionInv
    <2>5. ASSUME NEW n \in world'
          PROVE  /\ n \in 1 .. Len(ledger') /\ Stores(ledger'[n])
                 /\ \A k \in 1 .. Len(ledger') :
                       k > n /\ Stores(ledger'[k]) => Key(ledger'[k]) # Key(ledger'[n])
      <3>1. CASE n \in world /\ ~Touches(tx, Key(ledger[n]))
        <4>1. n \in 1 .. Len(ledger) /\ ledger'[n] = ledger[n]
          BY <1>1, <2>2, <3>1
        <4>2. Stores(ledger[n]) /\ n \in 1 .. Len(ledger')
          BY <1>1, <2>2, <3>1, <4>1 DEF ProjectionInv
        <4>3. ASSUME NEW k \in 1 .. Len(ledger'), k > n, Stores(ledger'[k])
              PROVE  Key(ledger'[k]) # Key(ledger'[n])
          <5>1. CASE k = last
            BY <2>2, <3>1, <4>1, <4>3, <5>1, StoresTouches
          <5>2. CASE k # last
            <6>1. k \in 1 .. Len(ledger) /\ ledger'[k] = ledger[k]
              BY <1>1, <2>2, <5>2
            <6> QED  BY <3>1, <4>1, <4>3, <6>1 DEF ProjectionInv
          <5> QED  BY <5>1, <5>2
        <4> QED  BY <4>1, <4>2, <4>3
      <3>2. CASE n = last /\ Stores(tx)
        BY <1>1, <2>2, <3>2
      <3> QED  BY <2>1, <3>1, <3>2
    <2>6. /\ commits' \subseteq 1 .. Len(rows') /\ OnePerKey(commits)'
          /\ \A n \in 1 .. Len(rows') : Creates(ledger'[n]) =>
                \E k \in commits' : Key(ledger'[k]) = Key(ledger'[n]) /\ k >= n
      <3>1. \A n \in 1 .. Len(rows) : ledger'[n] = ledger[n]
        BY <1>1, <2>2
      <3>2. UNCHANGED <<rows, commits>> /\ \A k \in commits : ledger'[k] = ledger[k]
        BY <1>1, <2>1, <3>1
      <3>3. OnePerKey(commits)'
        <4>1. OnePerKey(commits)
          BY DEF ProjectionInv
        <4> QED  BY <3>2, <4>1 DEF OnePerKey
      <3>4. ASSUME NEW n \in 1 .. Len(rows), Creates(ledger'[n])
            PROVE  \E k \in commits : Key(ledger'[k]) = Key(ledger'[n]) /\ k >= n
        <4>1. ledger'[n] = ledger[n]
          BY <3>1
        <4>2. PICK k \in commits : Key(ledger[k]) = Key(ledger[n]) /\ k >= n
          BY <3>4, <4>1 DEF ProjectionInv
        <4> QED  BY <3>2, <4>1, <4>2
      <3> QED  BY <1>1, <3>2, <3>3, <3>4
    <2> QED  BY <2>2, <2>3, <2>4, <2>5, <2>6 DEF ProjectionInv
  <1>3. CASE Synchronise
    <2> DEFINE k == Len(rows) + 1
               row == Row(ledger[k])
    <2>1. /\ Len(rows) < Len(ledger) /\ rows' = Append(rows, row) /\ UNCHANGED <<ledger, world>>
          /\ commits' = IF ParsesToCommit(row)
                        THEN {c \in commits : Key(ledger[c]) # Key(ledger[k])} \cup {k}
                        ELSE commits
      BY <1>3 DEF Synchronise
    <2>2. ledger[k] \in LedgerTx /\ row \in RowSet /\ (ParsesToCommit(row) <=> Creates(ledger[k]))
      BY <1>1, <2>1, ParsesCreations DEF RowSet
    <2> HIDE DEF row
    <2>3. /\ rows' \in Seq(RowSet) /\ Len(rows') = k /\ rows'[k] = row
          /\ \A n \in 1 .. Len(rows) : rows'[n] = rows[n]
      BY <1>1, <2>1, <2>2
    <2>4. \A n \in 1 .. Len(rows') : rows'[n] = Row(ledger'[n])
      <3> TAKE n \in 1 .. Len(rows')
      <3>1. CASE n = k
        BY <2>1, <2>3, <3>1 DEF row
      <3>2. CASE n # k
        BY <1>1, <2>1, <2>3, <3>2 DEF ProjectionInv
      <3> QED  BY <3>1, <3>2
    <2>5. Len(rows') <= Len(ledger')
      BY <1>1, <2>1, <2>3
    <2>6. 1 .. Len(rows') = (1 .. Len(rows)) \cup {k} /\ \A n \in 1 .. Len(rows) : n < k
      BY <1>1, <2>3
    <2>7. commits' \subseteq 1 .. Len(rows') /\ OnePerKey(commits)'
      <3> HIDE DEF k
      <3>1. OnePerKey(commits)
        BY DEF ProjectionInv
      <3>2. CASE ParsesToCommit(row)
        BY <1>1, <2>1, <2>6, <3>1, <3>2 DEF OnePerKey
      <3>3. CASE ~ParsesToCommit(row)
        BY <1>1, <2>1, <2>6, <3>1, <3>3 DEF OnePerKey
      <3> QED  BY <3>2, <3>3
    <2>8. ASSUME NEW n \in 1 .. Len(rows'), Creates(ledger[n])
          PROVE  \E c \in commits' : Key(ledger[c]) = Key(ledger[n]) /\ c >= n
      <3>1. CASE n = k
        <4>1. k \in commits'
          BY <2>1, <2>2, <2>8, <3>1
        <4> QED  BY <1>1, <3>1, <4>1
      <3>2. CASE n # k
        <4>1. n \in 1 .. Len(rows)
          BY <2>6, <3>2
        <4>2. PICK c \in commits : Key(ledger[c]) = Key(ledger[n]) /\ c >= n
          BY <2>8, <4>1 DEF ProjectionInv
        <4>3. CASE c \in commits'
          BY <4>2, <4>3
        <4>4. CASE c \notin commits'
          <5>1. k \in commits' /\ Key(ledger[k]) = Key(ledger[c])
            BY <2>1, <4>4
          <5>2. k >= n
            BY <1>1, <4>1
          <5> QED  BY <4>2, <5>1, <5>2
        <4> QED  BY <4>3, <4>4
      <3> QED  BY <3>1, <3>2
    <2> QED
      <3>1. /\ ledger' \in Seq(LedgerTx) /\ Len(ledger') <= MaxTx /\ world' \subseteq 1 .. Len(ledger')
            /\ \A n \in world' :
                 /\ Stores(ledger'[n])
                 /\ \A c \in 1 .. Len(ledger') :
                       c > n /\ Stores(ledger'[c]) => Key(ledger'[c]) # Key(ledger'[n])
        BY <2>1 DEF ProjectionInv
      <3>2. \A n \in 1 .. Len(rows') : Creates(ledger'[n]) =>
                \E c \in commits' : Key(ledger'[c]) = Key(ledger'[n]) /\ c >= n
        BY <2>1, <2>8
      <3> HIDE DEF k
      <3> QED  BY <2>3, <2>4, <2>5, <2>7, <3>1, <3>2 DEF ProjectionInv
  <1> QED  BY <1>2, <1>3 DEF ProjectionNext

-----------------------------------------------------------------------------
(* Places in a finite table                                                *)

\* The rows in front of r are finitely many, and fewer than all when r is one of them.
LEMMA BeforeBound ==
  ASSUME table \subseteq TableRow
  PROVE  /\ Cardinality(TableRow) \in Nat
         /\ Cardinality(table) \in 0 .. Cardinality(TableRow)
         /\ \A key : Before(key) \in Nat
         /\ \A r \in table : Before(KeyOf[r]) < Cardinality(table)
  <1>1. IsFiniteSet(TableRow) /\ Cardinality(TableRow) \in Nat
    BY FS_CardinalityType, PagingAssumption
  <1>2. /\ IsFiniteSet(table) /\ Cardinality(table) <= Cardinality(TableRow)
        /\ Cardinality(table) \in Nat
    BY <1>1, FS_Subset, FS_CardinalityType
  <1>3. ASSUME NEW key PROVE Before(key) \in Nat
    <2>1. {s \in table : KeyOf[s] < key} \in SUBSET table
      OBVIOUS
    <2> QED  BY <1>2, <2>1, FS_Subset, FS_CardinalityType DEF Before
  <1>4. ASSUME NEW r \in table PROVE Before(KeyOf[r]) < Cardinality(table)
    <2>1. IsFiniteSet(table \ {r}) /\ Cardinality(table \ {r}) = Cardinality(table) - 1
      BY <1>2, FS_RemoveElement
    <2>2. {s \in table : KeyOf[s] < KeyOf[r]} \in SUBSET (table \ {r})
      <3>1. KeyOf[r] \in Nat
        BY PagingAssumption
      <3>2. ~(KeyOf[r] < KeyOf[r])
        BY <3>1
      <3> QED  BY <3>2
    <2>3. Before(KeyOf[r]) <= Cardinality(table \ {r})
      BY <2>1, <2>2, FS_Subset DEF Before
    <2>4. Before(KeyOf[r]) \in Nat
      BY <1>3
    <2> QED  BY <1>2, <2>1, <2>3, <2>4
  <1> QED  BY <1>1, <1>2, <1>3, <1>4

\* A row that is alone with its key is on the page that its place is on, whatever page the
\* database makes.
LEMMA AloneOnPage ==
  ASSUME table \subseteq TableRow, NEW from \in Nat, NEW P \in Pages(from),
         NEW r \in table, Alone(r),
         from <= Before(KeyOf[r]), Before(KeyOf[r]) < from + Take
  PROVE  r \in P
  <1> DEFINE key == KeyOf[r]
             b == Before(key)
  <1>1. b \in Nat /\ Take \in Nat
    BY BeforeBound, PagingAssumption
  <1>2. Class(key) = {r} /\ Cardinality(Class(key)) = 1
    BY FS_Singleton DEF Alone
  <1>3. Cardinality(P \cap Class(key)) = Share(key, from)
    BY DEF Pages
  <1> HIDE DEF b
  <1>4. (from .. from + Take - 1) \cap (b .. b + 1 - 1) = {b}
    BY <1>1 DEF b
  <1>5. Share(key, from) = 1
    BY <1>2, <1>4, FS_Singleton DEF Share, b
  <1>6. ASSUME r \notin P PROVE FALSE
    <2>1. P \cap Class(key) = {}
      BY <1>2, <1>6
    <2> QED  BY <1>3, <1>5, <2>1, FS_EmptySet
  <1> QED  BY <1>6

\* A find gives every row that is there, is alone with its key, and has its place below the
\* offset of the next find.
LEMMA PageReaches ==
  ASSUME PagingTypeOK, skip # Undefined, NEW P \in Pages(Offset),
         NEW a \in table, Alone(a), Before(KeyOf[a]) < skip + Take,
         Before(KeyOf[a]) < skip => a \in got
  PROVE  a \in got \cup P
  <1>1. /\ Before(KeyOf[a]) \in Nat /\ skip \in Nat /\ Take \in Nat
        /\ table \subseteq TableRow /\ Offset = skip
    BY BeforeBound, PagingAssumption DEF PagingTypeOK, Offset
  <1>2. CASE Before(KeyOf[a]) < skip
    BY <1>2
  <1>3. CASE ~(Before(KeyOf[a]) < skip)
    BY <1>1, <1>3, AloneOnPage
  <1> QED  BY <1>2, <1>3

\* The types of the paginated reads are kept: a cursor is below the count it came from.
LEMMA PagingTypes ==
  ASSUME PagingTypeOK, PagingNext
  PROVE  PagingTypeOK'
  <1> USE PagingAssumption DEF PagingTypeOK
  <1>0. Cardinality(TableRow) \in Nat
    BY BeforeBound
  <1>1. CASE Start
    <2>1. /\ table' = table /\ asked' = table /\ got' = {} /\ at' = "count" /\ total' = 0
          /\ skip' \in {0, Undefined} /\ disturbed' = FALSE
      BY <1>1 DEF Start
    <2>2. 0 \in 0 .. Cardinality(TableRow) /\ {} \subseteq TableRow /\ FALSE \in BOOLEAN
      BY <1>0
    <2> HIDE DEF Undefined
    <2> QED  BY <2>1, <2>2
  <1>2. CASE Count
    BY <1>2, BeforeBound DEF Count
  <1>3. CASE Find
    <2>1. PICK P \in Pages(Offset) : got' = got \cup P
      BY <1>3 DEF Find
    <2>2. P \subseteq TableRow
      BY <2>1 DEF Pages
    <2>3. HasMore => skip' \in 1 .. Cardinality(TableRow) - 1
      BY <1>0, <1>3 DEF Find, HasMore, Cursor, Undefined
    <2> QED  BY <1>3, <2>1, <2>2, <2>3 DEF Find
  <1>4. CASE Insert
    BY <1>4 DEF Insert
  <1>5. CASE Delete
    BY <1>5 DEF Delete
  <1> QED  BY <1>1, <1>2, <1>3, <1>4, <1>5 DEF PagingNext

\* What has been read and counted stays so until a row is removed or added in front.  A row
\* that is added behind may share its key with another, which then is alone no longer.
LEMMA PagingStep ==
  ASSUME PagingInv, PagingNext
  PROVE  PagingInv'
  <1>1. PagingTypeOK /\ PagingTypeOK'
    BY PagingTypes DEF PagingInv
  <1>2. table \subseteq TableRow /\ asked \subseteq TableRow
    BY <1>1 DEF PagingTypeOK
  <1> DEFINE Counted == at = "find" => \A a \in asked : Before(KeyOf[a]) < total
             Reached == at # "done" /\ skip # Undefined =>
                          \A a \in asked : Alone(a) /\ Before(KeyOf[a]) < skip => a \in got
             Finished == at = "done" /\ skip # Undefined =>
                          \A a \in asked : Alone(a) => a \in got
  <1> SUFFICES ASSUME ~disturbed'
               PROVE  (asked \subseteq table)' /\ Counted' /\ Reached' /\ Finished'
    BY <1>1 DEF PagingInv
  <1>3. ~disturbed => asked \subseteq table /\ Counted /\ Reached /\ Finished
    BY DEF PagingInv
  <1>a. ASSUME UNCHANGED table, NEW a
        PROVE  Before(KeyOf[a])' = Before(KeyOf[a]) /\ (Alone(a)' <=> Alone(a))
    BY <1>a DEF Before, Alone, Class
  <1>4. CASE Start
    <2>1. /\ asked' = table /\ table' = table /\ at' = "count" /\ skip' \in {0, Undefined}
      BY <1>4 DEF Start
    <2>2. \A a \in asked' : Before(KeyOf[a])' \in Nat
      BY <1>2, <1>a, <2>1, BeforeBound
    <2> QED  BY <2>1, <2>2
  <1>5. CASE Count
    <2>1. /\ at = "count" /\ at' = "find" /\ total' = Cardinality(table)
          /\ UNCHANGED <<table, skip, got, asked, disturbed>>
      BY <1>5 DEF Count
    <2>2. \A a : Before(KeyOf[a])' = Before(KeyOf[a]) /\ (Alone(a)' <=> Alone(a))
      BY <1>a, <2>1
    <2>3. \A a \in asked : Before(KeyOf[a]) < total'
      BY <1>2, <1>3, <2>1, BeforeBound
    <2> QED  BY <1>2, <1>3, <2>1, <2>2, <2>3
  <1>6. CASE Find
    <2>1. PICK P \in Pages(Offset) : got' = got \cup P
      BY <1>6 DEF Find
    <2>2. /\ at = "find" /\ UNCHANGED <<table, total, asked, disturbed>>
          /\ \/ HasMore /\ at' = "count" /\ skip' = skip + Take /\ skip # Undefined
             \/ ~HasMore /\ at' = "done" /\ skip' = skip
      BY <1>6 DEF Find, HasMore, Cursor
    <2>3. \A a : Before(KeyOf[a])' = Before(KeyOf[a]) /\ (Alone(a)' <=> Alone(a))
      BY <1>a, <2>2
    <2>4. /\ asked \subseteq table /\ ~disturbed
          /\ \A a \in asked : Before(KeyOf[a]) < total
          /\ skip # Undefined =>
               \A a \in asked : Alone(a) /\ Before(KeyOf[a]) < skip => a \in got
      BY <1>3, <2>2
    <2>5. ASSUME skip # Undefined, NEW a \in asked, Alone(a), Before(KeyOf[a]) < skip + Take
          PROVE  a \in got'
      BY <1>1, <2>1, <2>4, <2>5, PageReaches
    <2>6. CASE HasMore
      BY <1>2, <2>2, <2>3, <2>4, <2>5, <2>6
    <2>7. CASE ~HasMore
      <3>1. skip # Undefined => \A a \in asked : Before(KeyOf[a]) < skip + Take
        <4> SUFFICES ASSUME skip # Undefined, NEW a \in asked
                     PROVE  Before(KeyOf[a]) < skip + Take
          OBVIOUS
        <4>1. Before(KeyOf[a]) \in Nat /\ total \in Nat /\ skip \in Nat /\ Take \in Nat
          BY <1>1, <1>2, BeforeBound, PagingAssumption DEF PagingTypeOK
        <4>2. total <= skip + Take
          BY <2>7, <4>1 DEF HasMore
        <4> QED  BY <2>4, <4>1, <4>2
      <3> QED  BY <2>2, <2>3, <2>4, <2>5, <2>7, <3>1
    <2> QED  BY <2>6, <2>7
  <1>7. CASE Insert
    <2>1. PICK r \in TableRow \ table :
             table' = table \cup {r} /\ \A a \in table : ~(KeyOf[a] > KeyOf[r])
      BY <1>7 DEF Insert
    <2>2. ~disturbed /\ UNCHANGED <<at, skip, total, got, asked>>
      BY <1>7 DEF Insert
    <2>3. asked \subseteq table
      BY <1>3, <2>2
    <2>4. ASSUME NEW a \in asked
          PROVE  Before(KeyOf[a])' = Before(KeyOf[a]) /\ (Alone(a)' => Alone(a))
      <3>1. a \in table /\ KeyOf[a] \in Nat /\ KeyOf[r] \in Nat
        BY <1>2, <2>3, PagingAssumption
      <3>2. ~(KeyOf[r] < KeyOf[a])
        BY <2>1, <3>1
      <3>3. {s \in table' : KeyOf[s] < KeyOf[a]} = {s \in table : KeyOf[s] < KeyOf[a]}
        BY <2>1, <3>2
      <3>4. Alone(a)' => Alone(a)
        BY <2>1, <3>1 DEF Alone, Class
      <3> QED  BY <3>3, <3>4 DEF Before
    <2> QED  BY <1>3, <2>1, <2>2, <2>3, <2>4
  <1>8. CASE Delete
    BY <1>8 DEF Delete
  <1> QED  BY <1>4, <1>5, <1>6, <1>7, <1>8 DEF PagingNext

-----------------------------------------------------------------------------
(* Messages                                                                *)

\* A message is saved or posted by what its kind asks for, and received once.
LEMMA MessageStep ==
  ASSUME MessageInv, MessageNext
  PROVE  MessageInv'
  <1> USE MessageAssumption
  <1>1. /\ sent \in Seq(Sort) /\ Len(sent) \in Nat /\ Len(sent) <= MaxMsg /\ open \in BOOLEAN
        /\ saving \subseteq Of("save") /\ incidents \subseteq Of("save")
        /\ posting \subseteq Of("commit") /\ awaiting \subseteq Of("commit")
        /\ saving \cap incidents = {} /\ posting \cap awaiting = {}
        /\ received \in [Msg -> 0 .. 1] /\ failed \in 0 .. MaxFailed
        /\ \A m \in Msg : m \in posting \/ m \notin 1 .. Len(sent) => received[m] = 0
    BY DEF MessageInv, MessageTypeOK
  <1>2. \A s \in Sort : Of(s) \subseteq 1 .. Len(sent)
    BY <1>1 DEF Of
  <1>3. ASSUME NEW s \in Sort, Notify(s) PROVE MessageInv'
    <2> DEFINE k == Len(sent) + 1
    <2>1. /\ sent' = Append(sent, s) /\ Len(sent) < MaxMsg
          /\ UNCHANGED <<open, incidents, awaiting, received, failed>>
      BY <1>3 DEF Notify
    <2>2. /\ sent' \in Seq(Sort) /\ Len(sent') = k /\ k <= MaxMsg /\ sent'[k] = s
          /\ \A m \in 1 .. Len(sent) : sent'[m] = sent[m]
      BY <1>1, <2>1
    <2>3. /\ \A t \in Sort : Of(t) \subseteq Of(t)'
          /\ k \in Of(s)'
      BY <1>1, <2>2 DEF Of
    <2>4. /\ saving' \subseteq saving \cup {k} /\ (k \in saving' \ saving => s = "save")
          /\ posting' \subseteq posting \cup {k} /\ (k \in posting' \ posting => s = "commit")
      BY <1>3, <2>2 DEF Notify
    <2>5. k \notin 1 .. Len(sent) /\ k \in Msg /\ k \in 1 .. Len(sent')
      BY <1>1, <2>2 DEF Msg
    <2>6. /\ saving' \subseteq Of("save")' /\ incidents' \subseteq Of("save")'
          /\ posting' \subseteq Of("commit")' /\ awaiting' \subseteq Of("commit")'
      BY <1>1, <2>1, <2>3, <2>4 DEF Sort
    <2>7. saving' \cap incidents' = {} /\ posting' \cap awaiting' = {}
      BY <1>1, <1>2, <2>1, <2>4, <2>5 DEF Sort
    <2>8. \A m \in Msg : m \in posting' \/ m \notin 1 .. Len(sent') => received'[m] = 0
      <3> SUFFICES ASSUME NEW m \in Msg, m \in posting' \/ m \notin 1 .. Len(sent')
                   PROVE  m \in posting \/ m \notin 1 .. Len(sent)
        BY <1>1, <2>1
      <3> QED  BY <1>1, <2>2, <2>4, <2>5
    <2> QED  BY <1>1, <2>1, <2>2, <2>6, <2>7, <2>8 DEF MessageInv, MessageTypeOK
  <1>4. ASSUME NEW m \in Msg, Save(m) PROVE MessageInv'
    <2>1. /\ m \in saving /\ saving' = saving \ {m} /\ incidents' \subseteq incidents \cup {m}
          /\ failed' \in 0 .. MaxFailed
          /\ UNCHANGED <<sent, open, posting, awaiting, received>>
      BY <1>1, <1>4 DEF Save, Failure
    <2>2. \A t \in Sort : Of(t)' = Of(t)
      BY <2>1 DEF Of
    <2>3. /\ saving' \cup incidents' \subseteq Of("save")' /\ saving' \cap incidents' = {}
          /\ posting' \cup awaiting' \subseteq Of("commit")' /\ posting' \cap awaiting' = {}
      BY <1>1, <2>1, <2>2 DEF Sort
    <2> QED  BY <1>1, <2>1, <2>3 DEF MessageInv, MessageTypeOK
  <1>5. ASSUME NEW m \in Msg, Arrive(m) PROVE MessageInv'
    <2>1. /\ m \in posting /\ posting' = posting \ {m} /\ awaiting' = awaiting \cup {m}
          /\ received' = [received EXCEPT ![m] = @ + 1]
          /\ UNCHANGED <<sent, open, saving, incidents, failed>>
      BY <1>5 DEF Arrive
    <2>2. \A t \in Sort : Of(t)' = Of(t)
      BY <2>1 DEF Of
    <2>3. /\ saving' \cup incidents' \subseteq Of("save")' /\ saving' \cap incidents' = {}
          /\ posting' \cup awaiting' \subseteq Of("commit")' /\ posting' \cap awaiting' = {}
      BY <1>1, <2>1, <2>2 DEF Sort
    <2>4. received[m] = 0 /\ m \in 1 .. Len(sent)
      BY <1>1, <1>2, <2>1 DEF Sort
    <2>5. /\ received' \in [Msg -> 0 .. 1]
          /\ \A n \in Msg : n # m => received'[n] = received[n]
      BY <1>1, <2>1, <2>4
    <2> QED  BY <1>1, <2>1, <2>3, <2>4, <2>5 DEF MessageInv, MessageTypeOK
  <1>6. ASSUME NEW m \in Msg, Fail(m) PROVE MessageInv'
    <2>1. /\ posting' = posting \ {m} /\ awaiting' = awaiting \ {m} /\ failed' \in 0 .. MaxFailed
          /\ UNCHANGED <<sent, open, saving, incidents, received>>
      BY <1>1, <1>6 DEF Fail, Failure
    <2>2. \A t \in Sort : Of(t)' = Of(t)
      BY <2>1 DEF Of
    <2>3. /\ saving' \cup incidents' \subseteq Of("save")' /\ saving' \cap incidents' = {}
          /\ posting' \cup awaiting' \subseteq Of("commit")' /\ posting' \cap awaiting' = {}
      BY <1>1, <2>1, <2>2 DEF Sort
    <2> QED  BY <1>1, <2>1, <2>3 DEF MessageInv, MessageTypeOK
  <1>7. CASE Disconnect
    BY <1>1, <1>7 DEF Disconnect, MessageInv, MessageTypeOK, Of
  <1> QED  BY <1>3, <1>4, <1>5, <1>6, <1>7 DEF MessageNext

-----------------------------------------------------------------------------
(* The theorems                                                            *)

\* What a part leaves alone keeps its invariant.
LEMMA PartsAlone ==
  /\ ProjectionInv /\ UNCHANGED projectionVars => ProjectionInv'
  /\ PagingInv /\ UNCHANGED pagingVars => PagingInv'
  /\ MessageInv /\ UNCHANGED messageVars => MessageInv'
  <1>1. ProjectionInv /\ UNCHANGED projectionVars => ProjectionInv'
    BY DEF ProjectionInv, projectionVars, OnePerKey
  <1>2. PagingInv /\ UNCHANGED pagingVars => PagingInv'
    BY DEF PagingInv, PagingTypeOK, pagingVars, Before, Alone, Class
  <1>3. MessageInv /\ UNCHANGED messageVars => MessageInv'
    BY DEF MessageInv, MessageTypeOK, messageVars, Of
  <1> QED  BY <1>1, <1>2, <1>3

\* The three inductive invariants hold together.
LEMMA Invariance ==
  Spec => []QuerySideInv
  <1>1. Init => QuerySideInv
    <2> SUFFICES ASSUME Init PROVE QuerySideInv
      OBVIOUS
    <2>1. ProjectionInv
      <3>1. ledger = <<>> /\ world = {} /\ rows = <<>> /\ commits = {} /\ MaxTx \in Nat
        BY ProjectionAssumption DEF Init, ProjectionInit
      <3> QED  BY <3>1 DEF ProjectionInv, OnePerKey
    <2>2. PagingInv
      <3>1. /\ table = {} /\ at = "done" /\ total = 0 /\ got = {} /\ asked = {}
            /\ skip = Undefined /\ disturbed = FALSE
        BY DEF Init, PagingInit
      <3>2. PagingTypeOK
        <4>1. 0 \in 0 .. Cardinality(TableRow)
          BY FS_CardinalityType, PagingAssumption
        <4>2. FALSE \in BOOLEAN
          OBVIOUS
        <4> QED  BY <3>1, <4>1, <4>2 DEF PagingTypeOK
      <3> QED  BY <3>1, <3>2 DEF PagingInv
    <2>3. MessageInv
      BY MessageAssumption DEF Init, MessageInit, MessageInv, MessageTypeOK, Of
    <2> QED  BY <2>1, <2>2, <2>3 DEF QuerySideInv
  <1>2. QuerySideInv /\ [Next]_vars => QuerySideInv'
    <2> SUFFICES ASSUME QuerySideInv, [Next]_vars PROVE QuerySideInv'
      OBVIOUS
    <2>1. ProjectionInv /\ PagingInv /\ MessageInv
      BY DEF QuerySideInv
    <2>2. /\ ProjectionNext \/ UNCHANGED projectionVars
          /\ PagingNext \/ UNCHANGED pagingVars
          /\ MessageNext \/ UNCHANGED messageVars
      BY DEF Next, vars
    <2>3. ProjectionInv' /\ PagingInv' /\ MessageInv'
      BY <2>1, <2>2, PartsAlone, ProjectionStep, PagingStep, MessageStep
    <2> QED  BY <2>3 DEF QuerySideInv
  <1> QED  BY <1>1, <1>2, PTL DEF Spec

\* Ledger, rows and codes, the reads, the messages keep their types: the endpoint receives
\* an announcement once at most, and a cursor is a place of the table.
THEOREM QuerySideTypes ==
  Spec => []QuerySideTypeOK
  <1>1. QuerySideInv => QuerySideTypeOK
    <2> SUFFICES ASSUME QuerySideInv PROVE QuerySideTypeOK
      OBVIOUS
    <2>1. PagingTypeOK /\ MessageTypeOK /\ ProjectionInv
      BY DEF QuerySideInv, PagingInv, MessageInv
    <2>2. /\ ledger \in Seq(LedgerTx) /\ rows \in Seq(RowSet) /\ Len(rows) <= Len(ledger)
          /\ DOMAIN ledger = 1 .. Len(ledger) /\ DOMAIN rows = 1 .. Len(rows)
      BY <2>1 DEF ProjectionInv
    <2>3. \A n \in DOMAIN rows : rows[n].code \in Codes
      <3> SUFFICES ASSUME NEW n \in 1 .. Len(rows) PROVE rows[n].code \in Codes
        BY <2>2
      <3>1. rows[n] \in RowSet
        BY <2>2
      <3>2. PICK tx \in LedgerTx : rows[n] = Row(tx)
        BY <3>1 DEF RowSet
      <3> QED  BY <3>2, CodeOfRow
    <2>4. OnePerKey(world)
      <3> SUFFICES ASSUME NEW m \in world, NEW n \in world, Key(ledger[m]) = Key(ledger[n])
                   PROVE  m = n
        BY DEF OnePerKey
      <3>1. /\ m \in 1 .. Len(ledger) /\ n \in 1 .. Len(ledger)
            /\ Stores(ledger[m]) /\ Stores(ledger[n]) /\ ~(m > n) /\ ~(n > m)
        BY <2>1 DEF ProjectionInv
      <3> QED  BY <3>1
    <2>5. ProjectionTypeOK
      BY <2>1, <2>2, <2>3, <2>4 DEF ProjectionInv, ProjectionTypeOK
    <2> QED  BY <2>1, <2>5 DEF QuerySideTypeOK
  <1> QED  BY <1>1, Invariance, PTL

\* Every commit in the public state of the contract has a row of its key once its transaction
\* is synchronised, whatever else the ledger holds; only a transaction that the ledger did
\* not apply can have taken the row.
THEOREM CommitsAreProjected ==
  Spec => []WorldProjected
  <1>1. QuerySideInv => WorldProjected
    <2> SUFFICES ASSUME ProjectionInv, NEW n \in world, n \in DOMAIN rows
                 PROVE  \E k \in commits : /\ Key(ledger[k]) = Key(ledger[n]) /\ k >= n
                                          /\ k # n => ~Stores(ledger[k])
      BY DEF QuerySideInv, WorldProjected
    <2>1. /\ n \in 1 .. Len(ledger) /\ n \in 1 .. Len(rows) /\ ledger \in Seq(LedgerTx)
          /\ Stores(ledger[n]) /\ Len(rows) <= Len(ledger) /\ Len(rows) \in Nat /\ Len(ledger) \in Nat
          /\ commits \subseteq 1 .. Len(rows)
      BY DEF ProjectionInv
    <2>2. ledger[n] \in LedgerTx
      BY <2>1
    <2>3. Creates(ledger[n])
      BY <2>1, <2>2, StoresCreates
    <2>4. PICK k \in commits : Key(ledger[k]) = Key(ledger[n]) /\ k >= n
      BY <2>1, <2>3 DEF ProjectionInv
    <2>5. k # n => ~Stores(ledger[k])
      <3> SUFFICES ASSUME k # n PROVE ~Stores(ledger[k])
        OBVIOUS
      <3>1. k \in 1 .. Len(ledger) /\ k > n
        BY <2>1, <2>4
      <3> QED  BY <2>4, <3>1 DEF ProjectionInv
    <2> QED  BY <2>4, <2>5
  <1> QED  BY <1>1, Invariance, PTL

\* What the tx table gives under the code of public commits, parsed again, is never null, is
\* valid and the contract's, and its key is in the commit table; what it gives under the
\* code of private commits never parses.
THEOREM CodesAgreeWithCommits ==
  Spec => []ReadsAgree
  <1>1. QuerySideInv => ReadsAgree
    <2> SUFFICES ASSUME ProjectionInv PROVE ReadsAgree
      BY DEF QuerySideInv
    <2>1. ASSUME NEW code, NEW n \in WithCode(code)
          PROVE  /\ n \in 1 .. Len(rows) /\ ledger[n] \in LedgerTx
                 /\ rows[n] = Row(ledger[n]) /\ rows[n].code = code
      <3>1. n \in 1 .. Len(rows) /\ rows[n].code = code
        BY <2>1 DEF ProjectionInv, WithCode
      <3> QED  BY <3>1 DEF ProjectionInv
    <2>2. ASSUME NEW n \in WithCode("PUBLIC_COMMIT")
          PROVE  /\ ParsesToCommit(rows[n]) /\ Stores(ledger[n])
                 /\ \E k \in commits : Key(ledger[k]) = Key(ledger[n]) /\ k >= n
      <3>1. /\ n \in 1 .. Len(rows) /\ ledger[n] \in LedgerTx
            /\ rows[n] = Row(ledger[n]) /\ rows[n].code = "PUBLIC_COMMIT"
        BY <2>1
      <3>2. Stores(ledger[n])
        BY <3>1, CodeOfRow
      <3>3. Creates(ledger[n]) /\ ParsesToCommit(rows[n])
        BY <3>1, <3>2, StoresCreates, ParsesCreations
      <3> QED  BY <3>1, <3>2, <3>3 DEF ProjectionInv
    <2>3. ASSUME NEW n \in WithCode("PRIVATE_COMMIT") PROVE ~ParsesToCommit(rows[n])
      <3>1. /\ ledger[n] \in LedgerTx
            /\ rows[n] = Row(ledger[n]) /\ rows[n].code = "PRIVATE_COMMIT"
        BY <2>1
      <3>2. ~Creates(ledger[n])
        BY <3>1, CodeOfRow DEF Creates
      <3> QED  BY <3>1, <3>2, ParsesCreations
    <2> QED  BY <2>2, <2>3 DEF ReadsAgree, PageIsNull
  <1> QED  BY <1>1, Invariance, PTL

\* A client that gave skip and has followed the cursor to the end has been given every row
\* there was when it began that shares its key with no other, while rows were added behind
\* the others only, whatever pages the database makes of the rows that share a key.
THEOREM PagesAreComplete ==
  Spec => []Complete
  <1>1. QuerySideInv => Complete
    BY DEF QuerySideInv, PagingInv, Complete
  <1> QED  BY <1>1, Invariance, PTL

=============================================================================
