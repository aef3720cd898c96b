------------------------------- MODULE Paging -------------------------------
(***************************************************************************)
(* The paginated reads of createQueryDb (findBlock, findCommit,            *)
(* findTxWithCommit, queryPaginatedTxAndParseToCommits) and a client that  *)
(* follows "cursor" while "hasMore", beside the writers of the table.  A   *)
(* read is two statements, a count and a find with an offset; rows come    *)
(* and go between them and between the pages.                              *)
(*                                                                         *)
(* The rows are ordered by one column and nothing else: findBlock by the   *)
(* number of the block, which no two rows share; the others by the block   *)
(* of a transaction, or a column the caller names, which rows may share.   *)
(* Where rows share it, the database puts them in any order, at each find  *)
(* anew.                                                                   *)
(***************************************************************************)
EXTENDS Integers, FiniteSets

CONSTANTS
    TableRow,    \* rows there may be
    KeyOf,       \* the value of a row in the column of the order
    Take         \* the option take

ASSUME PagingAssumption ==
    IsFiniteSet(TableRow) /\ KeyOf \in [TableRow -> Nat] /\ Take \in Nat \ {0}

VARIABLES
    table,       \* the rows there are
    at,          \* the statement the client's read awaits
    skip,        \* the option skip of this read; Undefined when left out
    total,       \* what the count has answered
    got,         \* the rows the client has been given
    asked,       \* the rows there were when the client began
    disturbed    \* since then, was a row removed, or added in front of another?

pagingVars == <<table, at, skip, total, got, asked, disturbed>>

Undefined == -1

PagingTypeOK ==
    /\ {table, got, asked} \subseteq SUBSET TableRow
    /\ at \in {"count", "find", "done"}
    /\ skip \in {Undefined, 0} \cup 1 .. Cardinality(TableRow) - 1
    /\ total \in 0 .. Cardinality(TableRow)
    /\ disturbed \in BOOLEAN

PagingInit ==
    /\ table = {} /\ at = "done" /\ total = 0 /\ got = {} /\ asked = {}
    /\ skip = Undefined /\ disturbed = FALSE

\* The client reads its first page, and starts again when it is done.
Start ==
    /\ at = "done" /\ at' = "count"
    /\ skip' \in {0, Undefined}
    /\ total' = 0 /\ got' = {} /\ asked' = table /\ disturbed' = FALSE
    /\ UNCHANGED table

Count ==
    /\ at = "count" /\ at' = "find"
    /\ total' = Cardinality(table)
    /\ UNCHANGED <<table, skip, got, asked, disturbed>>

\* The rows with one key are next to each other, behind those with smaller keys.
Class(key) == {s \in table : KeyOf[s] = key}

Before(key) == Cardinality({s \in table : KeyOf[s] < key})

\* How many of them are on the page that begins at an offset; which, is open.
Share(key, from) ==
    Cardinality(       (from .. from + Take - 1)
                  \cap (Before(key) .. Before(key) + Cardinality(Class(key)) - 1))

Pages(from) ==
    {P \in SUBSET table :
        \A s \in table : Cardinality(P \cap Class(KeyOf[s])) = Share(KeyOf[s], from)}

\* "skip &&" leaves the offset out when it is undefined.
Offset == IF skip = Undefined THEN 0 ELSE skip

HasMore_AtEnd == skip # Undefined /\ skip + Take <= total

HasMore_Short == skip # Undefined /\ skip + Take + 1 < total

\* skip + take < total, a comparison with NaN when skip is undefined.
HasMore == skip # Undefined /\ skip + Take < total

Cursor_Stuck == skip

Cursor == skip + Take

Find ==
    /\ at = "find"
    /\ \E P \in Pages(Offset) : got' = got \cup P
    /\ \/ HasMore  /\ at' = "count" /\ skip' = Cursor
       \/ ~HasMore /\ at' = "done" /\ UNCHANGED skip
    /\ UNCHANGED <<table, total, asked, disturbed>>

\* A row is added behind all others when blocks come in ascending order.
Insert ==
    /\ \E r \in TableRow \ table :
          /\ table' = table \cup {r}
          /\ disturbed' = (disturbed \/ \E a \in table : KeyOf[a] > KeyOf[r])
    /\ UNCHANGED <<at, skip, total, got, asked>>

Delete ==
    /\ \E r \in table : table' = table \ {r}
    /\ disturbed' = TRUE
    /\ UNCHANGED <<at, skip, total, got, asked>>

PagingNext == Start \/ Count \/ Find \/ Insert \/ Delete

-----------------------------------------------------------------------------

\* No other row shares its key.
Alone(r) == Class(KeyOf[r]) = {r}

\* A client that gave skip and has come to the end has been given every row that was
\* there when it began and shares its key with no other, while rows were added behind all
\* others, even between a count and its find.  A row that shares its key may be given
\* twice and another not at all, with nobody writing: of findBlock this speaks of all
\* rows, of the reads in the order of the transactions' blocks it does not.
Complete ==
    at = "done" /\ skip # Undefined /\ ~disturbed => \A r \in asked : Alone(r) => r \in got

\* A client that follows the cursor comes to the end, whatever is added and removed
\* between its statements.
Ends == (at = "count") ~> (at = "done")

=============================================================================
