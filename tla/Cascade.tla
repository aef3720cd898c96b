------------------------------ MODULE Cascade ------------------------------
(***************************************************************************)
(* query_cascadeDelete of the repository (createRepository.ts), with the   *)
(* functions findCommit, checkIntegrity and cascadedDeleteByBlocknum of    *)
(* createQueryDb it awaits, beside the synchronisation job: it removes the *)
(* blocks that hold the commits of an entity, to be fetched again.  The    *)
(* job and the request run in one process and interleave at every await.   *)
(*                                                                         *)
(* "at" is the statement the request awaits.  None of them has a timer.    *)
(***************************************************************************)
EXTENDS SyncJob

CONSTANTS
    Entity,        \* the commits of the entity that is deleted
    MaxRequests    \* bound: requests

ASSUME CascadeAssumption ==
    /\ Entity \subseteq WithCommit
    /\ MaxRequests \in Nat

\* The row "insertedBlock" exists when a commit is stored: the genesis block,
\* listed before any other, holds the configuration and no commit.
ASSUME GenesisAssumption == \A t \in WithCommit : t[1] # 0

\* "mixed" is history: have a request and a job been under way together?
VARIABLES cascade, requests, mixed

cvars == <<vars, cascade, requests, mixed>>

Checks    == {"checkKV", "checkBlock", "checkTx"}
Deletions == {"deleteBlock", "deleteTx", "deleteCommit", "readKV", "saveKV"}

\* "nums" is blockNums, "rest" what its loop has still to treat, "read" the list
\* as step 4 has read it, "whole" is cascadedDeleteResult, "broken" the blocks
\* that failed the check, "data" and "error" those of step 3.
Quiet == [at |-> "idle", nums |-> <<>>, rest |-> <<>>, read |-> {}, whole |-> TRUE,
          broken |-> {}, data |-> {}, error |-> {}, answer |-> "none"]

\* "rest" is what is left of the list "all" behind its first elements.
LeftOf(rest, all) ==
    Len(rest) <= Len(all) /\ \A n \in DOMAIN rest : rest[n] = all[Len(all) - Len(rest) + n]

CascadeTypeOK ==
    /\ TypeOK
    /\ cascade \in [at : {"idle", "count", "find"} \cup Checks \cup Deletions,
                    nums : Seq(Block), rest : Seq(Block), read : SUBSET Block,
                    whole : BOOLEAN, broken : SUBSET Block, data : SUBSET Block,
                    error : SUBSET Block, answer : {"none", "ok", "error"}]
    /\ cascade.at \in Checks \cup Deletions =>
           cascade.rest # <<>> /\ LeftOf(cascade.rest, cascade.nums)
    /\ requests \in 0 .. MaxRequests
    /\ mixed \in BOOLEAN

CascadeInit == Init /\ cascade = Quiet /\ requests = 0 /\ mixed = FALSE

-----------------------------------------------------------------------------

Busy == cascade.at # "idle"

\* The response: a status, and the blocks that have been deleted.
Answer(c, status) == cascade' = [Quiet EXCEPT !.data = c.data, !.answer = status]

\* The block the loops of steps 2 and 3 are at.
This == Head(cascade.rest)

\* The statements of a request change neither the job nor its environment.
Awaits(s) ==
    /\ cascade.at = s
    /\ UNCHANGED <<control, notified, env, requests, mixed>>

Found == commits \cap Entity

Earlier(s, t) == s[1] < t[1] \/ (s[1] = t[1] /\ s[2] < t[2])

EarlierThan(t) == {s \in Found : Earlier(s, t)}

\* One number per commit, in their order, so that a block can occur twice.
BlockNums == [n \in 1 .. Cardinality(Found) |->
                 (CHOOSE t \in Found : Cardinality(EarlierThan(t)) = n - 1)[1]]

Request ==
    /\ ~Busy /\ requests < MaxRequests
    /\ requests' = requests + 1
    /\ cascade' = [Quiet EXCEPT !.at = "count"]
    /\ mixed' = (mixed \/ step # "idle" \/ ~LateDone)
    /\ UNCHANGED vars

CountCommits ==
    /\ Awaits("count")
    /\ \/ Found = {}  /\ Answer(cascade, "ok")
       \/ Found # {} /\ cascade' = [cascade EXCEPT !.at = "find"]
    /\ UNCHANGED tables

\* The test of step 2: it refuses when NO block fails the check.
Refuses(c) == c.broken = {}

\* The next block of the loop that follows "find" and the checks; after the
\* last one, step 3 goes over the same blocks again.
NextCheck(c) ==
    \/ c.rest # <<>> /\ cascade' = [c EXCEPT !.at = "checkKV"]
    \/ c.rest = <<>> /\ Refuses(c) /\ Answer(c, "error")
    \/ c.rest = <<>> /\ ~Refuses(c) /\ cascade' = [c EXCEPT !.at = "deleteBlock", !.rest = c.nums]

FindCommits ==
    /\ Awaits("find")
    /\ NextCheck([cascade EXCEPT !.nums = BlockNums, !.rest = BlockNums])
    /\ UNCHANGED tables

Checked(ok) ==
    NextCheck([cascade EXCEPT !.rest = Tail(@), !.broken = IF ok THEN @ ELSE @ \cup {This}])

CheckKV ==
    /\ Awaits("checkKV")
    /\ \/ This \in kv    /\ cascade' = [cascade EXCEPT !.at = "checkBlock"]
       \/ This \notin kv /\ Checked(FALSE)
    /\ UNCHANGED tables

CheckBlock ==
    /\ Awaits("checkBlock")
    /\ \/ This \in Present    /\ cascade' = [cascade EXCEPT !.at = "checkTx"]
       \/ This \notin Present /\ Checked(FALSE)
    /\ UNCHANGED tables

CheckTx ==
    /\ Awaits("checkTx")
    /\ Checked(\E t \in txs : t[1] = This)
    /\ UNCHANGED tables

\* "affected" of a DELETE on the rows S of a table by block.
Affected(S) == Cardinality({t \in S : t[1] = This})

Goes(next, fine) == cascade' = [cascade EXCEPT !.at = next, !.whole = @ /\ fine]

DeleteBlockRow ==
    /\ Awaits("deleteBlock")
    /\ Goes("deleteTx", This \in Present)
    /\ DeleteBlocks({This})

\* A block with several transactions makes "affected" differ from 1.
OneTx(n) == n = 1

DeleteTxRows ==
    /\ Awaits("deleteTx")
    /\ Goes("deleteCommit", OneTx(Affected(txs)))
    /\ DeleteTxs(This)

DeleteCommitRows ==
    /\ Awaits("deleteCommit")
    /\ Goes("readKV", Affected(commits) <= 1)
    /\ DeleteCommits(This)

ReadKV ==
    /\ Awaits("readKV")
    /\ cascade' = [cascade EXCEPT !.at = "saveKV", !.read = kv]
    /\ UNCHANGED tables

\* The next block of step 3, or its answer: "ok" when some deletion failed.
Deleted(ok) ==
    LET c == [cascade EXCEPT !.rest = Tail(@), !.whole = TRUE,
                             !.data  = IF ok THEN @ \cup {This} ELSE @,
                             !.error = IF ok THEN @ ELSE @ \cup {This}]
    IN  \/ c.rest # <<>> /\ cascade' = [c EXCEPT !.at = "deleteBlock"]
        \/ c.rest = <<>> /\ Answer(c, IF c.error # {} THEN "ok" ELSE "error")

\* Numbers compared with the text of the list: nothing is filtered out.
Without_AsText(list, b) == list

\* The list cut at the block.
Without_Later(list, b) == {a \in list : a < b}

Without(list, b) == list \ {b}

SaveKVRow ==
    /\ Awaits("saveKV")
    /\ kv' = Without(cascade.read, This)
    /\ Deleted(cascade.whole)
    /\ UNCHANGED <<block, txs, commits>>

\* A statement rejects.  findCommit then answers null and the request fails;
\* checkIntegrity and cascadedDeleteByBlocknum answer false for their block.
StatementFails ==
    /\ Busy /\ faults < MaxFaults
    /\ faults' = faults + 1
    /\ \/ cascade.at \in {"count", "find"} /\ Answer(cascade, "error")
       \/ cascade.at \in Checks    /\ Checked(FALSE)
       \/ cascade.at \in Deletions /\ Deleted(FALSE)
    /\ UNCHANGED <<tables, control, notified, height, late, crashes, requests, mixed>>

CascadeStep ==
    \/ CountCommits \/ FindCommits \/ CheckKV \/ CheckBlock \/ CheckTx
    \/ DeleteBlockRow \/ DeleteTxRows \/ DeleteCommitRows \/ ReadKV \/ SaveKVRow

\* The job's own steps; a crash takes the request with it.  Nothing keeps a job from
\* starting beside a request.
Dispatch == SyncStart /\ mixed' = (mixed \/ Busy) /\ UNCHANGED <<cascade, requests>>

JobBeside ==
    /\ JobStep \/ CallFails \/ TimesOut \/ LateStatement \/ NewBlock
    /\ UNCHANGED <<cascade, requests, mixed>>

CrashBoth == Crash /\ cascade' = Quiet /\ UNCHANGED <<requests, mixed>>

CascadeNext ==
    Request \/ CascadeStep \/ StatementFails \/ Dispatch \/ JobBeside \/ CrashBoth

CascadeSpec == CascadeInit /\ [][CascadeNext]_cvars

\* As FairSpec, and the database answers the statements of the request too.
FairCascade ==
    /\ CascadeSpec
    /\ WF_cvars(Dispatch)
    /\ WF_cvars(JobStep /\ UNCHANGED <<cascade, requests, mixed>>)
    /\ WF_cvars(LateStatement /\ UNCHANGED <<cascade, requests, mixed>>)
    /\ WF_cvars(CascadeStep)

-----------------------------------------------------------------------------
(* What holds beside running jobs, and what as long as no job has run      *)
(* beside a request: the two overwrite each other's list otherwise         *)

\* A request deletes no row of a block that holds no commit of the entity, whatever
\* job runs beside it; and while none does, it neither forgets nor invents a number
\* of such a block in the list.
OthersUntouched ==
    [][cascade' # cascade =>
         \A b \in Block : (\A n \in DOMAIN cascade.nums : cascade.nums[n] # b) =>
             /\ block'[b] = block[b]
             /\ \A t \in txs \cup commits : t[1] = b => t \in txs' \cup commits'
             /\ mixed \/ (b \in kv' <=> b \in kv)]_cvars

\* The blocks a request reports as deleted are gone from every table and from the
\* list when it answers, with calls that fail and crashes anywhere.
DataIsGone ==
    [][Busy /\ cascade'.answer # "none" /\ ~mixed =>
         \A b \in cascade'.data :
             /\ block'[b] = "absent" /\ b \notin kv'
             /\ \A t \in txs' \cup commits' : t[1] # b]_cvars

NothingFails == faults = MaxFaults /\ Len(late) = MaxTimeouts /\ crashes = MaxCrashes

\* A block that a request has deleted is synchronised again, whatever has failed
\* before, if nothing fails between the save of the list and the next jobs: the list
\* is cleared of its number too, and of no smaller one that has its row.
ComesBack ==
    \A b \in Block :
        (NothingFails /\ cascade.at = "saveKV" /\ This = b)
            ~> (block[b] = "verified" \/ mixed)

=============================================================================
