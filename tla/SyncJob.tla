------------------------------ MODULE SyncJob ------------------------------
(***************************************************************************)
(* The synchronisation job, effect syncStart of the rematch model syncJob  *)
(* (src/src/sync/models/SyncJob.ts), run again and again by the dispatcher *)
(* against the tables of QueryDb and a growing ledger.                     *)
(*                                                                         *)
(* "step" is the await at which the job is suspended; the action of that   *)
(* name executes the awaited statement and all the code up to the next     *)
(* await.  Environment: a call may fail, a call raced against a timer by   *)
(* withTimeout may lose and go on by itself after the job has failed, and  *)
(* the process may crash between any two statements.                       *)
(***************************************************************************)
EXTENDS QueryDb, Sequences

CONSTANTS
    MaxSyncHeight,   \* option maxSyncHeight; 0 when it is not given
    MaxFaults,       \* bound: calls that answer with an error
    MaxTimeouts,     \* bound: calls that answer after their timer
    MaxCrashes,      \* bound: crashes of the process
    Overlap          \* may a late call go on while a later job runs?

ASSUME BoundsAssumption ==
    /\ {MaxSyncHeight, MaxFaults, MaxTimeouts, MaxCrashes} \subseteq Nat
    /\ Overlap \in BOOLEAN

VARIABLES
    height,     \* number of the last block of the ledger
    step,       \* the await at which the job is suspended; "idle": no job
    job,        \* state of the model syncJob, and the locals of its effect
    call,       \* the call to queryDb that is awaited, when it writes
    result,     \* how the promise of the last dispatch has settled
    notified,   \* notified[t]: NOTIFY_WRITESIDE messages sent for commit t
    late,       \* the calls that outlived the job that made them
    faults, crashes

control == <<step, job, call, result>>
env     == <<height, late, faults, crashes>>
vars    == <<tables, control, notified, env>>

\* TEMPLATE, the model's state at the start of a job and after a good one.
\* "unverified" is what the loop of step 0b has still to remove, "current" and
\* "tx" are the loop variables of step 6.
Template == [unverified |-> {}, hFabric |-> 0, hQuery |-> 0, missing |-> {},
             validated |-> FALSE, queued |-> {}, completed |-> {},
             current |-> 0, tx |-> 1]

JobType == [unverified : SUBSET Block, hFabric : Block, hQuery : 0 .. MaxBlock + 1,
            missing : SUBSET Block, validated : BOOLEAN, queued : SUBSET Block,
            completed : SUBSET Block, current : Block, tx : Nat]

Step == {"idle", "step0a", "step0b", "step1", "step3", "step4", "step6b",
         "step6d", "step6e", "step6f", "step6g", "step6h"}

TypeOK ==
    /\ TypeOKTables
    /\ height \in Block
    /\ step \in Step
    /\ job \in JobType
    /\ call \in CallType
    /\ result \in {"none", "ok", "error"}
    /\ notified \in [WithCommit -> Nat]
    /\ late \in Seq(CallType)
    /\ faults \in Nat
    /\ crashes \in Nat

Init ==
    /\ block = [b \in Block |-> "absent"]
    /\ txs = {} /\ commits = {} /\ kv = {}
    /\ height \in Block
    /\ step = "idle" /\ job = Template /\ call = NoCall /\ result = "none"
    /\ notified = [t \in WithCommit |-> 0]
    /\ late = <<>>
    /\ faults = 0 /\ crashes = 0

-----------------------------------------------------------------------------
(* How a handler ends: at the next await, or by settling the job.          *)

Await(s, j, c) == step' = s /\ job' = j /\ call' = c /\ UNCHANGED result

Settle(r, j) == step' = "idle" /\ job' = j /\ call' = NoCall /\ result' = r

Failed == Settle("error", job)

First_Newest(q) == Max(q)

\* Blocks are fetched in ascending order, the order of range().
First(q) == Min(q)

\* The head of the loop over the missing blocks: q is what remains of them.
NextBlock(j, q) ==
    \/ q = {} /\ Settle("ok", Template)
    \/ q # {} /\ Await("step6b", [j EXCEPT !.queued = q, !.current = First(q), !.tx = 1], NoCall)

-----------------------------------------------------------------------------
(* The steps of the job                                                    *)

LateDone == \A n \in DOMAIN late : late[n] = NoCall

\* The dispatcher refuses to start a job while one is running.  Nothing makes
\* it wait for a late call: without Overlap it is the database that ends a call
\* within the time between two jobs.
SyncStart ==
    /\ step = "idle"
    /\ Overlap \/ LateDone
    /\ step' = "step0a" /\ job' = Template /\ call' = NoCall /\ result' = "none"
    /\ UNCHANGED <<tables, notified, env>>

FindUnverified ==
    /\ step = "step0a"
    /\ \/ Unverified = {} /\ Await("step1", job, NoCall)
       \/ Unverified # {} /\ Await("step0b", [job EXCEPT !.unverified = Unverified],
                                   RemoveUnverifiedBlock)
    /\ UNCHANGED <<tables, notified, env>>

\* One call per unverified block, although the first removes them all: a call
\* that finds no row answers false, and fails the job.
RemoveUnverified ==
    /\ step = "step0b"
    /\ Execute(call)
    /\ LET rest == job.unverified \ {Min(job.unverified)}
           j    == [job EXCEPT !.unverified = rest]
       IN  \/ After(call) # NoCall /\ Await("step0b", job, After(call))
           \/ After(call) = NoCall /\ call.do = "findRows" /\ Failed
           \/ After(call) = NoCall /\ call.do # "findRows" /\
                 \/ rest = {}  /\ Await("step1", j, NoCall)
                 \/ rest # {} /\ Await("step0b", j, RemoveUnverifiedBlock)
    /\ UNCHANGED <<notified, env>>

Target_Count ==
    IF MaxSyncHeight # 0 /\ height >= MaxSyncHeight THEN MaxSyncHeight + 1 ELSE height + 1

\* The ledger's height, capped by maxSyncHeight.
Target == IF MaxSyncHeight # 0 /\ height >= MaxSyncHeight THEN MaxSyncHeight ELSE height

\* Height 0, a ledger with only its genesis block, is taken for an error.
QueryChannelHeight ==
    /\ step = "step1"
    /\ \/ Target = 0 /\ Failed
       \/ Target # 0 /\ Await("step3", [job EXCEPT !.hFabric = Target], NoCall)
    /\ UNCHANGED <<tables, notified, env>>

\* getBlockHeight answers null, the height of an empty table, whenever its query fails.
\* In the application it does at every job of a database without a schema "default", since
\* createPlatform gives createQueryDb no schema and the query then names default.blocks.
GetBlockHeight ==
    /\ step = "step3"
    /\ \E h \in {BlockHeight, 0} : Await("step4", [job EXCEPT !.hQuery = h], NoCall)
    /\ UNCHANGED <<tables, notified, env>>

Derived_OffByOne == {b \in 0 .. job.hFabric : b > job.hQuery}

\* derivedMissingBlocks: the blocks above those the table has.
Derived == {b \in 0 .. job.hFabric : b >= job.hQuery}

\* Step 5 records whether the missing blocks are the derived ones, and no more.
FindMissingBlock ==
    /\ step = "step4"
    /\ LET found == MissingUpTo(job.hFabric)
       IN  NextBlock([job EXCEPT !.missing = found, !.validated = (found = Derived)], found)
    /\ UNCHANGED <<tables, notified, env>>

\* queryBlock, then processBlockEvent in the same turn.
QueryBlock ==
    /\ step = "step6b"
    /\ Await("step6d", job, InsertBlock(job.current))
    /\ UNCHANGED <<tables, notified, env>>

BlockInserted ==
    /\ step = "step6d"
    /\ Execute(call)
    /\ Await("step6e", job, InsertTransaction(job.current, job.tx))
    /\ UNCHANGED <<notified, env>>

HasCommit_FirstOnly == job.tx = 1 /\ <<job.current, 1>> \in WithCommit

HasCommit == <<job.current, job.tx>> \in WithCommit

\* parseWriteSet runs in the turn in which insertTransaction returns; it does
\* not look at the validation code of the transaction.
TransactionInserted ==
    /\ step = "step6e"
    /\ Execute(call)
    /\ \/ HasCommit  /\ Await("step6f", job, InsertCommit(job.current, job.tx))
       \/ ~HasCommit /\ Await("step6g", job, UpdateInsertedBlockKeyValue(job.current))
    /\ UNCHANGED <<notified, env>>

CommitInserted ==
    /\ step = "step6f"
    /\ Execute(call)
    /\ Await("step6g", job, UpdateInsertedBlockKeyValue(job.current))
    /\ UNCHANGED <<notified, env>>

KeyValueUpdated ==
    /\ step = "step6g"
    /\ Execute(call)
    /\ \/ After(call) # NoCall /\ Await("step6g", job, After(call))
       \/ After(call) = NoCall /\ Await("step6h", job, SetVerified(job.current))
    /\ UNCHANGED <<notified, env>>

\* The block is marked verified after its FIRST transaction.  Step 6i notifies
\* the write side; the last transaction completes the block.
Verified ==
    /\ step = "step6h"
    /\ Execute(call)
    /\ notified' = IF HasCommit THEN [notified EXCEPT ![<<job.current, job.tx>>] = @ + 1]
                                ELSE notified
    /\ \/ /\ job.tx < NTx[job.current]
          /\ Await("step6e", [job EXCEPT !.tx = @ + 1],
                   InsertTransaction(job.current, job.tx + 1))
       \/ /\ job.tx = NTx[job.current]
          /\ NextBlock([job EXCEPT !.completed = @ \cup {job.current}],
                       job.queued \ {job.current})
    /\ UNCHANGED env

JobStep ==
    \/ FindUnverified \/ RemoveUnverified \/ QueryChannelHeight \/ GetBlockHeight
    \/ FindMissingBlock \/ QueryBlock \/ BlockInserted \/ TransactionInserted
    \/ CommitInserted \/ KeyValueUpdated \/ Verified

-----------------------------------------------------------------------------
(* What goes wrong                                                         *)

\* The awaited call answers null or rejects, its next statement not executed.
CallFails ==
    /\ step \notin {"idle", "step3"}
    /\ faults < MaxFaults
    /\ faults' = faults + 1
    /\ Failed
    /\ UNCHANGED <<tables, notified, height, late, crashes>>

\* withTimeout rejects first.  Nobody cancels the call, which joins the late
\* ones; insertCommit is the one call that has no timer.
TimesOut ==
    /\ step \notin {"idle", "step6f"}
    /\ Len(late) < MaxTimeouts
    /\ late' = Append(late, call)
    /\ Failed
    /\ UNCHANGED <<tables, notified, height, faults, crashes>>

\* A late call executes its next statement, or fails.  Nobody sees its answer.
LateStatement ==
    /\ \E n \in DOMAIN late :
          /\ late[n] # NoCall
          /\ \/ Execute(late[n]) /\ late' = [late EXCEPT ![n] = After(late[n])]
             \/ UNCHANGED tables /\ late' = [late EXCEPT ![n] = NoCall]
    /\ UNCHANGED <<control, notified, height, faults, crashes>>

Crash ==
    /\ crashes < MaxCrashes
    /\ crashes' = crashes + 1
    /\ step' = "idle" /\ job' = Template /\ call' = NoCall /\ result' = "none"
    /\ late' = [n \in DOMAIN late |-> NoCall]
    /\ UNCHANGED <<tables, notified, height, faults>>

NewBlock ==
    /\ height < MaxBlock
    /\ height' = height + 1
    /\ UNCHANGED <<tables, control, notified, late, faults, crashes>>

Next == SyncStart \/ JobStep \/ CallFails \/ TimesOut \/ LateStatement \/ Crash \/ NewBlock

Spec == Init /\ [][Next]_vars

\* The synchronizer's timer dispatches a job again and again, and a call to the
\* database or to the peer is answered, in one way or another.
FairSpec == Spec /\ WF_vars(SyncStart) /\ WF_vars(JobStep) /\ WF_vars(LateStatement)

-----------------------------------------------------------------------------
(* What the job promises when a late call ends before the next job begins   *)
(* (~Overlap), whatever fails, times out and whenever the process crashes.  *)

StoredUpTo(b, n) ==
    \A i \in 1 .. n : <<b, i>> \in txs /\ (<<b, i>> \in WithCommit => <<b, i>> \in commits)

\* Blocks enter the list "insertedBlock" in ledger order and without a gap:
\* since findMissingBlock trusts the list alone, a gap would be a block that is
\* fetched out of order, after its successors.
KVPrefix == \A b \in kv : \A a \in Block : a < b => a \in kv

\* A row is marked verified only once its block is in the list and the first
\* transaction, with its commit, is stored, and it stays so across failures,
\* crashes and the removals of step 0b.
VerifiedStored ==
    \A b \in Block : block[b] = "verified" => b \in kv /\ StoredUpTo(b, 1)

\* The write side hears of a commit at most once, and only of a commit that is
\* stored, in a block that is verified.
NotifiedOnce ==
    \A t \in WithCommit :
        notified[t] > 0 => notified[t] = 1 /\ t \in commits /\ block[t[1]] = "verified"

\* A block the running job counts as completed is verified and whole.
CompletedWhole ==
    \A b \in job.completed : block[b] = "verified" /\ StoredUpTo(b, NTx[b])

\* No step deletes what a verified block has stored.
VerifiedKept ==
    [][\A b \in Block : block[b] = "verified" =>
         /\ block'[b] = "verified"
         /\ \A t \in txs : t[1] = b => t \in txs'
         /\ \A t \in commits : t[1] = b => t \in commits']_vars

\* A job never stores a block above maxSyncHeight: the cap is a height, so the
\* blocks up to and including it are synced and no other.
CapKept == MaxSyncHeight # 0 => Present \cup kv \subseteq 0 .. MaxSyncHeight

\* A block that is listed and has no row is never fetched again.
LostForever == [][Lost \subseteq Lost']_vars

Succeeds == result # "ok" /\ result' = "ok"

\* A job that succeeds leaves no block of its range unverified or unlisted:
\* each is verified, or was lost by an earlier job.
OkAccounted ==
    [][Succeeds => \A b \in 0 .. job.hFabric : block'[b] = "verified" \/ b \in Lost']_vars

\* When the block above the verified ones is lost, step 5 does not validate:
\* the record of that job is the only trace the loss leaves.
LossShows ==
    [][step = "step4" /\ step' # "step4" /\ job'.validated =>
         \A b \in Lost : b < job.hQuery]_vars

-----------------------------------------------------------------------------
(* The inductive invariant behind KVPrefix and LostForever, when late calls *)
(* do not overlap with later jobs.                                          *)

InBlockLoop == {"step6b", "step6d", "step6e", "step6f", "step6g", "step6h"}

\* In the loop over the missing blocks the list "insertedBlock" and the blocks
\* still queued share the range out between them; the current block is the
\* first of the queue, and listed once its first transaction is.
Order ==
    step \in InBlockLoop =>
        /\ job.current \in job.queued
        /\ \A q \in job.queued : job.current <= q /\ q <= job.hFabric
        /\ \A a \in 0 .. job.hFabric : a \in kv \/ a \in job.queued
        /\ \A q \in job.queued :
               q \in kv <=> q = job.current /\ (step = "step6h" \/ job.tx > 1)

\* The awaited call is that of the step.
CallAtStep ==
    /\ step \in {"idle", "step0a", "step1", "step3", "step4", "step6b"} => call = NoCall
    /\ step = "step0b" => call.do \in {"findRows", "deleteBlocks", "deleteTxs", "deleteCommits"}
    /\ step \in {"step6b", "step6d"} => job.tx = 1
    /\ step = "step6d" => call = InsertBlock(job.current)
    /\ step = "step6e" => call = InsertTransaction(job.current, job.tx)
    /\ step = "step6f" => call = InsertCommit(job.current, job.tx)
    /\ step = "step6g" => call.do \in {"preloadKV", "saveKV"} /\ call.b = job.current
    /\ step = "step6h" => call = SetVerified(job.current)

\* What a pending call has read of the list is still so, and it is about the
\* first block that is not in the list.
CallFits(c, list) ==
    /\ c.do \in {"preloadKV", "saveKV"} => \A a \in Block : a < c.b => a \in list
    /\ c.do = "saveKV" => c.set = list
    /\ c.do = "saveBlock" => c.b \notin list

\* At most one call is pending.
Alone ==
    /\ step # "idle" => LateDone
    /\ \A m, n \in DOMAIN late : late[m] # NoCall /\ late[n] # NoCall => m = n

KVInv ==
    /\ KVPrefix /\ Order /\ CallAtStep /\ Alone
    /\ CallFits(call, kv) /\ \A n \in DOMAIN late : CallFits(late[n], kv)

-----------------------------------------------------------------------------
(* Under FairSpec, with finitely many faults, timeouts and crashes.         *)

\* Also when late calls overlap with later jobs: from some point on every block up to
\* the target is, and stays, verified or listed without a row; none is left out of
\* the list or half stored.
Converges ==
    \A b \in Block :
        <>[](b <= Target /\ Target # 0 => block[b] = "verified" \/ b \in Lost)

-----------------------------------------------------------------------------
(* What the tests expect of a synchronisation, and a failure can break.     *)

\* After a good job every block of the ledger has a verified row (test "verify
\* blocks").  Does NOT hold: a failure between steps 6g and 6h loses the block.
OkComplete ==
    [][Succeeds => \A b \in 0 .. job.hFabric : block'[b] = "verified"]_vars

\* After a good job the commits of the verified blocks are all stored (test
\* "verify commits").  Does NOT hold: a failure in the second transaction of a
\* block finds the block verified already.
OkCommits ==
    [][Succeeds => \A t \in WithCommit : block'[t[1]] = "verified" => t \in commits']_vars

=============================================================================
