# Verification of fabric-es-query

fabric-es-query keeps a relational copy of a Hyperledger Fabric channel (the
*query side*): a synchronizer copies the blocks of the channel, one job after
the other, into PostgreSQL; a repository appends events to the channel (the
*write side*) and answers queries from the copy. This directory holds TLA+
modules of the parts where the order of steps, failures and timeouts decides
whether the copy is right, the TLC instances that check them, and TLAPS proofs.
Paths below are relative to the repository (`src/src/...` is the TypeScript).

## Inventory

| component | state | operations | interacts with | hard behaviour | correct when |
|---|---|---|---|---|---|
| Synchronisation job, `sync/models/SyncJob.ts` | rematch model `syncJob`: heights, missing, queued and completed blocks, `running`; locals of the effect | `syncStart`, a chain of some ten awaited calls per block and transaction; reducers | calls gateway and query database, `withTimeout`; notifies the message center | any call fails; the loser of a race against a timer goes on; crash between statements | what is marked verified is stored; a failure is repaired by the next job or leaves a trace; nothing is notified twice |
| Query database, `querydb/createQueryDb.ts` | tables blocks, tx, commit, key_value (row `insertedBlock`, the list of block numbers) | insert*, updateInsertedBlockKeyValue (read-modify-write), updateVerified, removeUnverifiedBlock (three kinds of DELETE), cascadedDeleteByBlocknum, find*, checkIntegrity | PostgreSQL, message center | several statements without a transaction; two sources of truth, the list and the rows | list and rows agree |
| Synchronizer, `sync/createSynchronizer.ts` | two subscriptions, batch number, counters in closures, options | start(n), stop, stopAndChange*, setMaxSyncHeight | queue, dispatcher, event hub (`newBlock$`) | timers, awaits inside handlers, shared variables overwritten by the next start | a dispatch runs a job; requests are served; start resolves |
| Queue, `sync/models/Queue.ts` | `queued`, `lapsedJob`, `workInProgress` | newJob, syncStart, syncEnd, dispatchSyncJob | synchronizer, dispatcher | a refused dispatch | the queue shows the job in flight |
| Dispatcher, `sync/dispatcher.ts` | none (a promise per dispatch) | dispatcher | `store`, the job | refuses a second job | settles each accepted job |
| Repository, `repository/createRepository.ts` | none | cmd_append, cmd_create, cmd_get*, query_*, query_cascadeDelete | gateway services, query database | version computed from a read; cascade against a running job | no event lost or doubled |
| Message center, `message/createMessageCenter.ts` | a replay subject, two subscriptions, table incident | notify, subscribe, disconnect | everything; POST to the write side (`command/createNewCommitHook.ts`) | one attempt per notification; failed saves are only logged | a commit is announced, an incident can be read back |
| Platform, application, `platform/createPlatform.ts`, `app.ts` | the components, created in nine steps | initialize, disconnect | all | partial initialisation; disconnect under a running job | what is opened is closed, in an order that loses nothing |
| Fabric gateway, `fabric/createFabricGateway.ts`, wallet `fabric/psqlWallet` | gateway, networks, event hubs, identities | initialize, enroll, initializeChannelEventHubs, queryBlock, queryChannelHeight | peers, CA, wallet | partial failure of enrolment | identity enrolled iff in the wallet |
| Write-side library, REST routes, HTTP and metric servers, tracing, examples | none that the system reads | forwarding | repository | none | - |

PROJECT.json lists under "hazards" what can go wrong in these parts at which
line, and which property would notice.

## What is modelled

| module | models | composed with |
|---|---|---|
| QueryDb | the tables, and the SQL statements of createQueryDb | - |
| SyncJob | the effect syncStart, failures, timeouts, crashes | extends QueryDb |
| Replica, SyncReplica | an abstract copy of the ledger; the refinement mapping of SyncJob to it | SyncReplica extends SyncJob, instantiates Replica |
| Cascade | query_cascadeDelete with findCommit, checkIntegrity, cascadedDeleteByBlocknum | extends SyncJob: request and job share the tables |
| Synchronizer | start, stop, the subscriptions, queue and dispatcher | - |
| Command | the commands on one entity over evaluate and submit, and the routes that await them | - |
| EventLog, CommandLog | an abstract event log; the refinement mapping of Command to it | CommandLog extends Command, instantiates EventLog |
| Projection | transaction to rows: processBlockEvent, setData, parseWriteSet, and back | - |
| Paging | the paginated reads and a client that follows the cursor | - |
| MessageCenter | notify, saves of incidents, POSTs to the write side, disconnect | - |
| QuerySide | nothing of its own: the three above beside each other | extends Projection, Paging, MessageCenter |
| Enrolment | initialize of the gateway with wallet and authority | - |
| Platform | initialize and disconnect of the platform, main of app.ts, restarts | extends Enrolment |

**QueryDb.** A statement is atomic, because PostgreSQL makes it so; a function of
createQueryDb is not, because it opens no transaction. A function in progress is
therefore a record, a *call*: the next statement and what the call has read.
`Execute(c)` is that statement's effect, `After(c)` what remains.
removeUnverifiedBlock is a find, a delete of all unverified blocks, then a delete of
transactions per block and a delete of commits per block;
updateInsertedBlockKeyValue is a read and a save of what was read with one number
more. The row `insertedBlock` is the set of the numbers it lists: the code appends a
number once per transaction, and no reader can tell. `save` of a block row keeps the
column `verified` of an existing row and gives a new one the default false
(`querydb/entities/Blocks.ts:28`).

**SyncJob.** `step` is the await the effect is suspended at. An action executes the
awaited statement together with everything the code does before its next await, so an
action is one turn of the event loop:

| code | action |
|---|---|
| dispatch of `syncJob/syncStart`, step 1 `init` | SyncStart |
| step 0a, findUnverified | FindUnverified |
| step 0b, removeUnverifiedBlock once per unverified block | RemoveUnverified |
| steps 1, 2, queryChannelHeight, cap maxSyncHeight | QueryChannelHeight |
| step 3, getBlockHeight | GetBlockHeight |
| steps 4, 5, 6a, findMissingBlock, setValidated, head of the loop | FindMissingBlock |
| steps 6b, 6c, queryBlock and processBlockEvent | QueryBlock |
| step 6d, insertBlock | BlockInserted |
| step 6e, insertTransaction, then parseWriteSet | TransactionInserted |
| step 6f, insertCommit | CommitInserted |
| step 6g, updateInsertedBlockKeyValue | KeyValueUpdated |
| steps 6h, 6i, next transaction, 7, next block, 99 | Verified |
| an error of the awaited call | CallFails |
| `withTimeout` rejects first | TimesOut; LateStatement is the abandoned call going on |
| the process ends and is started again | Crash |
| a block is committed to the channel | NewBlock |

The fields of `job` are those of the rematch model that a later step or a property
reads; alias, timestamps, the failed blocks and the raw block are left out. A commit
is identified by its transaction. Names of entities and payloads do not matter to
the job. processBlockEvent fails for a given block always or never; a failure of
step 6c is one of step 6b here.

**Replica** is what the synchronisation promises its readers: each block is missing,
half copied, copied, or lost for good; blocks are begun in the order of the ledger, one
at a time, and what is copied or lost never changes again. SyncReplica reads that state
off the row and the list.

**Cascade** has the statements of a cascade deletion one by one, beside the whole of
SyncJob: both run in one process and interleave at every await. `mixed` is history: it
records that a request and a job have been under way together.

**Synchronizer.** A call of start is a record in `batch`: its count, whether each
subscription is open, the counter of its closure, and its promise. The variables
regularSyncSubscription and executionSubscription always hold those of the latest
batch. A handler that awaits its job is an element of `flights`; it goes on when its
subscription is closed, as an async function does. `alone`, `done` and `owed` are
history: they record what happened and no action reads them. The rest of a handler of a
refused dispatch runs in microtasks, before any timer, and is part of ExecTick.
The two models of the synchronisation meet at one point, the dispatcher: `flights` is
empty exactly while `step` is "idle". Synchronizer assumes that a job settles, SyncJob
that one job runs at a time, which is the dispatcher's test of `syncJob.running` (Accepts).

**Command.** A call of a client is a record in `req` that goes from new over evaluate,
read, submitted and committed to done; a transaction submitted is in `flight` until its
block is committed or it is refused, whether or not its client still waits. The contract
eventstore is external: a commit is stored under entity and commit id, and an older one
of the same id is replaced. A transaction is committed later than in the millisecond in
which it was stamped, because a block takes longer than that. The private-data variants
differ in the collection and the service, not in their control, and are not modelled
apart. `orderly` is chosen once per behaviour: the clients of such a behaviour only
append, one after the other, and CommandLog maps it to EventLog, a log in which an event
is there once and its version is the number of the events before it.

**Projection** has a transaction as the combination of what the code looks at: type,
chaincode, contract and function of the first argument, entity name as the tests of setData
tell names apart, commit id, validation code, response. A write set is a sequence of
namespaces with their writes, of which a private call has none: its writes are hashes of a
collection, which processBlockEvent does not copy (the blocks recorded in
`fabric/__tests__/__generated__/block-8.ts` show it). So a private commit gets a row in the
tx table and none in the commit table. The contract holds one commit per key, and so does
the commit table. **Paging** has rows with a key, the value of the column of the order, which
rows may share; which of them a page holds is then the database's choice, at each page anew.
A read is two statements, count and find. **MessageCenter** names a message by its place
among those sent; what a subscriber awaits goes on by itself. It is checked with the
entities of the platform's connection, on which saves fail.
The three share no variable: **QuerySide** puts them beside each other, and its run explores them one at a time.

**Enrolment** has one action per awaited call of initialize: reads and writes of the
wallet, enrolments with the authority, connections. Whatever the wallet swallows is a
fault: a failed read answers as if nothing were there, a failed write as if it were
done. **Platform** adds the nine steps of initialize, the listeners, app.ts, its exit and
restart, disconnect with its order, and a job cut down to blocks of one transaction with a
commit: it stores the rows (6b to 6f), lists the block (6g), flags it (6h) and announces the
commit (6i), and each of these calls may fail, or the process end after it. Rows of a block
that is not flagged are removed by the next job and not a variable; a block that was listed
and not flagged is lost, as in SyncJob.

## Runs

| run | instance | checks |
|---|---|---|
| JobFaults | blocks 0..3, 2 failures, 2 timeouts, 1 crash, late calls end before the next job | TypeOK, KVPrefix, VerifiedStored, NotifiedOnce, CompletedWhole, VerifiedKept, LostForever, OkAccounted, LossShows, ImplementsReplica |
| JobOverlap | blocks 0..3, cap 2, one of each fault, late calls beside later jobs, fairness | CapKept, Converges |
| JobLostBlock, JobPartialBlock | blocks 0..2, one failure | violated: OkComplete, OkCommits |
| JobLateDelete | blocks 0..2, one failure, one timeout, overlap | violated: VerifiedKept |
| StartStop | 2 starts of 0 or 2 executions, overlapping, fairness | TypeOK, QueueShowsJob, PendingListens, RefusedBesideFirst, RequestServed, StartSettlesAlone |
| StartCounts, StartSettled | 1 and 2 starts of 0, 1 or 2 executions | violated: ExecutionsDone, StartSettles |
| Cascade | blocks 0..2, an entity with commits in two blocks, 1 fault, 1 timeout, 1 crash, 1 request, fairness | CascadeTypeOK, DataIsGone, OthersUntouched, ComesBack |
| Command | 3 calls, interchangeable (symmetry), version 0 for creations, clock 0..4 | CommandTypeOK, VersionNotAhead, VersionOrder, SeesOwn, DeletedGone, ImplementsEventLog |
| Application | 4 faults over any number of restarts, 3 blocks, fairness | PlatformTypeOK, FewUntold, CertificateKept, UpOrHalf, EveryBlockSettles, ComesToRest |
| QuerySide | 2 transactions of any kind, 2 commit ids; 4 rows with the keys 0, 1, 1, 2, pages of 2; 3 messages, 1 failure; fairness | QuerySideTypeOK, WorldProjected, ReadsAgree, Complete, Ends, Announced |

*Bounds.* In the job's runs MaxBlock 3 gives a genesis block, two blocks with two
transactions and one between them with one; commits sit in a first, a second, an only and
a last transaction. A half-stored block, a stored one below and a missing one above it
exist at once, and the ledger may grow at any point. Two failures are needed for a failure
in the repair of a failure, two timeouts for two abandoned calls of different jobs. Jobs
are not bounded: they repeat for ever. MaxQueue 2 suffices because a dispatch takes the
last request and drops the others. Two starts are enough for one batch to disturb the
next; MaxStopping bounds stops that wait at once, not the number of stops. In Cascade the
entity has the second commit of a block with two transactions, and a block of one, so that
one block is found to be deleted badly and one well. Three calls of Command let one be
acknowledged, one be late and one read; five milliseconds let each of them be stamped apart
or together. Four faults of Platform let both reads of the wallet fail and two
later steps as well; three blocks let one be lost, one be unannounced and one be whole. Four
rows with pages of two give a full last page, a page that is not full, and changes on both
sides of the cursor, and the two with one key may be on one page or on two. The ledger of
Projection has two transactions because the classification is made one by one, and a
deletion, or a second commit of a key, relates two of them.

*Deadlock* is checked in the runs of the job, the synchronizer and the cascade: their timers
never stop. Command, Application and QuerySide have CHECK_DEADLOCK FALSE: calls and messages
are finitely many, and a disconnected process comes to rest.

*Fairness.* SyncStart is weakly fair because the execution loop looks at the queue
every second and the sync timer fills it; JobStep, because an awaited call is answered
or its timer expires (insertCommit, which has no timer, is assumed to be answered);
LateStatement and CascadeStep, because the database answers. In Synchronizer the timers of each
batch are weakly fair, Settle is because a job settles, StopEnds because a second passes. In
Platform app.ts goes on and is started again, the timer fires and a job's calls answer; a
disconnect need not come, nor finish. In QuerySide a statement of a read, a save and
a POST end. Failures, timeouts, crashes, new blocks and calls of clients are never
forced, and there are finitely many of them: the liveness properties say what
happens when they end. Ends holds for finitely many inserts: who adds rows faster than
a client reads pages keeps it reading.

*Overlap.* Nothing in the code makes a job wait for a call that an earlier job gave up
on. With Overlap = FALSE the database is assumed to finish such a call within the time
between two jobs (15 seconds by default, against a timeout of some seconds). Without
the assumption VerifiedKept fails (JobLateDelete) and so may the order of the list; what
still holds is CapKept and Converges: nothing above the cap is stored, and the tables settle.

## What the checks show

*The job.* With late calls ended in time, however calls fail and wherever the process crashes,
the job implements Replica. The list of inserted blocks has no gap; at most one block is half
stored, so the loop of step 0b, which would fail on two, is safe; a verified row is listed and
has its first transaction and commit, and no removal ever touches it; the write side
hears of a commit at most once and only after it is stored; a job that reports success has
accounted for every block of its range. Every block of the range ends up verified or *lost*:
listed without a row.

*The cascade.* Beside a job it deletes no row of another block. As long as no job has run beside
it, what it reports as deleted is gone from rows and list, and is fetched again by later jobs.

*The commands.* Of clients that call at once: versions never run ahead of the log and respect the
order in which calls were acknowledged; a read sees what was acknowledged before it; nothing
acknowledged before a deletion survives it. Clients that wait for each other get a log without gaps.

*The platform.* Certificates are not replaced unless every read of them has failed; the platform comes up
or is stuck with a half enrolled wallet, and nothing else blocks it; every block is stored in the
end or lost between list and flag, as in JobLostBlock; each fault costs one block at most, lost
or stored and never announced; disconnect brings everything to rest.

*The query side.* Every commit in the public state of the contract gets the row of its key, though a later
transaction that the ledger did not apply may take it; the two ways to read public commits agree; a client
that follows the cursor ends, and misses no row that was there when it began and shares its key with no
other: of findBlock in its own order that is every row, of the reads by code it is not. A new commit that
comes before disconnect is posted, unless that fails. Private commits are not in the commit table, and
incidents are not saved.

The exceptions are the findings, each a run of its own:

* **JobLostBlock**: the list is written in step 6g, the flag in 6h. A failure between
  them makes the next job delete the row and keep the list, and a listed block
  is never fetched again. LostForever shows that no later job repairs it, LossShows that
  `validated` is the only place where it can be seen, and only while a lost block is
  above all stored ones, or the height has come back as null.
* **JobPartialBlock**: step 6h is inside the loop over the transactions, so the block is
  verified after its first; a failure in the second is never repaired.
* **JobLateDelete**: an abandoned removeUnverifiedBlock deletes transactions of a block
  that the next job has stored again.
* **StartCounts**: the id of the first tick is 0, which the execution loop takes for no
  work in progress; the next request is refused by the dispatcher and counts as an
  execution, so start(1) resolves to true before its job has run.
* **StartSettled**: the job of a stopped batch, when it settles, closes whatever
  regularSyncSubscription holds, the subscription of the next start.

PendingListens and StartSettlesAlone say under which discipline start is safe: call it when
the earlier stop has returned and no job of an earlier batch is in flight.

## Deviations seen while modelling

The models have these behaviours too, but where it says otherwise. No run is built on them: the
properties above are stated with the exceptions they force. Two of them contradict a test.

* cmd_append takes the number of commits it has read as the version: two at once submit the same
  version, and so does one after a deletion. Two appends of one millisecond have the same
  commit id, and one replaces the other.
* A failed evaluation resolves to `{error}`, which its callers count, and return, as one commit.
* Names that are not alphanumeric reject outside of catchError; the route has no try, so the HTTP request
  is never answered.
* query_cascadeDelete goes on only when some block *fails* the integrity check, and reports ok only when
  some deletion fails (`!~~error.length`). A block of two transactions counts as not deleted.
* A cascade beside a job: one of the two overwrites the other's list (`mixed`).
* The write set of an invalid transaction becomes a commit row, and may replace the row of a valid one
  with its key; deletions on the ledger remove none. An ordinary deletion is classified ERROR.
  findTxWithCommit's isValid selects the opposite when it is given (not in the model).
* A private commit has no public write: parseWriteSet finds nothing, so it has no row in the commit
  table, and queryPaginatedTxAndParseToCommits answers null to a page on which there is one.
* The reads of transactions are ordered by blockid, which those of a block share, and findCommit by a
  column that the caller names. Such rows may change places between two pages: one is given twice
  and another not at all, with nobody writing.
* getBlockHeight names the schema `default` unless nonDefaultSchema is given (`querydb/createQueryDb.ts:47`,
  `:444`), and createPlatform gives none: in the application the query fails and the answer is
  null. In SyncJob null is a free choice at every job.
* A commit is saved under entity and commit id (`querydb/entities/Commit.ts:87`). Projection has that key;
  the modules of the job identify a commit by its transaction, so that two transactions with one
  commit id, whose second takes the row of the first, are Projection's only.
* A paginated read without skip compares with NaN and always answers hasMore false. Block 0 is no
  filter: `blocknum &&` drops it.
* A wallet with the CA admin and not the organisation's cannot be got past by any restart. A failed
  write of the wallet is not reported.
* disconnect closes gateway and message center before it stops the synchronizer: a commit stored in
  between is not announced.
* app.ts awaits start() without a count, which only stop resolves, before it creates the HTTP server.
* createMessageCenter imports the entity Incident of MongoDB and saves and reads that one
  (`message/createMessageCenter.ts:12`, `:72`, `:171`). The connection of the platform has the Postgres entity
  (`platform/createPlatform.ts:74`), and so has the one of `message/__tests__/mcenter.test.ts` (line 38): every save
  throws, is logged, and leaves no row. **That test contradicts the code**: after five messages to be saved it
  expects `expect(result.total).toEqual(5)` (line 94). The run has the platform's entities, and no property
  says that an incident is saved.
* setData tests for the calls of the unit tests first, and gives them the code TEST. **The tests of
  findTxWithCommit contradict the code**: they expect the transactions of dev_entity and of private_entityName,
  inserted through setData, under the codes of commits (`querydb/__tests__/queryDb.test.ts:163`, `:175`).
* The POST handler of createNewCommitHook answers nothing.

## Proofs

Eight modules hold theorems. They assume the named assumptions on constants, and `~Overlap` where it
is written, and nothing else. They hold for every ledger, every placement of commits, every number
of clients, starts and messages, and every bound. TLC has checked each inductive invariant named
here on the instance of its module's run; a few of them need a finite range in the place of Nat for
that.

**SyncJobProofs.** TypeCorrect: `Spec => []TypeOK`. TypeInv strengthens the types by what keeps the
arithmetic in range: within the loop `tx` is at most the number of transactions of the current
block, and a call is about a transaction that exists. ListHasNoGap and LostIsForever, under
~Overlap, rest on KVInv. KVPrefix is not inductive: that a save appends the next number depends on
the job walking the missing blocks in ascending order (Order: list and queue share the range out
between them, the current block is the least queued), on the awaited call being the one of the step
(CallAtStep), on what a pending save has read still being the list (CallFits), and on there being
one pending call at most (Alone), which is where the assumption about late calls enters.

**SyncReplicaProofs**, under ~Overlap, adds RowInv: what each pending call relies on in the tables
(RowFits; a call that marks a block verified finds it listed and stored, a deletion aims at
unverified blocks only), that at most one block is half stored (OneUnverified), and what the job has
made sure of at its step (JobRows). From it follow VerifiedIsStored, VerifiedIsKept, and
JobImplementsReplica: ExecuteStatus shows that a statement is a step of Replica or leaves the copy
alone, and the tables change by statements of pending calls only (Statements). JobCopyGrows takes
over what **ReplicaProofs** shows of every growing copy. What the job tells comes next. ToldOnce and
CompletedIsWhole rest on NoteInv, which adds up to which transaction the current block is stored,
and that nothing from there on has been told. OkIsAccounted and LossIsShown are action properties of
the two steps that can succeed, and of step 4. CapIsKept needs no assumption on late calls: Below(t)
says that no row, listed number, queue or pending call is above t, and the target only grows.

**CascadeProofs**, on top of TypeInv: the job beside a request keeps its types because a request
only takes rows and numbers away (CascadeTypes). That `This` is a block needs BlockNums to be a list
of blocks: `Ranks` shows that in a finite, totally ordered set every rank is taken, so that the
sorted list has no hole. OthersUntouched is about one step, but what a save of the list may write
was read a statement earlier: AloneInv says that a request which is not `mixed` has the tables to
itself, job and late calls included, and GoneInv that then the list is still what it has read, and
which tables the current block is gone from already. From these follow LeavesOthersAlone and
ReportedIsGone. With jobs beside the request, late calls included, CapIsKeptBeside still holds: the
list a request writes back may be old (ReadBelow), but nothing in it is above the target.

**SynchronizerProofs**, for any number of starts, stops and queued requests: the types
(SynchronizerTypes), JobIsShown and RefusalsBesideFirst. QueueShowsJob survives a refused dispatch, which
resets workInProgress, only because the loop found it falsy: with the types, the flight that made
the dispatcher refuse can then only be that of request 0. RefusedBesideFirst says this of the counter
of executions; that a handler whose job did run counts it in both counters needs DoneInv, by which
`done` never exceeds `dispatched`. StopIsHeard needs StopResolved besides:
the end of a stop closes the execution subscription and resolves nothing, which is harmless because
the stop resolved all starts a second before and one made since does not count as alone.

**CommandProofs**, for any number of clients and any clock. CInv ties the four places a command is
in together: its call, its transaction, its commit, and the calls answered before it. CommandTypes
and DeletedIsGone (GoneInv: a committed deletion has left nothing of what was acknowledged before)
hold of all clients; the next three of those none of which deletes or had its evaluation fail
(Ordinary). NotAhead is proved from CountInv, where a version is compared with the commits *below*
its own id: those can be replaced by commits of their own millisecond only, so their number does not
fall while the version waits in a transaction. VersionsInOrder (BehindInv) and ReadsSeeOwn (SeenInv)
follow a version, or what a get has read, from the read to the answer. OrderlyIsEventLog is the
refinement: of orderly clients one is under way at a time (SerialInv), so that a version is the rank
of its commit and no rank is missing (RankInv); then a committed transaction is a step of EventLog
and all else leaves the log alone.

**PlatformProofs** begins with Enrolment: EnrolmentTypesKept and CertificateIsKept, for any number
of faults and restarts. The property is about one step; the invariant behind it follows the reads: a
process that is about to enroll an admin whose certificate is there has missed it at every read so
far (MissedAll), and one that has not asked yet has missed nothing (MissedFew). Every step of
Platform is one of Enrolment or leaves it alone (PlatformEnrols), so PlatformKeepsCertificates
follows. PlatformTypesKept and OneUntoldPerFault add what the platform needs of itself: its parts
are made in their order (MadeInOrder), and a job that flags or announces is at the block it has
listed last, which nobody has heard of (JobFits), so that each fault adds one block at most to
those listed and untold.

**QuerySideProofs**, for any ledger, table and number of messages. ProjectionInv: a row is that of
its transaction; what the contract holds was put there by the last transaction to touch its key;
each commit that was parsed has a row of its key, its own or a later one's. That the parser finds
the public creations and nothing else (ParsesCreations), and that the codes of commits are given to
valid creations of the contract of that name only (CodeOfRow), is shown transaction by transaction;
CommitsAreProjected and CodesAgreeWithCommits follow. PagesAreComplete rests on PagingInv: as long
as the table is only added to at its end, the rows there were at the start have the same number of
rows in front of them, those alone with their key and below the offset have been read, and the
count, even an old one, covers them all. That such a row is on the page its place is on, however
the database orders the others (AloneOnPage), is a fact about every page it may make.
QuerySideTypes needs MessageInv as well: a message on its way has not been received.

So every safety property of the passing runs is proved, action properties and both refinements
included. Only model-checked are the liveness properties (Converges, RequestServed,
StartSettlesAlone, ComesBack, UpOrHalf, EveryBlockSettles, ComesToRest, Ends, Announced), which
are outside the proof system, and the five findings, which are counterexamples.

The list of a cascade and the log of a sequence of appends are written by rank, the number
of elements that come before, and a page by the number of rows of each key on it, and not with the sorting operators of the community modules: those are
recursive, and nothing could be proved of them.

## Sensitivity of the properties

A definition X_Something, placed before X, is X with a plausible defect; no specification
uses it. Each property fails when one of them is put in the place of X:

| defect | in the code | noticed by |
|---|---|---|
| Target_Count | maxSyncHeight used as a count, one block too many | SyncJob's TypeOK, CapKept, CascadeTypeOK |
| First_Newest | missing blocks fetched from the newest | KVPrefix |
| SaveBlock_Verified | rows inserted as verified | VerifiedStored |
| DeleteBlocks_Dropped | step 0b deletes no row | ImplementsReplica |
| MissingUpTo_Refetch | the last stored block is fetched again | NotifiedOnce |
| MissingUpTo_Short | range one short | OkAccounted |
| HasCommit_FirstOnly | only the first write set of a block is parsed | CompletedWhole |
| Unverified := Present | `where: { verified: false }` forgotten | VerifiedKept |
| Unverified_NoRow | findUnverified finds nothing | Converges |
| SaveKV_Overwrite | the list is replaced, not extended | LostForever |
| Derived_OffByOne | `takeRight` one short | LossShows |
| Stop_Queued | `stop$` merged into the regular subscription | Synchronizer's TypeOK |
| Idle_Unchecked | the loop does not look at workInProgress | QueueShowsJob, RefusedBesideFirst |
| Settle_NoEnd | queue.syncEnd forgotten | RequestServed, StartSettlesAlone |
| LastJob_Silent | stop emits nothing | PendingListens |
| Without_AsText | numbers compared with the text of the list | DataIsGone, ComesBack |
| Without_Later | the list is cut at the block | OthersUntouched |
| Refused_Silent | a refused transaction leaves its caller waiting | CommandTypeOK |
| Refused_Ok | a refused deletion is answered with ok | DeletedGone |
| Count_Next | versions start at 1 | VersionNotAhead, ImplementsEventLog |
| SubmitReturns_Early | submit does not await the commit | VersionOrder, SeesOwn |
| JobTells_OneMore | the loop runs one block too far | PlatformTypeOK |
| JobTells_AtEnd | only the last block of a job is announced | FewUntold |
| GetCaAdmin_Always | enrollAndSave does not look into the wallet | CertificateKept |
| GetOrgAdmin_Refuses | an admin that is enrolled is an error | UpOrHalf |
| Tick_Never | the sync timer is not subscribed to | EveryBlockSettles |
| Disconnect_NoStop | disconnect does not stop the synchronizer | ComesToRest |
| OwnWrites_First | the first namespace is taken, whatever it is | WorldProjected |
| ProposalInput_Any | arguments are kept for every chaincode | ReadsAgree |
| HasMore_AtEnd, HasMore_Short | the comparison of hasMore one off | QuerySideTypeOK, Complete |
| Cursor_Stuck | the cursor is skip | Ends |
| Notify_NoPost | the announcing subscription is left out | Announced |

## What is left

1. Sync: Synchronizer and SyncJob composed at the dispatcher, which would replace the two assumptions
   they make of each other by a check, and then by a proof.
2. Proofs: what else holds of the tables when a cascade and a job do run beside each other (`mixed`). CapKept survives it;
   what of VerifiedStored and the order of the list does is to be found with TLC first.

Not modelled, and not planned: setMaxSyncHeight while a job runs (it reaches the next job as its constant), reads
without state (getInfo, queryChannels, isBackendsReady), registration of further users (one call to the authority),
the stub createRepository of the write side, routes and servers beyond what they await (stateless forwarding),
metrics, logging and tracing (nothing reads them), the sample programs, and the contents of blocks and certificates.
