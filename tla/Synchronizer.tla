---------------------------- MODULE Synchronizer ----------------------------
(***************************************************************************)
(* start and stop of createSynchronizer, src/src/sync/createSynchronizer.ts,*)
(* with the rematch model queue, src/src/sync/models/Queue.ts, and the test *)
(* by which src/src/sync/dispatcher.ts refuses to start a second job.       *)
(*                                                                         *)
(* A call of start is a "batch": it opens two subscriptions.  The regular   *)
(* one queues a request at every tick of the sync timer and every time a    *)
(* block arrives; the execution one looks at the queue every second and     *)
(* dispatches a job.  stop, and the end of a batch, close the subscriptions *)
(* that the variables of createSynchronizer hold at that moment, which are  *)
(* those of the latest batch.  What a job does is the module SyncJob; here  *)
(* it is in flight until it settles.                                        *)
(*                                                                         *)
(* A definition X_Defect is X with a plausible defect, as in QueryDb.       *)
(***************************************************************************)
EXTENDS Integers, Sequences, FiniteSets

CONSTANTS
    Counts,         \* arguments numberOfExecution; 0 when it is not given
    MaxStarts,      \* bound: calls of start
    MaxQueue,       \* bound: requests in the queue when a timer adds one
    MaxStopping     \* bound: calls of stop within their second of waiting

ASSUME SynchronizerAssumption ==
    /\ Counts \subseteq Nat
    /\ {MaxStarts, MaxQueue, MaxStopping} \subseteq Nat

VARIABLES
    batch,      \* one record per call of start, the latest last
    queued,     \* queue.queued: the ids of the requests
    wip,        \* queue.workInProgress: an id, or None
    flights,    \* the jobs in flight, each with the batch that dispatched it
    stopping,   \* calls of stop that wait for their second to pass
    owed        \* has something been requested since the last job started?

vars == <<batch, queued, wip, flights, stopping, owed>>

\* Request ids: 0 is the first tick of a sync timer, 1 stands for the later
\* ticks and for the arrivals of blocks (99.<blocknum>).
Id == {0, 1}

None == -1

\* JavaScript's test of workInProgress: null and the number 0 are falsy.
Truthy(id) == id \notin {None, 0}

Batch == 1 .. MaxStarts

\* "alone" records whether start was called when all that ran before was closed and
\* no stop was waiting.
BatchType == [n : Counts, alone : BOOLEAN, regular : BOOLEAN, exec : BOOLEAN, fresh : BOOLEAN,
              dispatched : Nat, done : Nat, promise : {"pending", "true", "false"}]

TypeOK ==
    /\ batch \in Seq(BatchType) /\ Len(batch) <= MaxStarts
    /\ queued \in Seq(Id)
    /\ wip \in Id \cup {None}
    /\ flights \subseteq [batch : DOMAIN batch, id : Id]
    /\ stopping \in 0 .. MaxStopping
    /\ owed \in BOOLEAN

Init ==
    /\ batch = <<>> /\ queued = <<>> /\ wip = None
    /\ flights = {} /\ stopping = 0 /\ owed = FALSE

Open(r) == r.regular \/ r.exec

AllClosed == stopping = 0 /\ \A b \in DOMAIN batch : ~Open(batch[b])

-----------------------------------------------------------------------------
(* Operations on the subscriptions                                         *)

\* Unsubscribe what regularSyncSubscription and executionSubscription hold.
CloseCurrent(bs) ==
    [b \in DOMAIN bs |-> IF b = Len(bs) THEN [bs[b] EXCEPT !.regular = FALSE, !.exec = FALSE]
                                        ELSE bs[b]]

Resolve(r, value) == IF r.promise = "pending" THEN [r EXCEPT !.promise = value] ELSE r

LastJob_Silent(bs) == bs

\* stop$ emits LAST_JOB, which every open execution subscription receives.
LastJob(bs) == [b \in DOMAIN bs |-> IF bs[b].exec THEN Resolve(bs[b], "false") ELSE bs[b]]

\* A counter is compared with n only: above n its value does not matter.
Inc(k, n) == IF k > n THEN k ELSE k + 1

\* The end of the handler that dispatched a job for batch b: one dispatch more,
\* whether the job ran or was refused.  At the n-th it closes the CURRENT
\* regular subscription and resolves its own start.
Counted(b, ran) ==
    LET r    == [batch[b] EXCEPT !.dispatched = Inc(@, batch[b].n),
                                 !.done = IF ran THEN Inc(@, batch[b].n) ELSE @]
        last == r.n # 0 /\ r.dispatched = r.n
        bs   == [batch EXCEPT ![b] = IF last THEN Resolve(r, "true") ELSE r]
    IN  IF last THEN [bs EXCEPT ![Len(bs)].regular = FALSE] ELSE bs

-----------------------------------------------------------------------------

Start(n) ==
    /\ Len(batch) < MaxStarts
    /\ batch' = Append(batch, [n |-> n, alone |-> AllClosed, regular |-> TRUE, exec |-> TRUE,
                               fresh |-> TRUE, dispatched |-> 0, done |-> 0, promise |-> "pending"])
    /\ UNCHANGED <<queued, wip, flights, stopping, owed>>

\* A tick of the timer regularSync$ of batch b: queue.newJob.
RegularTick(b) ==
    /\ b \in DOMAIN batch /\ batch[b].regular
    /\ Len(queued) < MaxQueue
    /\ queued' = Append(queued, IF batch[b].fresh THEN 0 ELSE 1)
    /\ batch' = [batch EXCEPT ![b].fresh = FALSE]
    /\ owed' = TRUE
    /\ UNCHANGED <<wip, flights, stopping>>

\* A block arrives, newBlock$: one request from each open regular subscription.
BlockArrives ==
    LET listeners == {b \in DOMAIN batch : batch[b].regular}
    IN  /\ listeners # {}
        /\ Len(queued) < MaxQueue
        /\ queued' = queued \o [k \in 1 .. Cardinality(listeners) |-> 1]
        /\ owed' = TRUE
        /\ UNCHANGED <<batch, wip, flights, stopping>>

\* The dispatcher throws when syncJob.running.
Accepts == flights = {}

Idle_Unchecked == queued # <<>>

\* The test of the execution loop, !workInProgress and a non-empty queue.
Idle == ~Truthy(wip) /\ queued # <<>>

\* A tick of execution$ for batch b.  The latest request is taken and the others
\* lapse.  A refused dispatch ends in the same turn, and resets workInProgress
\* although the job that made the dispatcher refuse it is still in flight.
ExecTick(b) ==
    /\ b \in DOMAIN batch /\ batch[b].exec
    /\ Idle
    /\ queued' = <<>>
    /\ \/ /\ Accepts
          /\ wip' = queued[Len(queued)]
          /\ flights' = flights \cup {[batch |-> b, id |-> queued[Len(queued)]]}
          /\ owed' = FALSE
          /\ UNCHANGED batch
       \/ /\ ~Accepts
          /\ wip' = None
          /\ batch' = Counted(b, FALSE)
          /\ UNCHANGED <<flights, owed>>
    /\ UNCHANGED stopping

Settle_NoEnd ==
    \E f \in flights :
        /\ flights' = flights \ {f}
        /\ batch' = Counted(f.batch, TRUE)
        /\ UNCHANGED <<queued, wip, stopping, owed>>

\* The job in flight settles, well or badly: queue.syncEnd, and the rest of the
\* handler that awaited it, whether or not its subscription is still open.
Settle ==
    \E f \in flights :
        /\ flights' = flights \ {f}
        /\ wip' = None
        /\ batch' = Counted(f.batch, TRUE)
        /\ UNCHANGED <<queued, stopping, owed>>

Stop_Queued ==
    /\ stopping < MaxStopping
    /\ stopping' = stopping + 1
    /\ queued' = Append(queued, -1)
    /\ UNCHANGED <<batch, wip, flights, owed>>

Stop ==
    /\ stopping < MaxStopping
    /\ stopping' = stopping + 1
    /\ batch' = LastJob(batch)
    /\ UNCHANGED <<queued, wip, flights, owed>>

\* The second after which stop unsubscribes has passed.
StopEnds ==
    /\ stopping > 0
    /\ stopping' = stopping - 1
    /\ batch' = CloseCurrent(batch)
    /\ UNCHANGED <<queued, wip, flights, owed>>

\* stopAndChangeRequestTimeout, ...ShowStateChanges, ...SyncTime: no waiting.
\* Before the first start they throw.
StopAndChange ==
    /\ batch # <<>>
    /\ batch' = CloseCurrent(LastJob(batch))
    /\ UNCHANGED <<queued, wip, flights, stopping, owed>>

Next ==
    \/ \E n \in Counts : Start(n)
    \/ \E b \in Batch : RegularTick(b) \/ ExecTick(b)
    \/ BlockArrives \/ Settle \/ Stop \/ StopEnds \/ StopAndChange

Spec == Init /\ [][Next]_vars

\* Timers fire, and a job settles: every call a job makes but one has a timer.
FairSpec ==
    /\ Spec
    /\ \A b \in Batch : WF_vars(RegularTick(b)) /\ WF_vars(ExecTick(b))
    /\ WF_vars(Settle) /\ WF_vars(StopEnds)

-----------------------------------------------------------------------------
(* What holds however start, stop, the timers and the jobs interleave       *)

\* While a job is in flight the queue shows it as work in progress, so that no
\* request is taken off the queue only to be refused -- but for the request 0,
\* which every loop takes for no work at all.
QueueShowsJob == \A f \in flights : f.id = 0 \/ wip = f.id

\* A dispatch counts for the n of its start without having run a job only while the job
\* of a first tick, request 0, is in flight: no other job lets a loop dispatch beside it,
\* however many loops stop and start have left behind.
RefusedBesideFirst ==
    [][\A b \in DOMAIN batch :
            batch'[b].dispatched # batch[b].dispatched /\ batch'[b].done = batch[b].done
                => \E f \in flights : f.id = 0]_vars

\* A request is followed by the start of a job, unless no regular subscription
\* is left to ask again: refused dispatches do not lose it for good.
RequestServed == owed ~> (~owed \/ \A b \in DOMAIN batch : ~batch[b].regular)

\* The discipline of the tests: start is called only once the earlier batches are
\* closed and no stop is under way.
Awaited == \A b \in DOMAIN batch : batch[b].alone

\* Under this discipline a start that has not resolved can still be resolved by stop.
PendingListens ==
    Awaited => \A b \in DOMAIN batch : batch[b].promise = "pending" => batch[b].exec

Pending(b) == b \in DOMAIN batch /\ batch[b].promise = "pending"

\* Under the same discipline start(n) resolves, by itself or by a stop, once no job
\* of an earlier batch is in flight and its own subscription is still open.
StartSettlesAlone ==
    \A b \in Batch :
        (/\ Pending(b) /\ batch[b].n > 0 /\ batch[b].regular
         /\ \A f \in flights : f.batch = b) ~> (~Pending(b) \/ ~Awaited)

-----------------------------------------------------------------------------
(* What comments and tests say, and the interleavings do not keep           *)

\* start(n) resolves to true when n executions are done (comment "exit start(),
\* when numberOfExecution reaches", tests "run 1x" and "run 2x").  Does NOT hold:
\* a request that the dispatcher refuses counts as one.
ExecutionsDone ==
    \A b \in DOMAIN batch : batch[b].promise = "true" => batch[b].done >= batch[b].n

\* start(n) resolves at the n-th execution, or when stopped; without n it never
\* does (same comment).  Does NOT hold, not even when each start is awaited: the job of
\* an earlier batch that settles after the start closes the regular subscription of
\* this one.
StartSettles ==
    \A b \in Batch : (Pending(b) /\ batch[b].n > 0) ~> (~Pending(b) \/ ~Awaited)

=============================================================================
