------------------------------- MODULE Platform -------------------------------
(***************************************************************************)
(* The life of a process: createPlatform, src/src/platform/createPlatform.ts,*)
(* whose initialize makes the parts one after another and whose disconnect *)
(* takes them down, and src/src/app.ts, which initialises it, starts the   *)
(* synchronizer and then the HTTP server.  A process that ends is started  *)
(* again; the tables and the wallet remain.                                *)
(*                                                                         *)
(* Step 5 of initialize is Enrolment, of which this module gives the       *)
(* process.  A job is what SyncJob says, cut down to blocks of one         *)
(* transaction with a commit and to the calls that leave something behind  *)
(* when the process ends after them: for each block it stores rows, enters *)
(* the block in the list "insertedBlock", flags it verified (all with the  *)
(* connection) and announces the commit (the message center).  The rows of *)
(* a block that is not flagged are removed by the next job, and are not a  *)
(* variable.  Blocks are numbered by their arrival.                        *)
(***************************************************************************)
EXTENDS Enrolment, FiniteSets

CONSTANT MaxBlock       \* bound: blocks

ASSUME PlatformAssumption == MaxBlock \in Nat

VARIABLES
    app,        \* where app.ts is
    steps,      \* the steps of initialize that are done
    hub,        \* are block listeners in place?
    subs,       \* are the subscriptions of the synchronizer open?
    requested,  \* is a job queued?
    job,        \* what the job awaits, or "none"
    upTo,       \* the block it goes up to
    height,     \* blocks that have arrived
    listed,     \* the list "insertedBlock" holds the blocks 1 .. listed
    verified,   \* blocks that are in the table and flagged
    told,       \* commits announced to the write side
    closing     \* how far disconnect has come

sync == <<subs, requested, job, upTo, listed, verified, told>>
\* What the steps of a job leave alone between its reading and its end.
around == <<app, steps, hub, subs, requested, upTo, height, closing>>
pvars == <<vars, app, steps, hub, sync, height, closing>>

Steps == 9

\* What disconnect has done, one after another; the query database has nothing to do.
GatewayClosed    == closing >= 1
MessagesClosed   == closing >= 2
StopCalled       == closing >= 3
ConnectionClosed == closing = 5

PlatformTypeOK ==
    /\ EnrolmentTypeOK
    /\ app \in {"init", "exiting", "starting", "listening"}
    /\ steps \in 0 .. Steps /\ closing \in 0 .. 5
    /\ {hub, subs, requested} \subseteq BOOLEAN
    /\ job \in {"none", "read", "store", "list", "flag", "tell"}
    /\ {upTo, height, listed} \subseteq 0 .. MaxBlock
    /\ told \subseteq verified /\ verified \subseteq 1 .. listed
    /\ steps > 4 => pc = "up"
    /\ subs => hub /\ steps = Steps
    /\ job \in {"store", "list"} => listed < upTo
    /\ job \in {"flag", "tell"} => listed <= upTo
    /\ upTo <= height

PlatformInit ==
    /\ Init
    /\ app = "init" /\ steps = 0 /\ closing = 0
    /\ hub = FALSE /\ subs = FALSE /\ requested = FALSE
    /\ job = "none" /\ upTo = 0 /\ height = 0
    /\ listed = 0 /\ verified = {} /\ told = {}

-----------------------------------------------------------------------------
(* initialize, and main of app.ts                                          *)

\* In step 5 the gateway is initialised, with the enrolment of its admins.
InitGateway ==
    /\ app = "init" /\ steps = 4
    /\ Initialize
    /\ UNCHANGED <<app, steps, hub, height, closing, sync>>

\* In step 8 each channel gets its listener.
Listen ==
    /\ app = "init" /\ steps = 7 /\ ~hub /\ hub' = TRUE
    /\ UNCHANGED <<vars, app, steps, height, closing, sync>>

\* One of the first eight steps is done.
InitStep ==
    /\ app = "init" /\ steps < Steps - 1
    /\ steps = 4 => pc = "up"
    /\ steps = 7 => hub
    /\ steps' = steps + 1
    /\ UNCHANGED <<vars, app, hub, height, closing, sync>>

\* A step fails, and initialize answers false.
InitFails ==
    /\ app = "init" /\ app' = "exiting"
    /\ \/ steps = 4 /\ pc = "failed" /\ UNCHANGED faults
       \/ steps # 4 /\ FaultElsewhere
    /\ UNCHANGED <<pc, wallet, ca, flags, issued, missed, steps, hub, height, closing, sync>>

\* The last step, and with nothing in between the call of start, which subscribes.
StartSync ==
    /\ app = "init" /\ steps = Steps - 1 /\ steps' = Steps
    /\ app' = "starting" /\ subs' = TRUE
    /\ UNCHANGED <<vars, hub, requested, job, upTo, height, listed, verified, told, closing>>

\* app.ts awaits start without a count, which only stop resolves.
StartHttp ==
    /\ app = "starting" /\ StopCalled /\ app' = "listening"
    /\ UNCHANGED <<vars, steps, hub, height, closing, sync>>

\* A new process.
Again ==
    /\ NewProcess
    /\ app' = "init" /\ steps' = 0 /\ closing' = 0
    /\ hub' = FALSE /\ subs' = FALSE /\ requested' = FALSE
    /\ job' = "none" /\ upTo' = 0
    /\ UNCHANGED <<height, listed, verified, told>>

\* app.ts exits 30 seconds after initialize has answered false.
Exit == app = "exiting" /\ UNCHANGED faults /\ Again

\* The process ends, in the middle of whatever it does.
Crash == app # "exiting" /\ closing = 0 /\ Fault /\ Again

-----------------------------------------------------------------------------
(* The synchronizer and its jobs                                           *)

\* A block arrives; its listener queues a job when somebody listens to it.
BlockArrives ==
    /\ height < MaxBlock /\ height' = height + 1
    /\ requested' = (requested \/ (hub /\ subs /\ ~GatewayClosed))
    /\ UNCHANGED <<vars, app, steps, hub, subs, job, upTo, listed, verified, told, closing>>

Tick_Never == FALSE /\ UNCHANGED pvars

\* The timer of the synchronizer.
Tick ==
    /\ subs /\ ~requested /\ requested' = TRUE
    /\ UNCHANGED <<vars, app, steps, hub, subs, job, upTo, height, listed, verified, told,
                   closing>>

JobBegins ==
    /\ subs /\ requested /\ job = "none"
    /\ requested' = FALSE /\ job' = "read"
    /\ UNCHANGED <<vars, app, steps, hub, subs, upTo, height, listed, verified, told, closing>>

\* Steps 1 to 4 of the job: the gateway is closed, or it has nothing new, or there are
\* blocks to insert.
JobReads ==
    /\ job = "read"
    /\ upTo' = IF GatewayClosed THEN upTo ELSE height
    /\ job' = IF ~GatewayClosed /\ listed < height THEN "store" ELSE "none"
    /\ UNCHANGED <<vars, app, steps, hub, subs, requested, height, listed, verified, told,
                   closing>>

\* Steps 6b to 6f: the block is queried, and its rows are inserted.
JobStores ==
    /\ job = "store"
    /\ \/ (GatewayClosed \/ ConnectionClosed) /\ job' = "none"
       \/ ~ConnectionClosed /\ job' = "list"
    /\ UNCHANGED <<vars, around, listed, verified, told>>

\* Step 6g: from here on no job looks for the block again.
JobLists ==
    /\ job = "list"
    /\ \/ ConnectionClosed  /\ job' = "none" /\ UNCHANGED listed
       \/ ~ConnectionClosed /\ job' = "flag" /\ listed' = listed + 1
    /\ UNCHANGED <<vars, around, verified, told>>

\* Step 6h.
JobFlags ==
    /\ job = "flag"
    /\ \/ ConnectionClosed  /\ job' = "none" /\ UNCHANGED verified
       \/ ~ConnectionClosed /\ job' = "tell" /\ verified' = verified \cup {listed}
    /\ UNCHANGED <<vars, around, listed, told>>

NextOrEnd(more) == job' = IF more THEN "store" ELSE "none"

JobTells_OneMore ==
    /\ job = "tell"
    /\ told' = told \cup {b \in {listed} : ~MessagesClosed}
    /\ NextOrEnd(listed <= upTo)
    /\ UNCHANGED <<vars, around, listed, verified>>

JobTells_AtEnd ==
    /\ job = "tell"
    /\ told' = told \cup {b \in {listed} : ~MessagesClosed /\ listed = upTo}
    /\ NextOrEnd(listed < upTo)
    /\ UNCHANGED <<vars, around, listed, verified>>

\* Step 6i: notify of a message center whose subscriptions are closed tells nobody.
JobTells ==
    /\ job = "tell"
    /\ told' = told \cup {b \in {listed} : ~MessagesClosed}
    /\ NextOrEnd(listed < upTo)
    /\ UNCHANGED <<vars, around, listed, verified>>

\* A call of the job answers nothing, or its timer rejects it, before its statement is
\* executed or (in the state that follows it) after.
JobFails ==
    /\ job # "none" /\ FaultElsewhere /\ job' = "none"
    /\ UNCHANGED <<around, listed, verified, told>>

Disconnect_NoStop ==
    /\ app = "starting" /\ closing < 5
    /\ closing' = closing + 1
    /\ UNCHANGED <<vars, app, steps, hub, height, sync>>

\* disconnect, which the tests call and app.ts does not: the gateway, the message center
\* and the query database, stop, whose subscriptions close a second later, and the
\* connection.
Disconnect ==
    /\ app \in {"starting", "listening"} /\ closing < 5
    /\ closing' = closing + 1
    /\ subs' = (subs /\ closing # 3)
    /\ UNCHANGED <<vars, app, steps, hub, requested, job, upTo, height, listed, verified, told>>

Job == JobBegins \/ JobReads \/ JobStores \/ JobLists \/ JobFlags \/ JobTells

App ==
    \/ InitGateway \/ Listen \/ InitStep \/ StartSync \/ StartHttp \/ Exit
    \/ pc = "failed" /\ InitFails

PlatformNext == App \/ InitFails \/ Crash \/ BlockArrives \/ Tick \/ Job \/ JobFails \/ Disconnect

PlatformSpec == PlatformInit /\ [][PlatformNext]_pvars

\* app.ts goes on and is started again, the timers fire, the job's calls answer.
FairPlatform == PlatformSpec /\ WF_pvars(App) /\ WF_pvars(Tick) /\ WF_pvars(Job)

-----------------------------------------------------------------------------

\* Whatever fails on the way, and however often the process is started again, the
\* platform comes up or is left with a half enrolled wallet, the only one that blocks it.
UpOrHalf == (app = "init") ~> (app = "starting" \/ HalfEnrolled)

\* Listed and not flagged, by no job that is about to: a fault between the two steps has
\* lost the block, which is never fetched again.
Lost == {b \in 1 .. listed : b \notin verified /\ ~(job = "flag" /\ b = listed)}

\* Every block is in the table in the end, unless it is lost like that: however often the
\* process ends and is started again, and also the blocks that arrived when no listener was
\* there or nobody was subscribed to it.  Their requests are lost, and the timer makes up
\* for it.
EveryBlockSettles ==
    \A b \in 1 .. MaxBlock :
        (height >= b) ~> (b \in verified \/ b \in Lost \/ HalfEnrolled \/ closing > 0)

\* Each fault costs one block at most, the one the job was at: it is lost, or its commit
\* is in the table and was never announced.  All others up to the listed height are
\* flagged and announced.
FewUntold ==
    closing = 0 =>
        Cardinality((1 .. listed) \ told) <= IF job \in {"flag", "tell"} THEN faults + 1 ELSE faults

\* After disconnect everything comes to rest, though its order lets a job begin while
\* stop waits, with a gateway that is closed.
ComesToRest == ConnectionClosed ~> [](job = "none")

=============================================================================
