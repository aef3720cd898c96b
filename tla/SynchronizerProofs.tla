------------------------- MODULE SynchronizerProofs -------------------------
(* Proofs about Synchronizer: types, what the queue shows of the job in     *)
(* flight, and which dispatches can be refused, for any number of starts,   *)
(* stops and requests.                                                      *)
EXTENDS Synchronizer, SequenceTheorems, FiniteSetTheorems, TLAPS

\* Closing subscriptions and resolving promises keep the batches well-typed.
LEMMA CloseType ==
    ASSUME NEW bs \in Seq(BatchType)
    PROVE  CloseCurrent(bs) \in Seq(BatchType) /\ Len(CloseCurrent(bs)) = Len(bs)
<1>1. Len(bs) \in Nat /\ DOMAIN bs = 1 .. Len(bs) /\ \A b \in 1 .. Len(bs) : bs[b] \in BatchType
  OBVIOUS
<1>2. DOMAIN CloseCurrent(bs) = 1 .. Len(bs)
  BY <1>1 DEF CloseCurrent
<1>3. \A b \in 1 .. Len(bs) : CloseCurrent(bs)[b] \in BatchType
  BY <1>1 DEF CloseCurrent, BatchType
<1>4. CloseCurrent(bs) \in [1 .. Len(bs) -> BatchType]
  BY <1>2, <1>3 DEF CloseCurrent
<1>5. QED
  BY <1>1, <1>4, SeqDef

\* The same of the emission of LAST_JOB.
LEMMA LastJobType ==
    ASSUME NEW bs \in Seq(BatchType)
    PROVE  LastJob(bs) \in Seq(BatchType) /\ Len(LastJob(bs)) = Len(bs)
<1>1. Len(bs) \in Nat /\ DOMAIN bs = 1 .. Len(bs) /\ \A b \in 1 .. Len(bs) : bs[b] \in BatchType
  OBVIOUS
<1>2. DOMAIN LastJob(bs) = 1 .. Len(bs)
  BY <1>1 DEF LastJob
<1>3. \A b \in 1 .. Len(bs) : LastJob(bs)[b] \in BatchType
  BY <1>1 DEF LastJob, Resolve, BatchType
<1>4. LastJob(bs) \in [1 .. Len(bs) -> BatchType]
  BY <1>2, <1>3 DEF LastJob
<1>5. QED
  BY <1>1, <1>4, SeqDef

\* The end of a handler keeps the batches well-typed.
LEMMA CountedType ==
    ASSUME batch \in Seq(BatchType), NEW b \in DOMAIN batch, NEW ran \in BOOLEAN
    PROVE  Counted(b, ran) \in Seq(BatchType) /\ Len(Counted(b, ran)) = Len(batch)
<1> DEFINE r    == [batch[b] EXCEPT !.dispatched = Inc(@, batch[b].n),
                                    !.done = IF ran THEN Inc(@, batch[b].n) ELSE @]
           last == r.n # 0 /\ r.dispatched = r.n
           bs   == [batch EXCEPT ![b] = IF last THEN Resolve(r, "true") ELSE r]
           cs   == IF last THEN [bs EXCEPT ![Len(bs)].regular = FALSE] ELSE bs
<1>1. batch[b] \in BatchType
  OBVIOUS
<1>2. \A k \in Nat : Inc(k, batch[b].n) \in Nat
  BY DEF Inc
<1>3. r \in BatchType
  BY <1>1, <1>2 DEF BatchType
<1>4. Resolve(r, "true") \in BatchType
  BY <1>3 DEF Resolve, BatchType
<1>5. bs \in Seq(BatchType) /\ Len(bs) = Len(batch)
  <2> DEFINE new == IF last THEN Resolve(r, "true") ELSE r
  <2>1. new \in BatchType
    BY <1>3, <1>4
  <2> HIDE DEF new
  <2>2. [batch EXCEPT ![b] = new] \in Seq(BatchType) /\ Len([batch EXCEPT ![b] = new]) = Len(batch)
    BY <2>1
  <2>3. QED
    BY <2>2 DEF new
<1> HIDE DEF bs, last, r
<1>6. cs \in Seq(BatchType) /\ Len(cs) = Len(batch)
  <2>1. CASE Len(bs) \in DOMAIN bs
    <3> DEFINE cur == bs[Len(bs)]
    <3>0. cur \in BatchType
      BY <1>5, <2>1
    <3>1. [cur EXCEPT !.regular = FALSE] \in BatchType
      <4> HIDE DEF cur
      <4> QED
        BY <3>0 DEF BatchType
    <3>2. QED
      BY <1>5, <2>1, <3>1
  <2>2. CASE Len(bs) \notin DOMAIN bs
    BY <1>5, <2>2
  <2>3. QED
    BY <2>1, <2>2
<1>7. QED
  BY <1>6 DEF Counted, cs, bs, last, r

\* A request queued by a timer, or several by the arrival of a block.
LEMMA QueuedType ==
    ASSUME batch \in Seq(BatchType), queued \in Seq(Id), NEW q \in Seq(Id)
    PROVE  Cardinality({b \in DOMAIN batch : batch[b].regular}) \in Nat
<1>1. IsFiniteSet(DOMAIN batch)
  <2>1. DOMAIN batch = 1 .. Len(batch) /\ Len(batch) \in Nat
    OBVIOUS
  <2>2. QED
    BY <2>1, FS_Interval
<1>2. IsFiniteSet({b \in DOMAIN batch : batch[b].regular})
  BY <1>1, FS_Subset
<1>3. QED
  BY <1>2, FS_CardinalityType

\* The types are inductive: one step per action.
LEMMA TypeStep == TypeOK /\ [Next]_vars => TypeOK'
<1> SUFFICES ASSUME TypeOK, [Next]_vars PROVE TypeOK'
  OBVIOUS
<1>0. /\ batch \in Seq(BatchType) /\ Len(batch) <= MaxStarts /\ Len(batch) \in Nat
      /\ DOMAIN batch = 1 .. Len(batch) /\ MaxStarts \in Nat /\ MaxStopping \in Nat
      /\ queued \in Seq(Id) /\ wip \in Id \cup {None} /\ stopping \in 0 .. MaxStopping
      /\ flights \subseteq [batch : DOMAIN batch, id : Id] /\ owed \in BOOLEAN
  BY SynchronizerAssumption DEF TypeOK
<1>1. ASSUME NEW n \in Counts, Start(n) PROVE TypeOK'
  <2> DEFINE new == [n |-> n, alone |-> AllClosed, regular |-> TRUE, exec |-> TRUE,
                     fresh |-> TRUE, dispatched |-> 0, done |-> 0, promise |-> "pending"]
  <2>1. new \in BatchType
    <3>1. AllClosed \in BOOLEAN
      BY DEF AllClosed
    <3> HIDE DEF AllClosed
    <3> QED  BY <3>1 DEF BatchType
  <2>2. batch' = Append(batch, new) /\ Len(batch) < MaxStarts
    BY <1>1 DEF Start
  <2> HIDE DEF new
  <2>3. /\ batch' \in Seq(BatchType) /\ Len(batch') = Len(batch) + 1
        /\ DOMAIN batch' = 1 .. Len(batch) + 1
    BY <1>0, <2>1, <2>2
  <2>4. DOMAIN batch \subseteq DOMAIN batch'
    BY <1>0, <2>3
  <2>5. QED
    BY <1>0, <1>1, <2>2, <2>3, <2>4 DEF TypeOK, Start
<1>2. ASSUME NEW b \in Batch, RegularTick(b) PROVE TypeOK'
  <2>1. b \in DOMAIN batch /\ batch' = [batch EXCEPT ![b] = [batch[b] EXCEPT !.fresh = FALSE]]
    BY <1>2 DEF RegularTick
  <2>2. [batch[b] EXCEPT !.fresh = FALSE] \in BatchType
    <3> DEFINE r == batch[b]
    <3>1. r \in BatchType
      BY <1>0, <2>1
    <3>2. [r EXCEPT !.fresh = FALSE] \in BatchType
      <4> HIDE DEF r
      <4> QED
        BY <3>1 DEF BatchType
    <3>3. QED
      BY <3>2
  <2>3. batch' \in Seq(BatchType) /\ Len(batch') = Len(batch) /\ DOMAIN batch' = DOMAIN batch
    BY <1>0, <2>1, <2>2
  <2>4. queued' \in Seq(Id)
    BY <1>0, <1>2 DEF RegularTick, Id
  <2>5. QED
    BY <1>0, <1>2, <2>3, <2>4 DEF TypeOK, RegularTick
<1>3. ASSUME NEW b \in Batch, ExecTick(b) PROVE TypeOK'
  <2>1. b \in DOMAIN batch /\ queued # <<>> /\ queued' = <<>> /\ stopping' = stopping
    BY <1>3 DEF ExecTick, Idle
  <2>2. queued[Len(queued)] \in Id
    BY <1>0, <2>1
  <2>a. queued' \in Seq(Id)
    BY <2>1
  <2>3. CASE Accepts
    <3> DEFINE job == [batch |-> b, id |-> queued[Len(queued)]]
    <3>1. job \in [batch : DOMAIN batch, id : Id]
      BY <2>1, <2>2
    <3>2. /\ wip' = queued[Len(queued)] /\ flights' = flights \cup {job}
          /\ owed' = FALSE /\ UNCHANGED batch
      BY <1>3, <2>3 DEF ExecTick
    <3>3. wip' \in Id \cup {None} /\ flights' \subseteq [batch : DOMAIN batch', id : Id]
      BY <1>0, <2>2, <3>1, <3>2
    <3>4. QED
      BY <1>0, <2>1, <2>a, <3>2, <3>3 DEF TypeOK
  <2>4. CASE ~Accepts
    <3>1. batch' = Counted(b, FALSE) /\ wip' = None /\ UNCHANGED <<flights, owed>>
      BY <1>3, <2>4 DEF ExecTick
    <3>2. /\ batch' \in Seq(BatchType) /\ Len(batch') = Len(batch)
          /\ DOMAIN batch' = DOMAIN batch
      <4>1. Counted(b, FALSE) \in Seq(BatchType) /\ Len(Counted(b, FALSE)) = Len(batch)
        BY <1>0, <2>1, CountedType
      <4>2. batch' \in Seq(BatchType) /\ Len(batch') = Len(batch)
        BY <3>1, <4>1
      <4>3. QED
        BY <1>0, <4>2
    <3>3. QED
      BY <1>0, <2>1, <2>a, <3>1, <3>2 DEF TypeOK
  <2>5. QED
    BY <2>3, <2>4
<1>4. CASE BlockArrives
  <2> DEFINE more == [k \in 1 .. Cardinality({b \in DOMAIN batch : batch[b].regular}) |-> 1]
  <2>1. more \in Seq(Id)
    BY <1>0, QueuedType, SeqDef DEF Id
  <2>2. queued' = queued \o more
    BY <1>4 DEF BlockArrives
  <2> HIDE DEF more
  <2>3. queued' \in Seq(Id)
    BY <1>0, <2>1, <2>2
  <2>4. QED
    BY <1>0, <1>4, <2>3 DEF TypeOK, BlockArrives
<1>5. CASE Settle
  <2>1. PICK f \in flights : /\ flights' = flights \ {f} /\ wip' = None
                             /\ batch' = Counted(f.batch, TRUE)
                             /\ UNCHANGED <<queued, stopping, owed>>
    BY <1>5 DEF Settle
  <2>2. f.batch \in DOMAIN batch
    BY <1>0
  <2>3. /\ batch' \in Seq(BatchType) /\ Len(batch') = Len(batch)
        /\ DOMAIN batch' = DOMAIN batch
    <3>1. /\ Counted(f.batch, TRUE) \in Seq(BatchType)
          /\ Len(Counted(f.batch, TRUE)) = Len(batch)
      BY <1>0, <2>2, CountedType
    <3>2. batch' \in Seq(BatchType) /\ Len(batch') = Len(batch)
      BY <2>1, <3>1
    <3>3. QED
      BY <1>0, <3>2
  <2>4. flights' \subseteq [batch : DOMAIN batch', id : Id]
    BY <1>0, <2>1, <2>3
  <2>5. QED
    BY <1>0, <2>1, <2>3, <2>4 DEF TypeOK
<1>6. CASE Stop
  BY <1>0, <1>6, LastJobType DEF TypeOK, Stop
<1>7. CASE StopEnds
  BY <1>0, <1>7, CloseType DEF TypeOK, StopEnds
<1>8. CASE StopAndChange
  BY <1>0, <1>8, LastJobType, CloseType DEF TypeOK, StopAndChange
<1>9. CASE UNCHANGED vars
  BY <1>9 DEF TypeOK, vars
<1>10. QED
  BY <1>1, <1>2, <1>3, <1>4, <1>5, <1>6, <1>7, <1>8, <1>9 DEF Next

\* The types hold initially.
LEMMA TypeInit == Init => TypeOK
<1> SUFFICES ASSUME Init PROVE TypeOK
  OBVIOUS
<1>1. batch \in Seq(BatchType) /\ Len(batch) = 0 /\ queued \in Seq(Id)
  BY DEF Init
<1>2. MaxStarts \in Nat /\ MaxStopping \in Nat
  BY SynchronizerAssumption
<1>3. stopping \in 0 .. MaxStopping /\ Len(batch) <= MaxStarts
  BY <1>1, <1>2 DEF Init
<1>4. QED
  BY <1>1, <1>3 DEF Init, TypeOK

\* In every reachable state the queue holds ids that a timer or a block produced,
\* a flight belongs to a call of start, and no more starts are open than made.
THEOREM SynchronizerTypes == Spec => []TypeOK
  BY TypeInit, TypeStep, PTL DEF Spec

-----------------------------------------------------------------------------

\* At most one handler is in flight, and the queue shows it unless its id is 0.
FlightInv ==
    /\ \A f, g \in flights : f = g
    /\ QueueShowsJob

\* Only an accepted dispatch, with no flight, and the end of a flight change the
\* flights.  A refused one resets workInProgress: that it found it falsy, and the
\* flight shown, leaves 0 as the only id the flight can have.
LEMMA FlightStep == TypeOK /\ FlightInv /\ [Next]_vars => FlightInv'
<1> SUFFICES ASSUME TypeOK, FlightInv, [Next]_vars PROVE FlightInv'
  OBVIOUS
<1>1. ASSUME NEW b \in Batch, ExecTick(b) PROVE FlightInv'
  <2>1. CASE Accepts
    <3>1. flights = {} /\ wip' = queued[Len(queued)]
          /\ flights' = {[batch |-> b, id |-> queued[Len(queued)]]}
      BY <1>1, <2>1 DEF ExecTick, Accepts
    <3>2. QED
      BY <3>1 DEF FlightInv, QueueShowsJob
  <2>2. CASE ~Accepts
    <3>1. flights' = flights /\ wip \in {None, 0}
      BY <1>1, <2>2 DEF ExecTick, Idle, Truthy
    <3>2. \A f \in flights : f.id \in Id
      BY DEF TypeOK
    <3>3. \A f \in flights : f.id = 0
      BY <3>1, <3>2 DEF FlightInv, QueueShowsJob, Id, None
    <3>4. QED
      BY <3>1, <3>3 DEF FlightInv, QueueShowsJob
  <2>3. QED
    BY <2>1, <2>2
<1>2. CASE Settle
  <2>1. PICK f \in flights : flights' = flights \ {f}
    BY <1>2 DEF Settle
  <2>2. flights' = {}
    BY <2>1 DEF FlightInv
  <2>3. QED
    BY <2>2 DEF FlightInv, QueueShowsJob
<1>3. CASE UNCHANGED <<flights, wip>>
  BY <1>3 DEF FlightInv, QueueShowsJob
<1>4. QED
  BY <1>1, <1>2, <1>3 DEF Next, vars, Start, RegularTick, BlockArrives, Stop, StopEnds,
                          StopAndChange

\* At the start there is no flight.
LEMMA FlightInit == Init => FlightInv
  BY DEF Init, FlightInv, QueueShowsJob

\* The queue shows the job in flight as work in progress, but for request 0, although a
\* refused dispatch of another loop resets it.
THEOREM JobIsShown == Spec => []QueueShowsJob
<1>1. FlightInv => QueueShowsJob
  BY DEF FlightInv
<1>2. QED
  BY <1>1, FlightInit, TypeInit, TypeStep, FlightStep, PTL DEF Spec

-----------------------------------------------------------------------------
(* Which dispatches are counted without a job.  The counters stop above n, *)
(* so that the end of a job counts in both only because no more jobs are   *)
(* done than dispatches made.                                              *)

DoneInv == \A b \in DOMAIN batch : batch[b].done <= batch[b].dispatched

\* What an operation on the subscriptions leaves of the counts.
SameCounts(bs, cs) ==
    /\ DOMAIN cs = DOMAIN bs
    /\ \A b \in DOMAIN bs : cs[b].dispatched = bs[b].dispatched /\ cs[b].done = bs[b].done

\* LAST_JOB counts nothing.
LEMMA LastJobCounts ==
    ASSUME NEW bs \in Seq(BatchType)
    PROVE  SameCounts(bs, LastJob(bs))
<1>1. ASSUME NEW b \in DOMAIN bs
      PROVE  /\ LastJob(bs)[b].dispatched = bs[b].dispatched
             /\ LastJob(bs)[b].done = bs[b].done
  <2> DEFINE r == bs[b]
  <2>1. r \in BatchType
    OBVIOUS
  <2>2. LastJob(bs)[b] = IF r.exec THEN Resolve(r, "false") ELSE r
    BY DEF LastJob
  <2> HIDE DEF r
  <2>3. LastJob(bs)[b].dispatched = r.dispatched /\ LastJob(bs)[b].done = r.done
    BY <2>1, <2>2 DEF Resolve, BatchType
  <2> QED  BY <2>3 DEF r
<1>2. DOMAIN LastJob(bs) = DOMAIN bs
  BY DEF LastJob
<1>3. QED
  BY <1>1, <1>2 DEF SameCounts

\* Nor does unsubscribing.
LEMMA CloseCounts ==
    ASSUME NEW bs \in Seq(BatchType)
    PROVE  SameCounts(bs, CloseCurrent(bs))
<1>1. ASSUME NEW b \in DOMAIN bs
      PROVE  /\ CloseCurrent(bs)[b].dispatched = bs[b].dispatched
             /\ CloseCurrent(bs)[b].done = bs[b].done
  <2> DEFINE r == bs[b]
  <2>1. r \in BatchType
    OBVIOUS
  <2>2. CloseCurrent(bs)[b] = IF b = Len(bs) THEN [r EXCEPT !.regular = FALSE, !.exec = FALSE]
                                             ELSE r
    BY DEF CloseCurrent
  <2> HIDE DEF r
  <2>3. CloseCurrent(bs)[b].dispatched = r.dispatched /\ CloseCurrent(bs)[b].done = r.done
    BY <2>1, <2>2 DEF BatchType
  <2> QED  BY <2>3 DEF r
<1>2. DOMAIN CloseCurrent(bs) = DOMAIN bs
  BY DEF CloseCurrent
<1>3. QED
  BY <1>1, <1>2 DEF SameCounts

\* The end of a handler counts for its own start and for no other.
LEMMA CountedCounts ==
    ASSUME batch \in Seq(BatchType), NEW b \in DOMAIN batch, NEW ran \in BOOLEAN
    PROVE  /\ DOMAIN Counted(b, ran) = DOMAIN batch
           /\ \A c \in DOMAIN batch \ {b} :
                 /\ Counted(b, ran)[c].dispatched = batch[c].dispatched
                 /\ Counted(b, ran)[c].done = batch[c].done
           /\ Counted(b, ran)[b].dispatched = Inc(batch[b].dispatched, batch[b].n)
           /\ Counted(b, ran)[b].done =
                 IF ran THEN Inc(batch[b].done, batch[b].n) ELSE batch[b].done
<1> DEFINE r    == [batch[b] EXCEPT !.dispatched = Inc(@, batch[b].n),
                                    !.done = IF ran THEN Inc(@, batch[b].n) ELSE @]
           last == r.n # 0 /\ r.dispatched = r.n
           new  == IF last THEN Resolve(r, "true") ELSE r
           bs   == [batch EXCEPT ![b] = new]
           cs   == IF last THEN [bs EXCEPT ![Len(bs)].regular = FALSE] ELSE bs
           d    == Inc(batch[b].dispatched, batch[b].n)
           e    == IF ran THEN Inc(batch[b].done, batch[b].n) ELSE batch[b].done
<1>1. batch[b] \in BatchType /\ \A k \in Nat : Inc(k, batch[b].n) \in Nat
  BY DEF Inc
<1>2. r \in BatchType /\ r.dispatched = d /\ r.done = e
  <2> DEFINE q == batch[b]
  <2>1. q \in BatchType /\ d \in Nat /\ e \in Nat
    BY <1>1 DEF BatchType
  <2>2. r = [q EXCEPT !.dispatched = d, !.done = e]
    OBVIOUS
  <2> HIDE DEF q, r, d, e
  <2>3. QED
    BY <2>1, <2>2 DEF BatchType
<1> HIDE DEF d, e
<1>3. new \in BatchType /\ new.dispatched = d /\ new.done = e
  <2> HIDE DEF r, last
  <2> QED  BY <1>2 DEF Resolve, BatchType
<1> HIDE DEF new, last, r
<1>4. bs \in Seq(BatchType) /\ Len(bs) = Len(batch) /\ DOMAIN bs = DOMAIN batch
  BY <1>3
<1>5. bs[b] = new /\ \A c \in DOMAIN batch \ {b} : bs[c] = batch[c]
  BY <1>3
<1> HIDE DEF bs
<1>6. DOMAIN cs = DOMAIN bs
  OBVIOUS
<1>7. ASSUME NEW c \in DOMAIN bs
      PROVE  cs[c].dispatched = bs[c].dispatched /\ cs[c].done = bs[c].done
  <2>1. CASE last /\ c = Len(bs)
    <3> DEFINE q == bs[c]
    <3>1. q \in BatchType /\ cs[c] = [q EXCEPT !.regular = FALSE]
      BY <1>4, <2>1
    <3> HIDE DEF q, cs
    <3>2. cs[c].dispatched = q.dispatched /\ cs[c].done = q.done
      BY <3>1 DEF BatchType
    <3> QED  BY <3>2 DEF q
  <2>2. CASE ~(last /\ c = Len(bs))
    <3>1. cs[c] = bs[c]
      BY <1>4, <2>2
    <3> QED  BY <3>1
  <2> QED  BY <2>1, <2>2
<1>8. Counted(b, ran) = cs
  BY DEF Counted, cs, bs, new, last, r
<1> HIDE DEF cs
<1>9. QED
  BY <1>3, <1>4, <1>5, <1>6, <1>7, <1>8 DEF d, e

\* The counts one step can change: those of the start whose handler ends, both of them
\* when it ran a job.
Counting ==
    \A b \in DOMAIN batch :
        /\ b \in DOMAIN batch'
        /\ batch'[b].done <= batch'[b].dispatched
        /\ batch'[b].dispatched # batch[b].dispatched /\ batch'[b].done = batch[b].done
              => \E f \in flights : f.id = 0

\* Each step counts like that; only a refused dispatch leaves the second count behind.
LEMMA CountStep == TypeOK /\ FlightInv /\ DoneInv /\ [Next]_vars => Counting /\ DoneInv'
<1> SUFFICES ASSUME TypeOK, FlightInv, DoneInv, [Next]_vars PROVE Counting /\ DoneInv'
  OBVIOUS
<1>0. /\ batch \in Seq(BatchType) /\ flights \subseteq [batch : DOMAIN batch, id : Id]
      /\ \A b \in DOMAIN batch : /\ batch[b].dispatched \in Nat /\ batch[b].done \in Nat
                                /\ batch[b].n \in Nat
                                /\ batch[b].done <= batch[b].dispatched
  <2>1. batch \in Seq(BatchType) /\ flights \subseteq [batch : DOMAIN batch, id : Id]
    BY DEF TypeOK
  <2>2. \A b \in DOMAIN batch : batch[b] \in BatchType
    BY <2>1
  <2>3. QED
    BY <2>1, <2>2, SynchronizerAssumption DEF BatchType, DoneInv
<1>1. SUFFICES \/ SameCounts(batch, batch')
               \/ /\ DOMAIN batch \subseteq DOMAIN batch'
                  /\ \A b \in DOMAIN batch : batch'[b] = batch[b]
                  /\ \A b \in DOMAIN batch' \ DOMAIN batch :
                        batch'[b].dispatched = 0 /\ batch'[b].done = 0
               \/ \E b \in DOMAIN batch, ran \in BOOLEAN :
                     /\ batch' = Counted(b, ran)
                     /\ ran \/ \E f \in flights : f.id = 0
  <2>1. CASE SameCounts(batch, batch')
    BY <1>0, <2>1 DEF SameCounts, Counting, DoneInv
  <2>2. CASE /\ DOMAIN batch \subseteq DOMAIN batch'
             /\ \A b \in DOMAIN batch : batch'[b] = batch[b]
             /\ \A b \in DOMAIN batch' \ DOMAIN batch :
                   batch'[b].dispatched = 0 /\ batch'[b].done = 0
    <3>1. Counting
      BY <1>0, <2>2 DEF Counting
    <3>2. DoneInv'
      BY <1>0, <2>2 DEF DoneInv
    <3>3. QED
      BY <3>1, <3>2
  <2>3. ASSUME NEW b \in DOMAIN batch, NEW ran \in BOOLEAN, batch' = Counted(b, ran),
               ran \/ \E f \in flights : f.id = 0
        PROVE  Counting /\ DoneInv'
    <3>1. /\ DOMAIN batch' = DOMAIN batch
          /\ \A c \in DOMAIN batch \ {b} :
                /\ batch'[c].dispatched = batch[c].dispatched
                /\ batch'[c].done = batch[c].done
          /\ batch'[b].dispatched = Inc(batch[b].dispatched, batch[b].n)
          /\ batch'[b].done = IF ran THEN Inc(batch[b].done, batch[b].n) ELSE batch[b].done
      BY <1>0, <2>3, CountedCounts
    <3>2. /\ batch'[b].done <= batch'[b].dispatched
          /\ ran /\ batch'[b].dispatched # batch[b].dispatched
                => batch'[b].done # batch[b].done
      BY <1>0, <3>1 DEF Inc
    <3>3. QED
      BY <1>0, <2>3, <3>1, <3>2 DEF Counting, DoneInv
  <2>4. QED
    BY <1>1, <2>1, <2>2, <2>3
<1>2. ASSUME NEW n \in Counts, Start(n)
      PROVE  /\ DOMAIN batch \subseteq DOMAIN batch'
             /\ \A b \in DOMAIN batch : batch'[b] = batch[b]
             /\ \A b \in DOMAIN batch' \ DOMAIN batch :
                   batch'[b].dispatched = 0 /\ batch'[b].done = 0
  <2> DEFINE new == [n |-> n, alone |-> AllClosed, regular |-> TRUE, exec |-> TRUE,
                     fresh |-> TRUE, dispatched |-> 0, done |-> 0, promise |-> "pending"]
  <2>1. new.dispatched = 0 /\ new.done = 0
    OBVIOUS
  <2>2. batch' = Append(batch, new)
    BY <1>2 DEF Start
  <2> HIDE DEF new
  <2>3. QED
    BY <1>0, <2>1, <2>2
<1>3. ASSUME NEW b \in Batch, RegularTick(b) PROVE SameCounts(batch, batch')
  <2> DEFINE old == batch[b]
             ticked == [old EXCEPT !.fresh = FALSE]
  <2>1. b \in DOMAIN batch /\ batch' = [batch EXCEPT ![b] = ticked]
    BY <1>3 DEF RegularTick
  <2>2. old \in BatchType
    BY <1>0, <2>1
  <2>3. ticked.dispatched = old.dispatched /\ ticked.done = old.done
    <3> HIDE DEF old
    <3> QED  BY <2>2 DEF BatchType
  <2> HIDE DEF ticked
  <2>4. QED
    BY <1>0, <2>1, <2>3 DEF SameCounts
<1>4. ASSUME NEW b \in Batch, ExecTick(b)
      PROVE  \/ SameCounts(batch, batch')
             \/ b \in DOMAIN batch /\ batch' = Counted(b, FALSE) /\ \E f \in flights : f.id = 0
  <2>1. CASE Accepts
    BY <1>4, <2>1 DEF ExecTick, SameCounts
  <2>2. CASE ~Accepts
    <3>1. /\ b \in DOMAIN batch /\ batch' = Counted(b, FALSE)
          /\ flights # {} /\ wip \in {None, 0}
      BY <1>4, <2>2 DEF ExecTick, Idle, Truthy, Accepts
    <3>2. \A f \in flights : f.id = 0
      BY <1>0, <3>1 DEF FlightInv, QueueShowsJob, Id, None
    <3>3. QED
      BY <3>1, <3>2
  <2>3. QED
    BY <2>1, <2>2
<1>5. CASE Settle
  <2>1. PICK f \in flights : batch' = Counted(f.batch, TRUE)
    BY <1>5 DEF Settle
  <2>2. QED
    BY <1>0, <2>1
<1>6. CASE Stop
  BY <1>0, <1>6, LastJobCounts DEF Stop
<1>7. CASE StopEnds
  BY <1>0, <1>7, CloseCounts DEF StopEnds
<1>8. CASE StopAndChange
  <2>1. LastJob(batch) \in Seq(BatchType) /\ batch' = CloseCurrent(LastJob(batch))
    BY <1>0, <1>8, LastJobType DEF StopAndChange
  <2>2. SameCounts(batch, LastJob(batch)) /\ SameCounts(LastJob(batch), batch')
    BY <1>0, <2>1, LastJobCounts, CloseCounts
  <2>3. QED
    BY <2>2 DEF SameCounts
<1>9. CASE UNCHANGED batch
  BY <1>9 DEF SameCounts
<1>10. QED
  BY <1>2, <1>3, <1>4, <1>5, <1>6, <1>7, <1>8, <1>9 DEF Next, vars, BlockArrives

\* However many loops are left behind by starts and stops, and whatever jobs they
\* dispatch: only beside the job of a first tick is a dispatch refused and counted.
THEOREM RefusalsBesideFirst == Spec => RefusedBesideFirst
<1> DEFINE Step == \A b \in DOMAIN batch :
                batch'[b].dispatched # batch[b].dispatched /\ batch'[b].done = batch[b].done
                    => \E f \in flights : f.id = 0
<1>1. TypeOK /\ FlightInv /\ DoneInv /\ [Next]_vars => [Step]_vars
  BY CountStep DEF Counting
<1>2. Init => DoneInv
  BY DEF Init, DoneInv
<1> HIDE DEF Step
<1>3. TypeOK /\ FlightInv /\ DoneInv /\ [Next]_vars => DoneInv'
  BY CountStep
<1>4. Spec => [][Step]_vars
  BY <1>1, <1>2, <1>3, FlightInit, TypeInit, TypeStep, FlightStep, PTL DEF Spec
<1>5. QED
  BY <1>4 DEF Step, RefusedBesideFirst

-----------------------------------------------------------------------------
(* A start that has not resolved can be resolved by stop.  PendingListens  *)
(* is not inductive: the end of a stop closes an execution subscription    *)
(* and resolves nothing.  It relies on what stop did a second before.      *)

\* While a stop waits for its second to pass, no start is unresolved: it has resolved
\* them all, and one made since then is not alone.
StopResolved ==
    Awaited /\ stopping > 0 => \A b \in DOMAIN batch : batch[b].promise # "pending"

StopInv == PendingListens /\ StopResolved

\* What no operation on the subscriptions does to a batch: bring a promise back, or
\* rewrite whether it was alone.
Later(bs, cs) ==
    /\ DOMAIN cs = DOMAIN bs
    /\ \A b \in DOMAIN bs : /\ cs[b].alone = bs[b].alone
                            /\ cs[b].promise = "pending" => bs[b].promise = "pending"

\* LAST_JOB resolves every start whose execution subscription is open.
LEMMA LastJobResolves ==
    ASSUME NEW bs \in Seq(BatchType)
    PROVE  /\ Later(bs, LastJob(bs))
           /\ \A b \in DOMAIN bs : bs[b].exec => LastJob(bs)[b].promise # "pending"
<1>1. ASSUME NEW b \in DOMAIN bs
      PROVE  /\ LastJob(bs)[b].alone = bs[b].alone
             /\ LastJob(bs)[b].promise = "pending" => bs[b].promise = "pending"
             /\ bs[b].exec => LastJob(bs)[b].promise # "pending"
  <2> DEFINE r == bs[b]
  <2>1. r \in BatchType
    OBVIOUS
  <2>2. LastJob(bs)[b] = IF r.exec THEN Resolve(r, "false") ELSE r
    BY DEF LastJob
  <2> HIDE DEF r
  <2>3. /\ LastJob(bs)[b].alone = r.alone
        /\ LastJob(bs)[b].promise = "pending" => r.promise = "pending"
        /\ r.exec => LastJob(bs)[b].promise # "pending"
    BY <2>1, <2>2 DEF Resolve, BatchType
  <2> QED  BY <2>3 DEF r
<1>2. DOMAIN LastJob(bs) = DOMAIN bs
  BY DEF LastJob
<1>3. QED
  BY <1>1, <1>2 DEF Later

\* Unsubscribing changes no promise.
LEMMA CloseResolves ==
    ASSUME NEW bs \in Seq(BatchType)
    PROVE  Later(bs, CloseCurrent(bs))
<1>1. ASSUME NEW b \in DOMAIN bs
      PROVE  /\ CloseCurrent(bs)[b].alone = bs[b].alone
             /\ CloseCurrent(bs)[b].promise = bs[b].promise
  <2> DEFINE r == bs[b]
  <2>1. r \in BatchType
    OBVIOUS
  <2>2. CloseCurrent(bs)[b] = IF b = Len(bs) THEN [r EXCEPT !.regular = FALSE, !.exec = FALSE]
                                             ELSE r
    BY DEF CloseCurrent
  <2> HIDE DEF r
  <2>3. CloseCurrent(bs)[b].alone = r.alone /\ CloseCurrent(bs)[b].promise = r.promise
    BY <2>1, <2>2 DEF BatchType
  <2> QED  BY <2>3 DEF r
<1>2. DOMAIN CloseCurrent(bs) = DOMAIN bs
  BY DEF CloseCurrent
<1>3. QED
  BY <1>1, <1>2 DEF Later

\* The end of a handler closes no execution subscription.
LEMMA CountedResolves ==
    ASSUME batch \in Seq(BatchType), NEW b \in DOMAIN batch, NEW ran \in BOOLEAN
    PROVE  /\ Later(batch, Counted(b, ran))
           /\ \A c \in DOMAIN batch : Counted(b, ran)[c].exec = batch[c].exec
<1> DEFINE r    == [batch[b] EXCEPT !.dispatched = Inc(@, batch[b].n),
                                    !.done = IF ran THEN Inc(@, batch[b].n) ELSE @]
           last == r.n # 0 /\ r.dispatched = r.n
           new  == IF last THEN Resolve(r, "true") ELSE r
           bs   == [batch EXCEPT ![b] = new]
           cs   == IF last THEN [bs EXCEPT ![Len(bs)].regular = FALSE] ELSE bs
<1>1. batch[b] \in BatchType /\ \A k \in Nat : Inc(k, batch[b].n) \in Nat
  BY DEF Inc
<1>2. /\ r \in BatchType
      /\ r.alone = batch[b].alone /\ r.promise = batch[b].promise /\ r.exec = batch[b].exec
  <2> DEFINE q == batch[b]
  <2>1. q \in BatchType /\ Inc(q.dispatched, q.n) \in Nat /\ Inc(q.done, q.n) \in Nat
    BY <1>1 DEF BatchType
  <2>2. r = [q EXCEPT !.dispatched = Inc(q.dispatched, q.n),
                      !.done = IF ran THEN Inc(q.done, q.n) ELSE q.done]
    OBVIOUS
  <2> HIDE DEF q, r
  <2>3. /\ r \in BatchType
        /\ r.alone = q.alone /\ r.promise = q.promise /\ r.exec = q.exec
    BY <2>1, <2>2 DEF BatchType
  <2> QED  BY <2>3 DEF q
<1>3. /\ new \in BatchType /\ new.alone = batch[b].alone /\ new.exec = batch[b].exec
      /\ new.promise = "pending" => batch[b].promise = "pending"
  <2> HIDE DEF r, last
  <2> QED  BY <1>2 DEF Resolve, BatchType
<1> HIDE DEF new, last, r
<1>4. bs \in Seq(BatchType) /\ Len(bs) = Len(batch) /\ DOMAIN bs = DOMAIN batch
  BY <1>3
<1>5. \A c \in DOMAIN batch :
        /\ bs[c].alone = batch[c].alone /\ bs[c].exec = batch[c].exec
        /\ bs[c].promise = "pending" => batch[c].promise = "pending"
  BY <1>3
<1> HIDE DEF bs
<1>6. DOMAIN cs = DOMAIN bs
  OBVIOUS
<1>7. ASSUME NEW c \in DOMAIN bs
      PROVE  /\ cs[c].alone = bs[c].alone /\ cs[c].exec = bs[c].exec
             /\ cs[c].promise = bs[c].promise
  <2>1. CASE last /\ c = Len(bs)
    <3> DEFINE q == bs[c]
    <3>1. q \in BatchType /\ cs[c] = [q EXCEPT !.regular = FALSE]
      BY <1>4, <2>1
    <3> HIDE DEF q, cs
    <3>2. cs[c].alone = q.alone /\ cs[c].exec = q.exec /\ cs[c].promise = q.promise
      BY <3>1 DEF BatchType
    <3> QED  BY <3>2 DEF q
  <2>2. CASE ~(last /\ c = Len(bs))
    <3>1. cs[c] = bs[c]
      BY <1>4, <2>2
    <3> QED  BY <3>1
  <2> QED  BY <2>1, <2>2
<1>8. Counted(b, ran) = cs
  BY DEF Counted, cs, bs, new, last, r
<1> HIDE DEF cs
<1>9. QED
  BY <1>4, <1>5, <1>6, <1>7, <1>8 DEF Later

\* An operation after which nobody is unresolved who was not, and that closes no execution
\* subscription of an unresolved start, keeps the invariant.
LEMMA LaterKeeps ==
    ASSUME StopInv, Later(batch, batch'), stopping' > 0 => stopping > 0,
           \A b \in DOMAIN batch : batch'[b].exec = batch[b].exec
    PROVE  StopInv'
  BY DEF StopInv, PendingListens, StopResolved, Awaited, Later

\* The end of a stop finds nobody pending; one that begins resolves all.
LEMMA StopStep == TypeOK /\ StopInv /\ [Next]_vars => StopInv'
<1> SUFFICES ASSUME TypeOK, StopInv, [Next]_vars PROVE StopInv'
  OBVIOUS
<1>0. batch \in Seq(BatchType) /\ stopping \in Nat /\ flights \subseteq [batch : DOMAIN batch, id : Id]
  BY SynchronizerAssumption DEF TypeOK
<1>1. ASSUME NEW n \in Counts, Start(n) PROVE StopInv'
  <2> DEFINE new == [n |-> n, alone |-> AllClosed, regular |-> TRUE, exec |-> TRUE,
                     fresh |-> TRUE, dispatched |-> 0, done |-> 0, promise |-> "pending"]
  <2>1. new.alone = AllClosed /\ new.exec = TRUE
    OBVIOUS
  <2>2. batch' = Append(batch, new) /\ stopping' = stopping
    BY <1>1 DEF Start
  <2> HIDE DEF new
  <2>3. /\ DOMAIN batch' = DOMAIN batch \cup {Len(batch) + 1} /\ Len(batch) + 1 \notin DOMAIN batch
        /\ \A b \in DOMAIN batch : batch'[b] = batch[b]
        /\ batch'[Len(batch) + 1] = new
    BY <1>0, <2>2
  <2>4. Awaited' => Awaited /\ stopping = 0
    BY <2>1, <2>3 DEF Awaited, AllClosed
  <2>5. PendingListens'
    BY <2>1, <2>3, <2>4 DEF StopInv, PendingListens
  <2>6. StopResolved'
    BY <1>0, <2>2, <2>4 DEF StopResolved
  <2>7. QED
    BY <2>5, <2>6 DEF StopInv
<1>2. ASSUME NEW b \in Batch, RegularTick(b) PROVE StopInv'
  <2>1. b \in DOMAIN batch /\ batch' = [batch EXCEPT ![b] = [batch[b] EXCEPT !.fresh = FALSE]]
        /\ stopping' = stopping
    BY <1>2 DEF RegularTick
  <2>2. ASSUME NEW c \in DOMAIN batch
        PROVE  /\ batch'[c].alone = batch[c].alone /\ batch'[c].exec = batch[c].exec
               /\ batch'[c].promise = batch[c].promise
    <3> DEFINE r == batch[c]
    <3> DEFINE old == batch[b]
               ticked == [old EXCEPT !.fresh = FALSE]
    <3>1. r \in BatchType /\ batch'[c] = IF c = b THEN [r EXCEPT !.fresh = FALSE] ELSE r
      <4>1. r \in BatchType
        BY <1>0
      <4>2. batch' = [batch EXCEPT ![b] = ticked]
        BY <2>1
      <4> HIDE DEF ticked
      <4>3. batch'[c] = IF c = b THEN ticked ELSE batch[c]
        BY <1>0, <2>1, <4>2
      <4> QED  BY <4>1, <4>3 DEF ticked
    <3> HIDE DEF r
    <3>2. /\ batch'[c].alone = r.alone /\ batch'[c].exec = r.exec
          /\ batch'[c].promise = r.promise
      BY <3>1 DEF BatchType
    <3> QED  BY <3>2 DEF r
  <2>3. Later(batch, batch')
    BY <2>1, <2>2 DEF Later
  <2>4. QED
    BY <2>1, <2>2, <2>3, LaterKeeps
<1>3. ASSUME NEW b \in Batch, ExecTick(b) PROVE StopInv'
  <2>1. b \in DOMAIN batch /\ stopping' = stopping
    BY <1>3 DEF ExecTick
  <2>2. CASE UNCHANGED batch
    BY <2>1, <2>2, LaterKeeps DEF Later
  <2>3. CASE batch' = Counted(b, FALSE)
    BY <1>0, <2>1, <2>3, CountedResolves, LaterKeeps
  <2>4. QED
    BY <1>3, <2>2, <2>3 DEF ExecTick
<1>4. CASE Settle
  <2>1. PICK f \in flights : batch' = Counted(f.batch, TRUE) /\ stopping' = stopping
    BY <1>4 DEF Settle
  <2>2. f.batch \in DOMAIN batch
    BY <1>0
  <2>3. /\ Later(batch, Counted(f.batch, TRUE))
        /\ \A c \in DOMAIN batch : Counted(f.batch, TRUE)[c].exec = batch[c].exec
    BY <1>0, <2>2, CountedResolves
  <2>4. QED
    BY <2>1, <2>3, LaterKeeps
<1>5. CASE Stop
  <2>1. batch' = LastJob(batch) /\ Later(batch, LastJob(batch))
        /\ \A b \in DOMAIN batch : batch[b].exec => LastJob(batch)[b].promise # "pending"
    BY <1>0, <1>5, LastJobResolves DEF Stop
  <2>2. Awaited' => \A b \in DOMAIN batch : batch'[b].promise # "pending"
    BY <2>1 DEF Later, Awaited, StopInv, PendingListens
  <2>3. QED
    BY <2>1, <2>2 DEF StopInv, PendingListens, StopResolved, Later
<1>6. CASE StopEnds
  <2>1. batch' = CloseCurrent(batch) /\ Later(batch, CloseCurrent(batch)) /\ stopping > 0
    BY <1>0, <1>6, CloseResolves DEF StopEnds
  <2>2. Awaited' => \A b \in DOMAIN batch' : batch'[b].promise # "pending"
    BY <2>1 DEF Later, Awaited, StopInv, StopResolved
  <2>3. QED
    BY <2>2 DEF StopInv, PendingListens, StopResolved
<1>7. CASE StopAndChange
  <2>1. batch' = CloseCurrent(LastJob(batch)) /\ LastJob(batch) \in Seq(BatchType)
    BY <1>0, <1>7, LastJobType DEF StopAndChange
  <2>2. /\ Later(batch, LastJob(batch)) /\ Later(LastJob(batch), batch')
        /\ \A b \in DOMAIN batch : batch[b].exec => LastJob(batch)[b].promise # "pending"
    BY <1>0, <2>1, LastJobResolves, CloseResolves
  <2>3. Awaited' => \A b \in DOMAIN batch' : batch'[b].promise # "pending"
    BY <2>2 DEF Later, Awaited, StopInv, PendingListens
  <2>4. QED
    BY <2>3 DEF StopInv, PendingListens, StopResolved
<1>8. CASE UNCHANGED <<batch, stopping>>
  BY <1>8 DEF StopInv, PendingListens, StopResolved, Awaited
<1>9. QED
  BY <1>1, <1>2, <1>3, <1>4, <1>5, <1>6, <1>7, <1>8 DEF Next, vars, BlockArrives

\* With starts that are made only when all before them is closed, a start that has not
\* resolved still listens to stop, wherever a job settles late and whichever stop ends.
THEOREM StopIsHeard == Spec => []PendingListens
<1>1. Init => StopInv
  BY DEF Init, StopInv, PendingListens, StopResolved
<1>2. StopInv => PendingListens
  BY DEF StopInv
<1>3. QED
  BY <1>1, <1>2, TypeInit, TypeStep, StopStep, PTL DEF Spec

=============================================================================
