---------------------------- MODULE CommandProofs ----------------------------
(***************************************************************************)
(* Proofs about Command and CommandLog, for any number of calls, versions  *)
(* given and any time: what holds of clients that call at once, and that   *)
(* orderly clients implement the event log.                                *)
(***************************************************************************)
EXTENDS CommandLog, FiniteSetTheorems, TLAPS

-----------------------------------------------------------------------------
(* The inductive invariants                                                *)

Below(i) == {c \in store : c.id < i}

\* A call has its answer when it is done; it was made after those before it.
CallInv ==
    /\ \A r \in Request : req[r].answer # "none" <=> req[r].at = "done"
    /\ \A r \in Request : req[r].before \subseteq AnsweredOk
    /\ \A r \in Request : req[r].at = "new" => req[r].op = "none" /\ ~req[r].blind
    /\ \A r \in Request : req[r].at \in {"evaluate", "read"} => req[r].op \in {"append", "get"}
    /\ \A r \in Request : req[r].at = "evaluate" => ~req[r].blind
    /\ \A r \in Request : req[r].at \in {"submitted", "committed"} => req[r].op # "get"

\* Each call has one transaction at most, which is in flight, in the store, or gone; once
\* it is answered with ok none is in flight.
TxInv ==
    /\ IsFiniteSet(store)
    /\ \A t \in flight : /\ t.id <= now
                         /\ t.op = req[t.by].op /\ t.op # "get"
                         /\ req[t.by].at = "submitted" \/ req[t.by].answer = "error"
    /\ \A t, u \in flight : t.by = u.by => t = u
    /\ \A c \in store : /\ c.id < now
                        /\ req[c.by].at \in {"committed", "done"}
    /\ \A t \in flight : \A c \in store : t.by # c.by

\* A deletion that is committed has left nothing that was acknowledged before its call.
GoneInv ==
    \A r \in Request : req[r].op = "delete" /\ (req[r].at = "committed" \/ req[r].answer = "ok") =>
        \A c \in store : c.by \notin req[r].before

\* A version that has been read counts commits of an earlier millisecond, which only
\* another of their millisecond can replace.
CountInv ==
    Ordinary =>
    /\ \A r \in Request : req[r].at = "read" => req[r].version <= Cardinality(store)
    /\ \A t \in flight : t.op = "append" => t.version <= Cardinality(Below(t.id))
    /\ \A c \in store : Appended(c) => c.version <= Cardinality(Below(c.id))

\* The versions of appends answered before a call are behind what the call has read.
BehindInv ==
    Ordinary =>
    /\ \A r \in Request : req[r].at = "read" =>
         \A d \in store : Appended(d) /\ d.by \in req[r].before => d.version < req[r].version
    /\ \A t \in flight : t.op = "append" =>
         \A d \in store : Appended(d) /\ d.by \in req[t.by].before => d.version < t.version
    /\ VersionOrder

\* What a get has read holds what was acknowledged before its call.
SeenInv ==
    Ordinary =>
    \A r \in Request :
        req[r].op = "get" /\ (req[r].at = "read" \/ req[r].answer = "ok") =>
            \A c \in store : c.by \in req[r].before => c.by \in req[r].seen

CInv == CommandTypeOK /\ CallInv /\ TxInv

\* Of orderly clients one is under way at a time, with one transaction at most, which
\* comes after all that is stored; versions are ranks.
UnderWay(r) == req[r].at \notin {"new", "rejected", "done"}

SerialInv ==
    orderly =>
    /\ \A r \in Request : req[r].op \in {"none", "append"} /\ ~req[r].blind
    /\ \A r, s \in Request : UnderWay(r) /\ UnderWay(s) => r = s
    /\ \A t, u \in flight : t = u
    /\ \A t \in flight : \A r \in Request : UnderWay(r) => r = t.by

RankInv ==
    orderly =>
    /\ \A r \in Request : req[r].at = "read" => req[r].version = Cardinality(store)
    /\ \A t \in flight : t.version = Cardinality(store) /\ \A c \in store : c.id < t.id
    /\ \A c \in store : c.version = Rank(c)
    /\ \A c, d \in store : c.version = d.version => c = d
    /\ \A n \in 0 .. Cardinality(store) - 1 : \E c \in store : c.version = n


-----------------------------------------------------------------------------
(* The kinds of steps.  A step changes the record of one call only, sends  *)
(* the transaction of one, or ends that of one.                            *)

\* The record of call r becomes p, and no transaction is sent or ended.
Moved(r, p) ==
    /\ p \in ReqType
    /\ req' = [req EXCEPT ![r] = p] /\ UNCHANGED <<store, flight, now, orderly>>
    /\ req[r].at \notin {"done", "rejected"} /\ p.at \notin {"new", "submitted", "committed"}
    /\ p.answer # "none" <=> p.at = "done"
    /\ p.before \subseteq AnsweredOk
    /\ p.at \in {"evaluate", "read"} => p.op \in {"append", "get"}
    /\ p.at = "evaluate" => ~p.blind
    /\ req[r].at = "submitted" => p.answer = "error"
    /\ req[r].at = "committed" => p.at = "done"
    /\ IF req[r].at = "new" THEN orderly => Quiet /\ p.op = "append" /\ ~p.blind
                            ELSE /\ p.op = req[r].op /\ p.before = req[r].before
                                 /\ req[r].blind => p.blind
                                 /\ orderly => p.blind = req[r].blind
    /\ p.at = "read" => /\ req[r].at = "evaluate"
                        /\ p.version = Cardinality(store) /\ p.seen = {c.by : c \in store}
    /\ p.answer = "ok" =>
         \/ req[r].at = "committed"
         \/ p.op = "get" /\ (p.blind \/ (req[r].at = "read" /\ p.seen = req[r].seen))

\* The transaction of call r is sent, with the version of the record q.
Sent(r, q, id) ==
    /\ q \in ReqType /\ id \in Time /\ id <= now
    /\ Submit(r, q, id)
    /\ q.answer = "none" /\ q.op \in Ops \ {"get"} /\ q.before \subseteq AnsweredOk
    /\ \/ req[r].at = "new" /\ q.op # "append" /\ ~orderly
       \/ /\ req[r].at = "evaluate" /\ q.blind /\ ~orderly
          /\ q.op = req[r].op /\ q.before = req[r].before
       \/ req[r].at = "read" /\ q = req[r] /\ q.op = "append" /\ id = now

\* A call moves its own record, or sends its transaction at once.
LEMMA CallKind ==
  ASSUME CInv, NEW r \in Request, Call(r)
  PROVE  \/ \E p \in ReqType : Moved(r, p)
         \/ \E q \in ReqType, id \in Time : Sent(r, q, id)
  <1>1. /\ req[r] \in ReqType /\ req[r].at = "new" /\ req[r].answer = "none"
        /\ now \in Time /\ req[r].op = "none" /\ ~req[r].blind
    BY DEF CInv, CommandTypeOK, CallInv, Call
  <1>2. PICK op \in Ops : /\ orderly => Quiet /\ op = "append"
                          /\ LET q == [req[r] EXCEPT !.op = op, !.before = AnsweredOk]
                             IN  CallValid(r, q) \/ CallInvalid(r, q)
    BY DEF Call
  <1> DEFINE q == [req[r] EXCEPT !.op = op, !.before = AnsweredOk]
  <1>3. /\ q \in ReqType /\ q.op = op /\ q.before = AnsweredOk /\ q.at = "new"
        /\ q.answer = "none" /\ q.blind = FALSE
    <2>1. AnsweredOk \in SUBSET Request
      BY DEF AnsweredOk
    <2> DEFINE p == req[r]
    <2>2. p \in ReqType /\ p.at = "new" /\ p.answer = "none" /\ ~p.blind
      BY <1>1
    <2> HIDE DEF p
    <2>3. LET w == [p EXCEPT !.op = op, !.before = AnsweredOk]
          IN  /\ w \in ReqType /\ w.op = op /\ w.before = AnsweredOk /\ w.at = "new"
              /\ w.answer = "none" /\ w.blind = FALSE
      BY <2>1, <2>2 DEF ReqType
    <2> QED  BY <2>3 DEF p
  <1>4. CallValid(r, q) \/ CallInvalid(r, q)
    BY <1>2
  <1> HIDE DEF q
  <1>5. ASSUME NEW at \in {"evaluate", "rejected"}, at = "evaluate" => op \in {"append", "get"},
               Goes(r, q, at), UNCHANGED <<store, flight, now, orderly>>
        PROVE  \E p \in ReqType : Moved(r, p)
    <2> DEFINE p == [q EXCEPT !.at = at]
    <2>1. /\ p \in ReqType /\ p.at = at /\ p.op = op /\ p.before = AnsweredOk
          /\ p.answer = "none" /\ p.blind = FALSE
      BY <1>3, <1>5 DEF ReqType
    <2>2. req' = [req EXCEPT ![r] = p]
      BY <1>5 DEF Goes
    <2> HIDE DEF p
    <2>3. Moved(r, p)
      BY <1>1, <1>2, <1>5, <2>1, <2>2 DEF Moved
    <2> QED  BY <2>1, <2>3
  <1>6. CASE op \in {"append", "get"} /\ CallValid(r, q)
    BY <1>3, <1>5, <1>6 DEF CallValid
  <1>7. CASE CallInvalid(r, q)
    BY <1>5, <1>7 DEF CallInvalid
  <1>8. CASE op \notin {"append", "get"} /\ CallValid(r, q)
    <2>1. ASSUME NEW w \in ReqType, NEW id \in Time, id <= now, Submit(r, w, id),
                 w.op = op, w.before = AnsweredOk, w.answer = "none"
          PROVE  Sent(r, w, id)
      BY <1>1, <1>2, <1>8, <2>1 DEF Sent
    <2>2. CASE op = "create"
      <3>1. PICK v \in Given : Submit(r, [q EXCEPT !.version = v], now)
        BY <1>3, <1>8, <2>2 DEF CallValid, CommitId
      <3> DEFINE w == [q EXCEPT !.version = v]
      <3>2. /\ w \in ReqType /\ w.op = op /\ w.before = AnsweredOk /\ w.answer = "none"
        BY <1>3, CommandAssumption DEF ReqType
      <3>3. Submit(r, w, now) /\ now <= now
        BY <1>1, <3>1 DEF Time
      <3> HIDE DEF w
      <3> QED  BY <1>1, <2>1, <3>2, <3>3
    <2>3. CASE op = "delete"
      BY <1>1, <1>3, <1>8, <2>1, <2>3 DEF CallValid, Time
    <2>4. CASE op = "deleteOne"
      <3>1. PICK c \in store : Submit(r, q, c.id)
        BY <1>3, <1>8, <2>4 DEF CallValid
      <3>2. c.id \in Time /\ c.id <= now
        BY <1>1 DEF CInv, CommandTypeOK, TxInv, Time
      <3> QED  BY <1>3, <2>1, <3>1, <3>2
    <2> QED  BY <1>8, <2>2, <2>3, <2>4 DEF Ops
  <1> QED  BY <1>4, <1>6, <1>7, <1>8

\* An evaluation moves the record of its call.
LEMMA EvaluateKind ==
  ASSUME CInv, NEW r \in Request, Evaluate(r)
  PROVE  \E p \in ReqType : Moved(r, p)
  <1> DEFINE w == req[r]
             seen == {c.by : c \in store}
             p == [w EXCEPT !.version = Cardinality(store), !.seen = seen, !.at = "read"]
  <1>1. /\ w \in ReqType /\ w.at = "evaluate" /\ w.answer = "none" /\ ~w.blind
        /\ w.op \in {"append", "get"} /\ w.before \subseteq AnsweredOk
    BY DEF CInv, CommandTypeOK, CallInv, Evaluate
  <1>2. seen \in SUBSET Request /\ Cardinality(store) \in Nat
    BY FS_CardinalityType DEF CInv, CommandTypeOK, TxInv
  <1>3. req' = [req EXCEPT ![r] = p] /\ UNCHANGED <<store, flight, now, orderly>>
    BY DEF Evaluate, Goes, Count
  <1> HIDE DEF w, seen
  <1>4. /\ p \in ReqType /\ p.at = "read" /\ p.answer = "none" /\ p.op = w.op
        /\ p.before = w.before /\ p.blind = w.blind
        /\ p.version = Cardinality(store) /\ p.seen = seen
    BY <1>1, <1>2 DEF ReqType
  <1> HIDE DEF p
  <1>5. Moved(r, p)
    BY <1>1, <1>3, <1>4 DEF Moved, w, seen
  <1> QED  BY <1>4, <1>5

\* A call that is answered and sends nothing.
LEMMA AnswerKind ==
  ASSUME CInv, NEW r \in Request, NEW q \in ReqType, NEW answer \in {"ok", "error"},
         Answer(r, q, answer), UNCHANGED <<store, flight, now, orderly>>,
         req[r].at \notin {"new", "rejected", "done"}, q.op = req[r].op, q.before = req[r].before,
         req[r].blind => q.blind, orderly => q.blind = req[r].blind,
         req[r].at = "submitted" => answer = "error",
         answer = "ok" => \/ req[r].at = "committed"
                          \/ q.op = "get" /\ (q.blind \/ (req[r].at = "read" /\ q.seen = req[r].seen))
  PROVE  \E p \in ReqType : Moved(r, p)
  <1> DEFINE p == [q EXCEPT !.at = "done", !.answer = answer]
  <1>1. /\ p \in ReqType /\ p.at = "done" /\ p.answer = answer /\ p.op = q.op
        /\ p.before = q.before /\ p.blind = q.blind /\ p.seen = q.seen
    BY DEF ReqType
  <1>2. req' = [req EXCEPT ![r] = p]
    BY DEF Answer
  <1>3. req[r].before \subseteq AnsweredOk
    BY DEF CInv, CallInv
  <1> HIDE DEF p
  <1>4. Moved(r, p)
    BY <1>1, <1>2, <1>3 DEF Moved
  <1> QED  BY <1>1, <1>4

\* Its return, or failure, answers a read and sends the transaction of an append.
LEMMA EvaluatedKind ==
  ASSUME CInv, NEW r \in Request, EvaluationReturns(r) \/ EvaluationFails(r)
  PROVE  \/ \E p \in ReqType : Moved(r, p)
         \/ \E q \in ReqType, id \in Time : Sent(r, q, id)
  <1> DEFINE w == req[r]
             b == [w EXCEPT !.version = 1, !.blind = TRUE]
  <1>1. /\ w \in ReqType /\ w.at \in {"evaluate", "read"} /\ w.answer = "none"
        /\ w.before \subseteq AnsweredOk /\ now \in Time /\ now <= now
    BY DEF CInv, CommandTypeOK, CallInv, EvaluationReturns, EvaluationFails, Time
  <1>2. /\ b \in ReqType /\ b.op = w.op /\ b.before = w.before /\ b.answer = "none"
        /\ b.blind = TRUE
    <2> HIDE DEF w
    <2> QED  BY <1>1 DEF ReqType
  <1>3. CASE EvaluationReturns(r)
    <2>1. w.at = "read" /\ Evaluated(r, w)
      BY <1>3 DEF EvaluationReturns
    <2>2. CASE w.op = "append" /\ Submit(r, w, CommitId)
      <3>1. Sent(r, w, now)
        BY <1>1, <2>1, <2>2 DEF Sent, CommitId, Ops
      <3> QED  BY <1>1, <3>1
    <2>3. CASE w.op = "get" /\ Answer(r, w, "ok") /\ UNCHANGED <<store, flight, now, orderly>>
      BY <1>1, <2>1, <2>3, AnswerKind
    <2> QED  BY <2>1, <2>2, <2>3 DEF Evaluated
  <1>4. CASE EvaluationFails(r)
    <2>1. w.at = "evaluate" /\ ~orderly /\ Evaluated(r, b)
      BY <1>4 DEF EvaluationFails
    <2> HIDE DEF b
    <2>2. CASE b.op = "append" /\ Submit(r, b, CommitId)
      <3>1. Sent(r, b, now)
        BY <1>1, <1>2, <2>1, <2>2 DEF Sent, CommitId, Ops
      <3> QED  BY <1>1, <1>2, <3>1
    <2>3. CASE b.op = "get" /\ Answer(r, b, "ok") /\ UNCHANGED <<store, flight, now, orderly>>
      BY <1>1, <1>2, <2>1, <2>3, AnswerKind
    <2> QED  BY <2>1, <2>2, <2>3 DEF Evaluated
  <1> QED  BY <1>3, <1>4

\* A timeout and the answer of a submission end the call.
LEMMA ReturnKind ==
  ASSUME CInv, NEW r \in Request, TimesOut(r) \/ SubmitReturns(r)
  PROVE  \E p \in ReqType : Moved(r, p)
  <1>1. req[r] \in ReqType
    BY DEF CInv, CommandTypeOK
  <1>2. CASE TimesOut(r)
    BY <1>1, <1>2, AnswerKind DEF TimesOut
  <1>3. CASE SubmitReturns(r)
    BY <1>1, <1>3, AnswerKind DEF SubmitReturns
  <1> QED  BY <1>2, <1>3

\* Every step is of one of these kinds.
LEMMA StepKinds ==
  ASSUME CInv, Next
  PROVE  \/ \E r \in Request, p \in ReqType : Moved(r, p)
         \/ \E r \in Request, q \in ReqType, id \in Time : Sent(r, q, id)
         \/ \E t \in flight : Commit(t)
         \/ \E t \in flight : Refused(t)
         \/ Tick
  BY CallKind, EvaluateKind, EvaluatedKind, ReturnKind DEF Next

-----------------------------------------------------------------------------
(* Types, and what a call and its transaction have to do with each other.  *)

\* A moved record keeps what holds of calls and transactions.
LEMMA MovedKeeps ==
  ASSUME CInv, NEW r \in Request, NEW p \in ReqType, Moved(r, p)
  PROVE  CInv'
  <1>1. /\ req \in [Request -> ReqType] /\ req' = [req EXCEPT ![r] = p]
        /\ UNCHANGED <<store, flight, now, orderly>>
    BY DEF CInv, CommandTypeOK, Moved
  <1>2. req' \in [Request -> ReqType] /\ req'[r] = p /\ \A s \in Request \ {r} : req'[s] = req[s]
    BY <1>1
  <1>3. CommandTypeOK'
    BY <1>1, <1>2 DEF CInv, CommandTypeOK, Moved
  <1>4. AnsweredOk \subseteq AnsweredOk'
    BY <1>1, <1>2 DEF AnsweredOk, Moved, CInv, CallInv
  <1>5. CallInv'
    BY <1>2, <1>4 DEF CInv, CallInv, Moved
  <1>6. TxInv'
    BY <1>1, <1>2 DEF CInv, CommandTypeOK, CallInv, TxInv, TxType, Moved
  <1> QED  BY <1>3, <1>5, <1>6 DEF CInv

\* So does a transaction sent: its call had none before.
LEMMA SentKeeps ==
  ASSUME CInv, NEW r \in Request, NEW q \in ReqType, NEW id \in Time, Sent(r, q, id)
  PROVE  CInv'
  <1> DEFINE p == [q EXCEPT !.at = "submitted"]
             t == [by |-> r, op |-> q.op, id |-> id, version |-> q.version]
  <1>1. /\ p \in ReqType /\ p.at = "submitted" /\ p.answer = "none" /\ p.op = q.op
        /\ p.before = q.before
    BY DEF Sent, ReqType
  <1>2. t \in TxType /\ t.by = r /\ t.id = id /\ t.op = q.op
    BY DEF Sent, TxType, ReqType
  <1>3. /\ req' = [req EXCEPT ![r] = p] /\ flight' = flight \cup {t}
        /\ UNCHANGED <<store, now, orderly>>
    BY DEF Sent, Submit, Goes
  <1> HIDE DEF p, t
  <1>4. /\ req' \in [Request -> ReqType] /\ req'[r] = p
        /\ \A s \in Request \ {r} : req'[s] = req[s]
    BY <1>1, <1>3 DEF CInv, CommandTypeOK
  <1>5. req[r].at \in {"new", "evaluate", "read"} /\ req[r].answer = "none"
    BY DEF Sent, CInv, CallInv
  <1>6. CommandTypeOK'
    <2>1. \A s \in Request : req'[s].at = "submitted" => \E u \in flight' : u.by = s
      BY <1>2, <1>3, <1>4 DEF CInv, CommandTypeOK
    <2> QED  BY <1>2, <1>3, <1>4, <2>1 DEF CInv, CommandTypeOK
  <1>7. AnsweredOk \subseteq AnsweredOk'
    BY <1>4, <1>5 DEF AnsweredOk
  <1>8. CallInv'
    BY <1>1, <1>4, <1>7 DEF CInv, CallInv, Sent
  <1>9. TxInv'
    <2>1. \A u \in flight : u.by # r
      BY <1>5 DEF CInv, TxInv
    <2>2. \A c \in store : c.by # r
      BY <1>5 DEF CInv, TxInv
    <2>3. \A u \in flight : u \in TxType
      BY DEF CInv, CommandTypeOK
    <2>4. \A u \in flight' : /\ u.id <= now'
                             /\ u.op = req'[u.by].op /\ u.op # "get"
                             /\ req'[u.by].at = "submitted" \/ req'[u.by].answer = "error"
      BY <1>1, <1>2, <1>3, <1>4, <2>1, <2>3 DEF CInv, TxInv, TxType, Sent
    <2>5. \A c \in store : c.by \in Request
      BY DEF CInv, CommandTypeOK
    <2>6. \A c \in store' : c.id < now' /\ req'[c.by].at \in {"committed", "done"}
      BY <1>3, <1>4, <2>2, <2>5 DEF CInv, TxInv
    <2>7. \A u \in flight' : \A c \in store' : u.by # c.by
      BY <1>2, <1>3, <2>2 DEF CInv, TxInv
    <2>8. \A u, v \in flight' : u.by = v.by => u = v
      BY <1>2, <1>3, <2>1 DEF CInv, TxInv
    <2> QED  BY <1>3, <2>4, <2>6, <2>7, <2>8 DEF CInv, TxInv
  <1> QED  BY <1>6, <1>8, <1>9 DEF CInv

\* The commit that transaction t stores.
New(t) == [by |-> t.by, id |-> t.id, version |-> t.version]

\* A transaction that is committed leaves the flight for the store, and wakes its caller.
LEMMA CommitEffect ==
  ASSUME CInv, NEW t \in flight, Commit(t)
  PROVE  /\ t \in TxType /\ t.id < now /\ flight' = flight \ {t} /\ UNCHANGED <<now, orderly>>
         /\ req' \in [Request -> ReqType]
         /\ \A s \in Request : /\ req'[s].op = req[s].op /\ req'[s].before = req[s].before
                               /\ req'[s].answer = req[s].answer /\ req'[s].seen = req[s].seen
                               /\ req'[s].blind = req[s].blind
                               /\ req'[s].version = req[s].version
                               /\ req'[s].at = IF s = t.by /\ req[s].at = "submitted"
                                              THEN "committed" ELSE req[s].at
         /\ store' \subseteq store \cup {New(t)}
         /\ t.op \in {"append", "create"} => store' = {c \in store : c.id # t.id} \cup {New(t)}
         /\ t.op \notin {"append", "create"} => store' \subseteq store
         /\ t.op = "delete" => store' = {}
  <1>1. /\ t \in TxType /\ t.id < now /\ flight' = flight \ {t} /\ UNCHANGED <<now, orderly>>
        /\ t.op \in Ops \ {"get"} /\ store' = Applied(t)
    BY DEF CInv, CommandTypeOK, Commit, TxInv, TxType
  <1> DEFINE w == req[t.by]
             p == [w EXCEPT !.at = IF w.at = "submitted" THEN "committed" ELSE w.at]
  <1>2. t.by \in Request /\ req \in [Request -> ReqType] /\ w \in ReqType
    BY <1>1 DEF CInv, CommandTypeOK, TxType
  <1>3. req' = [req EXCEPT ![t.by] = p]
    BY DEF Commit
  <1>4. /\ p \in ReqType /\ p.op = w.op /\ p.before = w.before /\ p.answer = w.answer
        /\ p.seen = w.seen /\ p.blind = w.blind /\ p.version = w.version
        /\ p.at = IF w.at = "submitted" THEN "committed" ELSE w.at
    <2> HIDE DEF w
    <2> QED  BY <1>2 DEF ReqType
  <1> HIDE DEF p
  <1>5. /\ req' \in [Request -> ReqType] /\ req'[t.by] = p
        /\ \A s \in Request \ {t.by} : req'[s] = req[s]
    BY <1>2, <1>3, <1>4
  <1>6. \A s \in Request : /\ req'[s].op = req[s].op /\ req'[s].before = req[s].before
                          /\ req'[s].answer = req[s].answer /\ req'[s].seen = req[s].seen
                          /\ req'[s].blind = req[s].blind
                          /\ req'[s].version = req[s].version
                          /\ req'[s].at = IF s = t.by /\ req[s].at = "submitted"
                                         THEN "committed" ELSE req[s].at
    BY <1>4, <1>5
  <1>7. CASE t.op \in {"append", "create"}
    BY <1>1, <1>5, <1>6, <1>7 DEF Applied, Put, New
  <1>8. CASE t.op = "delete"
    BY <1>1, <1>5, <1>6, <1>8 DEF Applied
  <1>9. CASE t.op = "deleteOne"
    BY <1>1, <1>5, <1>6, <1>9 DEF Applied
  <1> QED  BY <1>1, <1>7, <1>8, <1>9 DEF Ops

\* It replaces at most the commit of its id, and is the only one of its call.
LEMMA CommitKeeps ==
  ASSUME CInv, NEW t \in flight, Commit(t)
  PROVE  CInv'
  <1>1. /\ t \in TxType /\ t.id < now /\ flight' = flight \ {t} /\ UNCHANGED <<now, orderly>>
        /\ req' \in [Request -> ReqType]
        /\ \A s \in Request : /\ req'[s].op = req[s].op /\ req'[s].before = req[s].before
                              /\ req'[s].answer = req[s].answer /\ req'[s].blind = req[s].blind
                              /\ req'[s].at = IF s = t.by /\ req[s].at = "submitted"
                                             THEN "committed" ELSE req[s].at
        /\ store' \subseteq store \cup {New(t)}
    BY CommitEffect
  <1>2. /\ New(t) \in [by : Request, id : Time, version : Nat]
        /\ New(t).by = t.by /\ New(t).id = t.id
    BY <1>1 DEF New, TxType
  <1>3. \A c, d \in store' : c.id = d.id => c = d
    <2>1. t.op \in {"append", "create"} => store' = {c \in store : c.id # t.id} \cup {New(t)}
      BY CommitEffect
    <2>2. t.op \notin {"append", "create"} => store' \subseteq store
      BY CommitEffect
    <2>3. \A c, d \in store : c.id = d.id => c = d
      BY DEF CInv, CommandTypeOK
    <2> QED  BY <1>2, <2>1, <2>2, <2>3
  <1>4. CommandTypeOK'
    <2>1. store' \subseteq [by : Request, id : Time, version : Nat]
      BY <1>1, <1>2 DEF CInv, CommandTypeOK
    <2>2. ASSUME NEW s \in Request, req'[s].at = "submitted"
          PROVE  \E u \in flight' : u.by = s
      <3>1. req[s].at = "submitted" /\ s # t.by
        BY <1>1, <2>2
      <3>2. PICK u \in flight : u.by = s
        BY <3>1 DEF CInv, CommandTypeOK
      <3> QED  BY <1>1, <3>1, <3>2
    <2> QED  BY <1>1, <1>3, <2>1, <2>2 DEF CInv, CommandTypeOK
  <1>5. CallInv'
    <2>1. AnsweredOk' = AnsweredOk
      BY <1>1 DEF AnsweredOk
    <2> QED  BY <1>1, <2>1 DEF CInv, CallInv
  <1>6. TxInv'
    <2>1. IsFiniteSet(store')
      <3>1. IsFiniteSet(store \cup {New(t)})
        BY FS_AddElement DEF CInv, TxInv
      <3> QED  BY <1>1, <3>1, FS_Subset
    <2>2. \A u \in flight' : u \in flight /\ u \in TxType /\ u.by # t.by
      BY <1>1 DEF CInv, CommandTypeOK, TxInv
    <2>3. \A u \in flight' : /\ u.id <= now'
                             /\ u.op = req'[u.by].op /\ u.op # "get"
                             /\ req'[u.by].at = "submitted" \/ req'[u.by].answer = "error"
      BY <1>1, <2>2 DEF CInv, TxInv, TxType
    <2>4. \A c \in store : c.by \in Request /\ req'[c.by].at \in {"committed", "done"}
      BY <1>1 DEF CInv, CommandTypeOK, TxInv
    <2>5. t.by \in Request /\ req'[t.by].at \in {"committed", "done"}
      BY <1>1 DEF CInv, CallInv, TxInv, TxType
    <2>6. \A c \in store' : c.id < now' /\ req'[c.by].at \in {"committed", "done"}
      BY <1>1, <1>2, <2>4, <2>5 DEF CInv, TxInv
    <2>7. \A u \in flight' : \A c \in store' : u.by # c.by
      BY <1>1, <1>2, <2>2 DEF CInv, TxInv
    <2>8. \A u, v \in flight' : u.by = v.by => u = v
      BY <2>2 DEF CInv, TxInv
    <2> QED  BY <2>1, <2>3, <2>6, <2>7, <2>8 DEF TxInv
  <1> QED  BY <1>4, <1>5, <1>6 DEF CInv

\* A transaction that is refused answers its call with error, if that still waits.
LEMMA RefusedEffect ==
  ASSUME CInv, NEW t \in flight, Refused(t)
  PROVE  /\ t \in TxType /\ flight' = flight \ {t} /\ UNCHANGED <<store, now, orderly>>
         /\ req' \in [Request -> ReqType]
         /\ \A s \in Request : \/ req'[s] = req[s] /\ ~(s = t.by /\ req[s].at = "submitted")
                               \/ /\ s = t.by /\ req[s].at = "submitted"
                                  /\ req'[s].at = "done" /\ req'[s].answer = "error"
                                  /\ req'[s].op = req[s].op /\ req'[s].before = req[s].before
                                  /\ req'[s].blind = req[s].blind
  <1>1. /\ t \in TxType /\ flight' = flight \ {t} /\ UNCHANGED <<store, now, orderly>>
        /\ t.by \in Request /\ req \in [Request -> ReqType]
    BY DEF CInv, CommandTypeOK, Refused, TxType
  <1>2. CASE req[t.by].at # "submitted" /\ UNCHANGED req
    BY <1>1, <1>2
  <1>3. CASE req[t.by].at = "submitted" /\ Answer(t.by, req[t.by], "error")
    <2> DEFINE w == req[t.by]
               p == [w EXCEPT !.at = "done", !.answer = "error"]
    <2>1. w \in ReqType /\ req' = [req EXCEPT ![t.by] = p]
      BY <1>1, <1>3 DEF Answer
    <2>2. /\ p \in ReqType /\ p.at = "done" /\ p.answer = "error" /\ p.op = w.op
          /\ p.before = w.before /\ p.blind = w.blind
      <3> HIDE DEF w
      <3> QED  BY <2>1 DEF ReqType
    <2> HIDE DEF p
    <2>3. /\ req' \in [Request -> ReqType] /\ req'[t.by] = p
          /\ \A s \in Request \ {t.by} : req'[s] = req[s]
      BY <1>1, <2>1, <2>2
    <2> QED  BY <1>1, <1>3, <2>2, <2>3
  <1> QED  BY <1>2, <1>3 DEF Refused

\* A refused one is gone, and its caller is told.
LEMMA RefusedKeeps ==
  ASSUME CInv, NEW t \in flight, Refused(t)
  PROVE  CInv'
  <1>1. /\ t \in TxType /\ flight' = flight \ {t} /\ UNCHANGED <<store, now, orderly>>
        /\ req' \in [Request -> ReqType]
        /\ \A s \in Request : \/ req'[s] = req[s] /\ ~(s = t.by /\ req[s].at = "submitted")
                              \/ /\ s = t.by /\ req[s].at = "submitted"
                                 /\ req'[s].at = "done" /\ req'[s].answer = "error"
                                 /\ req'[s].op = req[s].op /\ req'[s].before = req[s].before
                                 /\ req'[s].blind = req[s].blind
    BY RefusedEffect
  <1>2. CommandTypeOK'
    BY <1>1 DEF CInv, CommandTypeOK
  <1>3. CallInv'
    <2>1. AnsweredOk' = AnsweredOk
      BY <1>1 DEF AnsweredOk, CInv, CallInv
    <2> QED  BY <1>1, <2>1 DEF CInv, CallInv
  <1>4. TxInv'
    BY <1>1 DEF CInv, CommandTypeOK, TxInv, TxType
  <1> QED  BY <1>2, <1>3, <1>4 DEF CInv

\* The clock only moves on.
LEMMA TickKeeps == CInv /\ Tick => CInv'
  BY CommandAssumption
  DEF Tick, CInv, CommandTypeOK, CallInv, TxInv, AnsweredOk, Time, TxType

\* Every step keeps the invariant.
LEMMA CommandStep == CInv /\ [Next]_vars => CInv'
  <1> SUFFICES ASSUME CInv, [Next]_vars PROVE CInv'
    OBVIOUS
  <1>1. CASE Next
    BY <1>1, StepKinds, MovedKeeps, SentKeeps, CommitKeeps, RefusedKeeps, TickKeeps
  <1>2. CASE UNCHANGED vars
    BY <1>2 DEF vars, CInv, CommandTypeOK, CallInv, TxInv, AnsweredOk
  <1> QED  BY <1>1, <1>2

\* At the start there are no calls, transactions and commits.
LEMMA CommandInit == Init => CInv
  <1> SUFFICES ASSUME Init PROVE CInv
    OBVIOUS
  <1>1. CommandTypeOK
    <2>1. req \in [Request -> ReqType] /\ \A r \in Request : req[r].at = "new"
      BY DEF Init, ReqType, Ops
    <2>2. now \in Time
      BY CommandAssumption DEF Init, Time
    <2> QED  BY <2>1, <2>2 DEF Init, CommandTypeOK
  <1>2. CallInv /\ TxInv
    BY FS_EmptySet DEF Init, CallInv, TxInv
  <1> QED  BY <1>1, <1>2 DEF CInv

\* In every reachable state a commit is the only one of its id and a call that waits for
\* its transaction has one in flight: nothing that ends a transaction forgets its caller.
THEOREM CommandTypes == Spec => []CommandTypeOK
  <1>1. CInv => CommandTypeOK
    BY DEF CInv
  <1> QED  BY <1>1, CommandInit, CommandStep, PTL DEF Spec

-----------------------------------------------------------------------------
(* Clients that call at once                                               *)

\* What sending changes, for the properties.
LEMMA SentEffect ==
  ASSUME CInv, NEW r \in Request, NEW q \in ReqType, NEW id \in Time, Sent(r, q, id)
  PROVE  LET t == [by |-> r, op |-> q.op, id |-> id, version |-> q.version]
         IN  /\ flight' = flight \cup {t} /\ UNCHANGED <<store, now, orderly>>
             /\ req' \in [Request -> ReqType]
             /\ \A s \in Request \ {r} : req'[s] = req[s]
             /\ req'[r].at = "submitted" /\ req'[r].answer = "none"
             /\ req'[r].op = q.op /\ req'[r].before = q.before /\ req'[r].blind = q.blind
  <1> DEFINE p == [q EXCEPT !.at = "submitted"]
  <1>1. /\ p \in ReqType /\ p.at = "submitted" /\ p.answer = "none" /\ p.op = q.op
        /\ p.before = q.before /\ p.blind = q.blind
    BY DEF Sent, ReqType
  <1>2. req' = [req EXCEPT ![r] = p] /\ UNCHANGED <<store, now, orderly>>
    BY DEF Sent, Submit, Goes
  <1>3. flight' = flight \cup {[by |-> r, op |-> q.op, id |-> id, version |-> q.version]}
    BY DEF Sent, Submit
  <1> HIDE DEF p
  <1> QED  BY <1>1, <1>2, <1>3 DEF CInv, CommandTypeOK

\* What was said of a call stays so: its operation and what was answered before it.
LEMMA History ==
  ASSUME CInv, [Next]_vars
  PROVE  /\ \A r \in Request : req[r].at # "new" =>
               req'[r].op = req[r].op /\ req'[r].before = req[r].before
         /\ \A r \in Request : req[r].blind => req'[r].blind
         /\ Ordinary' => Ordinary
  <1> DEFINE H ==
        /\ \A r \in Request : req[r].at # "new" =>
              req'[r].op = req[r].op /\ req'[r].before = req[r].before
        /\ \A r \in Request : req[r].blind => req'[r].blind
  <1>1. ASSUME NEW r \in Request, NEW p \in ReqType, Moved(r, p) PROVE H
    <2>1. req'[r] = p /\ \A s \in Request \ {r} : req'[s] = req[s]
      BY <1>1 DEF Moved, CInv, CommandTypeOK
    <2> QED  BY <1>1, <2>1 DEF Moved, CInv, CallInv
  <1>2. ASSUME NEW r \in Request, NEW q \in ReqType, NEW id \in Time, Sent(r, q, id) PROVE H
    <2>1. /\ req'[r].op = q.op /\ req'[r].before = q.before /\ req'[r].blind = q.blind
          /\ \A s \in Request \ {r} : req'[s] = req[s]
      BY <1>2, SentEffect
    <2> QED  BY <1>2, <2>1 DEF Sent, CInv, CallInv
  <1>3. ASSUME NEW t \in flight, Commit(t) PROVE H
    BY <1>3, CommitEffect
  <1>4. ASSUME NEW t \in flight, Refused(t) PROVE H
    BY <1>4, RefusedEffect
  <1>5. ASSUME Tick \/ UNCHANGED vars PROVE H
    <2>1. req' = req
      BY <1>5 DEF Tick, vars
    <2>2. \A r \in Request : req[r].at # "new" =>
             req'[r].op = req[r].op /\ req'[r].before = req[r].before
      BY <2>1
    <2>3. \A r \in Request : req[r].blind => req'[r].blind
      BY <2>1, Zenon
    <2> QED  BY <2>2, <2>3
  <1>6. H
    BY <1>1, <1>2, <1>3, <1>4, <1>5, StepKinds
  <1>7. Ordinary' => Ordinary
    BY <1>6 DEF Ordinary, CInv, CallInv
  <1> QED  BY <1>6, <1>7

\* The transaction of a call that is in flight is of none that was answered before another.
LEMMA InFlightNotBefore ==
  ASSUME CInv, NEW t \in flight, NEW r \in Request
  PROVE  t.by \notin req[r].before
  <1>1. t.by \in Request /\ (req[t.by].at = "submitted" \/ req[t.by].answer = "error")
    BY DEF CInv, CommandTypeOK, TxInv, TxType
  <1>2. req[t.by].answer # "ok"
    BY <1>1 DEF CInv, CallInv
  <1> QED  BY <1>2 DEF CInv, CallInv, AnsweredOk

\* Only a committed deletion settles what is gone; what is stored later was not answered before.
LEMMA GoneStep == CInv /\ GoneInv /\ [Next]_vars => GoneInv'
  <1> SUFFICES ASSUME CInv, GoneInv, [Next]_vars PROVE GoneInv'
    OBVIOUS
  <1>1. ASSUME NEW r \in Request, NEW p \in ReqType, Moved(r, p) PROVE GoneInv'
    <2>1. req'[r] = p /\ (\A s \in Request \ {r} : req'[s] = req[s]) /\ store' = store
      BY <1>1 DEF Moved, CInv, CommandTypeOK
    <2> QED  BY <1>1, <2>1 DEF Moved, GoneInv
  <1>2. ASSUME NEW r \in Request, NEW q \in ReqType, NEW id \in Time, Sent(r, q, id) PROVE GoneInv'
    BY <1>2, SentEffect DEF GoneInv
  <1>3. ASSUME NEW t \in flight, Commit(t) PROVE GoneInv'
    <2> SUFFICES ASSUME NEW s \in Request, req'[s].op = "delete",
                        req'[s].at = "committed" \/ req'[s].answer = "ok",
                        NEW c \in store'
                 PROVE  c.by \notin req'[s].before
      BY DEF GoneInv
    <2>1. CASE s = t.by /\ req[s].at = "submitted"
      <3>1. t.op = "delete"
        BY <1>3, <2>1, CommitEffect DEF CInv, TxInv
      <3> QED  BY <1>3, <3>1, CommitEffect
    <2>2. CASE ~(s = t.by /\ req[s].at = "submitted")
      <3>1. /\ req[s].op = "delete" /\ (req[s].at = "committed" \/ req[s].answer = "ok")
            /\ req'[s].before = req[s].before /\ c \in store \cup {New(t)}
        BY <1>3, <2>2, CommitEffect
      <3>2. CASE c \in store
        BY <3>1, <3>2 DEF GoneInv
      <3>3. CASE c = New(t)
        BY <3>1, <3>3, InFlightNotBefore DEF New
      <3> QED  BY <3>1, <3>2, <3>3
    <2> QED  BY <2>1, <2>2
  <1>4. ASSUME NEW t \in flight, Refused(t) PROVE GoneInv'
    BY <1>4, RefusedEffect DEF GoneInv
  <1>5. CASE Tick \/ UNCHANGED vars
    BY <1>5 DEF Tick, vars, GoneInv
  <1> QED  BY <1>1, <1>2, <1>3, <1>4, <1>5, StepKinds

\* A deletion of the entity that was answered with ok has left no commit acknowledged before
\* its call, whatever is refused, answered late or stored afterwards.
THEOREM DeletedIsGone == Spec => []DeletedGone
  <1>1. Init => GoneInv
    BY DEF Init, GoneInv
  <1>2. GoneInv => DeletedGone
    BY DEF GoneInv, DeletedGone
  <1> QED  BY <1>1, <1>2, CommandInit, CommandStep, GoneStep, PTL DEF Spec

\* Putting e in the place of at most one element of a set makes it no smaller.
LEMMA Replace ==
  ASSUME NEW S, IsFiniteSet(S), NEW K \in SUBSET S, NEW e, e \notin K,
         \A c, d \in S \ K : c = d
  PROVE  /\ IsFiniteSet(K \cup {e}) /\ Cardinality(S) \in Nat
         /\ Cardinality(K \cup {e}) \in Nat
         /\ Cardinality(S) <= Cardinality(K \cup {e})
  <1>1. IsFiniteSet(K) /\ Cardinality(K) \in Nat /\ Cardinality(S) \in Nat
    BY FS_Subset, FS_CardinalityType
  <1>2. IsFiniteSet(K \cup {e}) /\ Cardinality(K \cup {e}) = Cardinality(K) + 1
    BY <1>1, FS_AddElement
  <1>3. CASE S \ K = {}
    <2>1. S = K
      BY <1>3
    <2> QED  BY <1>1, <1>2, <2>1
  <1>4. CASE S \ K # {}
    <2>1. PICK x \in S \ K : TRUE
      BY <1>4
    <2>2. S = K \cup {x} /\ x \notin K
      BY <2>1
    <2>3. Cardinality(S) = Cardinality(K) + 1
      BY <1>1, <2>2, FS_AddElement
    <2> QED  BY <1>1, <1>2, <2>3
  <1> QED  BY <1>3, <1>4

\* The commits below an id are finitely many.
LEMMA BelowFinite ==
  ASSUME CInv, NEW i \in Int
  PROVE  /\ IsFiniteSet(Below(i)) /\ Cardinality(Below(i)) \in Nat
         /\ Cardinality(store) \in Nat /\ Cardinality(Below(i)) <= Cardinality(store)
  <1>1. IsFiniteSet(store) /\ Below(i) \subseteq store
    BY DEF CInv, TxInv, Below
  <1> QED  BY <1>1, FS_Subset, FS_CardinalityType

\* Storing a commit leaves no fewer commits, and no fewer before any id.
LEMMA PutGrows ==
  ASSUME CInv, NEW t \in flight, Commit(t), t.op \in {"append", "create"}
  PROVE  /\ Cardinality(store) <= Cardinality(store')
         /\ \A i \in Int : Cardinality(Below(i)) <= Cardinality(Below(i)')
         /\ Cardinality(store') \in Nat
         /\ \A i \in Int : Cardinality(Below(i)') \in Nat
  <1> DEFINE K == {c \in store : c.id # t.id}
  <1>1. /\ store' = K \cup {New(t)} /\ New(t).id = t.id /\ t.id \in Int
        /\ \A c \in store : c.id \in Int
    BY CommitEffect DEF New, TxType, CInv, CommandTypeOK, Time
  <1>2. \A c, d \in store : c.id = d.id => c = d
    BY DEF CInv, CommandTypeOK
  <1>3. IsFiniteSet(store)
    BY DEF CInv, TxInv
  <1>4. Cardinality(store) <= Cardinality(store') /\ Cardinality(store') \in Nat
    <2>1. K \in SUBSET store /\ New(t) \notin K /\ \A c, d \in store \ K : c = d
      BY <1>1, <1>2
    <2> HIDE DEF K
    <2> QED  BY <1>1, <1>3, <2>1, Replace
  <1>5. ASSUME NEW i \in Int
        PROVE  Cardinality(Below(i)) <= Cardinality(Below(i)') /\ Cardinality(Below(i)') \in Nat
    <2>1. IsFiniteSet(Below(i)) /\ Cardinality(Below(i)) \in Nat
      BY BelowFinite
    <2>2. CASE t.id < i
      <3> DEFINE M == {c \in Below(i) : c.id # t.id}
      <3>1. Below(i)' = M \cup {New(t)}
        BY <1>1, <2>2 DEF Below
      <3>2. M \in SUBSET Below(i) /\ New(t) \notin M /\ \A c, d \in Below(i) \ M : c = d
        BY <1>1, <1>2 DEF Below
      <3> HIDE DEF M
      <3> QED  BY <2>1, <3>1, <3>2, Replace
    <2>3. CASE ~(t.id < i)
      <3>1. Below(i)' = Below(i)
        BY <1>1, <2>3 DEF Below
      <3> QED  BY <2>1, <3>1
    <2> QED  BY <2>2, <2>3
  <1> QED  BY <1>4, <1>5

\* In an ordinary behaviour what is committed is put.
LEMMA OrdinaryTx ==
  ASSUME CInv, Ordinary, NEW t \in flight
  PROVE  t.op \in {"append", "create"} /\ t.op = req[t.by].op /\ t.by \in Request
  BY DEF CInv, CommandTypeOK, TxInv, TxType, Ordinary, Ops

\* Counts do not fall below a version that has been read.
LEMMA CountStep == CInv /\ CountInv /\ [Next]_vars => CountInv'
  <1> SUFFICES ASSUME CInv, CountInv, [Next]_vars, Ordinary' PROVE
        /\ \A r \in Request : req'[r].at = "read" => req'[r].version <= Cardinality(store')
        /\ \A t \in flight' : t.op = "append" => t.version <= Cardinality(Below(t.id)')
        /\ \A c \in store' : Appended(c)' => c.version <= Cardinality(Below(c.id)')
    BY DEF CountInv, Below
  <1>1. /\ Ordinary
        /\ \A r \in Request : req[r].at = "read" => req[r].version <= Cardinality(store)
        /\ \A t \in flight : t.op = "append" => t.version <= Cardinality(Below(t.id))
        /\ \A c \in store : Appended(c) => c.version <= Cardinality(Below(c.id))
    BY History DEF CountInv
  <1>2. \A c \in store : Appended(c)' => Appended(c)
    BY History DEF Appended, CInv, TxInv, CommandTypeOK
  <1>3. Cardinality(store) \in Nat
    BY FS_CardinalityType DEF CInv, TxInv
  <1>4. ASSUME NEW r \in Request, NEW p \in ReqType, Moved(r, p)
        PROVE  /\ store' = store /\ flight' = flight
               /\ \A s \in Request : req'[s].at = "read" => req'[s].version <= Cardinality(store)
    <2>1. /\ req'[r] = p /\ store' = store /\ flight' = flight
          /\ \A s \in Request \ {r} : req'[s] = req[s]
      BY <1>4 DEF Moved, CInv, CommandTypeOK
    <2>2. p.at = "read" => p.version <= Cardinality(store)
      BY <1>3, <1>4 DEF Moved
    <2> QED  BY <1>1, <2>1, <2>2
  <1>5. CASE \E r \in Request, p \in ReqType : Moved(r, p)
    BY <1>1, <1>2, <1>4, <1>5 DEF Below
  <1>6. ASSUME NEW r \in Request, NEW q \in ReqType, NEW id \in Time, Sent(r, q, id)
        PROVE  /\ store' = store
               /\ \A s \in Request : req'[s].at = "read" => req'[s].version <= Cardinality(store)
               /\ \A t \in flight' : t.op = "append" => t.version <= Cardinality(Below(t.id))
    <2> DEFINE u == [by |-> r, op |-> q.op, id |-> id, version |-> q.version]
    <2>1. /\ flight' = flight \cup {u} /\ store' = store
          /\ \A s \in Request \ {r} : req'[s] = req[s]
          /\ req'[r].at = "submitted" /\ req'[r].blind = q.blind
      BY <1>6, SentEffect
    <2>2. ASSUME u.op = "append" PROVE u.version <= Cardinality(Below(u.id))
      <3>1. req[r].at = "read" /\ q = req[r] /\ id = now
        BY <1>6, <2>1, <2>2 DEF Sent, Ordinary
      <3>2. Below(now) = store
        BY DEF CInv, TxInv, Below
      <3> QED  BY <1>1, <3>1, <3>2
    <2> HIDE DEF u
    <2> QED  BY <1>1, <2>1, <2>2
  <1>7. CASE \E r \in Request, q \in ReqType, id \in Time : Sent(r, q, id)
    BY <1>1, <1>2, <1>6, <1>7 DEF Below
  <1>8. ASSUME NEW t \in flight, Commit(t)
        PROVE  /\ \A r \in Request : req'[r].at = "read" => req'[r].version <= Cardinality(store')
               /\ \A u \in flight' : u.op = "append" => u.version <= Cardinality(Below(u.id)')
               /\ \A c \in store' : Appended(c)' => c.version <= Cardinality(Below(c.id)')
    <2>1. /\ t.op \in {"append", "create"} /\ t.op = req[t.by].op /\ t.by \in Request
          /\ t \in TxType
      BY <1>1, OrdinaryTx DEF CInv, CommandTypeOK
    <2>2. /\ Cardinality(store) <= Cardinality(store') /\ Cardinality(store') \in Nat
          /\ \A i \in Int : /\ Cardinality(Below(i)) <= Cardinality(Below(i)')
                            /\ Cardinality(Below(i)) \in Nat /\ Cardinality(Below(i)') \in Nat
      BY <1>8, <2>1, PutGrows, BelowFinite
    <2>3. /\ flight' \subseteq flight /\ store' \subseteq store \cup {New(t)}
          /\ New(t).by = t.by /\ New(t).id = t.id /\ New(t).version = t.version
          /\ \A s \in Request : /\ req'[s].op = req[s].op /\ req'[s].version = req[s].version
                                /\ req'[s].at = "read" => req[s].at = "read"
      BY <1>8, CommitEffect DEF New
    <2>4. /\ \A r \in Request : req[r].version \in Nat
          /\ \A u \in flight : u.version \in Nat /\ u.id \in Int
          /\ \A c \in store : c.version \in Nat /\ c.id \in Int
      BY DEF CInv, CommandTypeOK, ReqType, TxType, Time
    <2>5. \A r \in Request : req'[r].at = "read" => req'[r].version <= Cardinality(store')
      <3> TAKE r \in Request
      <3>1. ASSUME req'[r].at = "read" PROVE req[r].version <= Cardinality(store)
        BY <1>1, <2>3, <3>1
      <3>2. req'[r].version = req[r].version /\ req[r].version \in Nat
        BY <2>3, <2>4
      <3> QED  BY <1>3, <2>2, <3>1, <3>2
    <2>6. \A u \in flight : u.op = "append" => u.version <= Cardinality(Below(u.id)')
      BY <1>1, <2>2, <2>4
    <2>7. \A c \in store : Appended(c)' => c.version <= Cardinality(Below(c.id)')
      BY <1>1, <1>2, <2>2, <2>4
    <2>8. Appended(New(t))' => New(t).version <= Cardinality(Below(New(t).id)')
      <3>1. New(t)' = New(t) /\ (Appended(New(t))' => req'[t.by].op = "append")
        BY <2>3 DEF Appended, New
      <3> QED  BY <2>1, <2>3, <2>6, <3>1
    <2> QED  BY <2>3, <2>5, <2>6, <2>7, <2>8
  <1>9. CASE (\E t \in flight : Refused(t)) \/ Tick \/ UNCHANGED vars
    <2>1. /\ store' = store /\ flight' \subseteq flight
          /\ \A r \in Request : req'[r].at = "read" => req'[r] = req[r]
      BY <1>9, RefusedEffect DEF Tick, vars
    <2> QED  BY <1>1, <1>2, <2>1 DEF Below
  <1> QED  BY <1>5, <1>7, <1>8, <1>9, StepKinds

\* A commit is not below itself, so the bound is strict.
LEMMA CountBounds == CInv /\ CountInv => VersionNotAhead
  <1> SUFFICES ASSUME CInv, CountInv, Ordinary, NEW c \in store, Appended(c)
               PROVE  c.version < Cardinality(store)
    BY DEF VersionNotAhead
  <1>1. c.id \in Int /\ c.version \in Nat /\ c.version <= Cardinality(Below(c.id))
    BY DEF CInv, CommandTypeOK, CountInv, Time
  <1>2. IsFiniteSet(store) /\ Below(c.id) \subseteq store \ {c}
    BY <1>1 DEF CInv, TxInv, Below
  <1>3. /\ IsFiniteSet(store \ {c})
        /\ Cardinality(store \ {c}) = Cardinality(store) - 1
    BY <1>2, FS_RemoveElement
  <1>4. /\ Cardinality(Below(c.id)) <= Cardinality(store \ {c})
        /\ Cardinality(store) \in Nat /\ Cardinality(Below(c.id)) \in Nat
    BY <1>1, <1>2, <1>3, FS_Subset, BelowFinite
  <1> QED  BY <1>1, <1>3, <1>4

\* At the start no version has been read.
LEMMA CountInit == Init => CountInv
  BY DEF Init, CountInv

\* Whatever times out and is committed later, as many other commits are stored as the version
\* of an appended one says, or more.
THEOREM NotAhead == Spec => []VersionNotAhead
  BY CommandInit, CommandStep, CountInit, CountStep, CountBounds, PTL DEF Spec

\* What an ordinary step does to what the invariants about versions speak of: it reads, sends
\* what was read, stores what was in flight, or does nothing of these.
LEMMA OrdinaryStep ==
  ASSUME CInv, [Next]_vars, Ordinary'
  PROVE  \/ \E r \in Request, p \in ReqType :
               /\ Moved(r, p) /\ store' = store /\ flight' = flight
               /\ req'[r] = p /\ \A s \in Request \ {r} : req'[s] = req[s]
         \/ \E r \in Request, q \in ReqType, id \in Time :
               /\ Sent(r, q, id) /\ store' = store
               /\ flight' = flight \cup {[by |-> r, op |-> q.op, id |-> id, version |-> q.version]}
               /\ q.op = "append" => req[r].at = "read" /\ q = req[r]
               /\ req'[r].at = "submitted" /\ req'[r].answer = "none"
               /\ req'[r].before = q.before
               /\ \A s \in Request \ {r} : req'[s] = req[s]
         \/ \E t \in flight :
               /\ Commit(t) /\ flight' = flight \ {t} /\ store' \subseteq store \cup {New(t)}
               /\ t.op = req[t.by].op /\ t.by \in Request
               /\ \A s \in Request : /\ req'[s].op = req[s].op /\ req'[s].before = req[s].before
                                     /\ req'[s].answer = req[s].answer
                                     /\ req'[s].seen = req[s].seen
                                     /\ req'[s].version = req[s].version
                                     /\ req'[s].at = req[s].at \/ req'[s].at = "committed"
         \/ /\ store' = store /\ flight' \subseteq flight
            /\ \A s \in Request : /\ req'[s].at = "read" => req'[s] = req[s]
                                  /\ req'[s].answer = "ok" => req'[s] = req[s]
                                  /\ req'[s].before = req[s].before
  <1>1. ASSUME NEW r \in Request, NEW p \in ReqType, Moved(r, p)
        PROVE  /\ store' = store /\ flight' = flight
               /\ req'[r] = p /\ \A s \in Request \ {r} : req'[s] = req[s]
    BY <1>1 DEF Moved, CInv, CommandTypeOK
  <1>2. ASSUME NEW r \in Request, NEW q \in ReqType, NEW id \in Time, Sent(r, q, id)
        PROVE  /\ store' = store
               /\ flight' = flight \cup {[by |-> r, op |-> q.op, id |-> id, version |-> q.version]}
               /\ q.op = "append" => req[r].at = "read" /\ q = req[r]
               /\ req'[r].at = "submitted" /\ req'[r].answer = "none"
               /\ req'[r].before = q.before
               /\ \A s \in Request \ {r} : req'[s] = req[s]
    <2>1. req'[r].blind = q.blind
      BY <1>2, SentEffect
    <2>2. q.op = "append" => req[r].at = "read" /\ q = req[r]
      BY <1>2, <2>1 DEF Sent, Ordinary
    <2> QED  BY <1>2, <2>2, SentEffect
  <1>3. ASSUME NEW t \in flight, Commit(t)
        PROVE  /\ flight' = flight \ {t} /\ store' \subseteq store \cup {New(t)}
               /\ t.op = req[t.by].op /\ t.by \in Request
               /\ \A s \in Request : /\ req'[s].op = req[s].op /\ req'[s].before = req[s].before
                                     /\ req'[s].answer = req[s].answer
                                     /\ req'[s].seen = req[s].seen
                                     /\ req'[s].version = req[s].version
                                     /\ req'[s].at = req[s].at \/ req'[s].at = "committed"
    <2>1. t.op = req[t.by].op /\ t.by \in Request
      BY DEF CInv, CommandTypeOK, TxInv, TxType
    <2> QED  BY <1>3, <2>1, CommitEffect
  <1>4. ASSUME \/ \E t \in flight : Refused(t)
               \/ Tick
               \/ UNCHANGED vars
        PROVE  /\ store' = store /\ flight' \subseteq flight
               /\ \A s \in Request : /\ req'[s].at = "read" => req'[s] = req[s]
                                     /\ req'[s].answer = "ok" => req'[s] = req[s]
                                     /\ req'[s].before = req[s].before
    BY <1>4, RefusedEffect DEF Tick, vars
  <1> QED  BY <1>1, <1>2, <1>3, <1>4, StepKinds

\* A version read after an answer counts the commit answered.
LEMMA BehindStep == CInv /\ CountInv /\ BehindInv /\ VersionNotAhead /\ [Next]_vars => BehindInv'
  <1> SUFFICES ASSUME CInv, BehindInv, VersionNotAhead, [Next]_vars, Ordinary'
               PROVE  /\ \A r \in Request : req'[r].at = "read" =>
                           \A d \in store' : Appended(d)' /\ d.by \in req'[r].before =>
                                                d.version < req'[r].version
                      /\ \A t \in flight' : t.op = "append" =>
                           \A d \in store' : Appended(d)' /\ d.by \in req'[t.by].before =>
                                                d.version < t.version
                      /\ \A c, d \in store' :
                           Appended(c)' /\ Appended(d)' /\ d.by \in req'[c.by].before =>
                                                c.version > d.version
    BY DEF BehindInv, VersionOrder
  <1>1. /\ \A r \in Request : req[r].at = "read" =>
             \A d \in store : Appended(d) /\ d.by \in req[r].before => d.version < req[r].version
        /\ \A t \in flight : t.op = "append" =>
             \A d \in store : Appended(d) /\ d.by \in req[t.by].before => d.version < t.version
        /\ \A c, d \in store :
             Appended(c) /\ Appended(d) /\ d.by \in req[c.by].before => c.version > d.version
        /\ \A d \in store : Appended(d) => d.version < Cardinality(store)
    BY History DEF BehindInv, VersionOrder, VersionNotAhead
  <1>2. /\ \A c \in store : /\ c.by \in Request /\ req'[c.by].before = req[c.by].before
                            /\ Appended(c)' => Appended(c)
        /\ \A t \in flight : t.by \in Request /\ req'[t.by].before = req[t.by].before
    BY History DEF Appended, CInv, CallInv, TxInv, CommandTypeOK, TxType
  <1>3. CASE \E r \in Request, p \in ReqType :
               /\ Moved(r, p) /\ store' = store /\ flight' = flight
               /\ req'[r] = p /\ \A s \in Request \ {r} : req'[s] = req[s]
    <2>1. PICK r \in Request, p \in ReqType :
               /\ Moved(r, p) /\ store' = store /\ flight' = flight
               /\ req'[r] = p /\ \A s \in Request \ {r} : req'[s] = req[s]
      BY <1>3
    <2>2. p.at = "read" => p.version = Cardinality(store)
      BY <2>1 DEF Moved
    <2>3. \A s \in Request : req'[s].at = "read" =>
             \A d \in store : Appended(d) /\ d.by \in req'[s].before => d.version < req'[s].version
      BY <1>1, <2>1, <2>2
    <2> QED  BY <1>1, <1>2, <2>1, <2>3
  <1>4. CASE \E r \in Request, q \in ReqType, id \in Time :
               /\ Sent(r, q, id) /\ store' = store
               /\ flight' = flight \cup {[by |-> r, op |-> q.op, id |-> id, version |-> q.version]}
               /\ q.op = "append" => req[r].at = "read" /\ q = req[r]
               /\ req'[r].at = "submitted" /\ req'[r].answer = "none"
               /\ req'[r].before = q.before
               /\ \A s \in Request \ {r} : req'[s] = req[s]
    <2>1. PICK r \in Request, q \in ReqType, id \in Time :
               /\ Sent(r, q, id) /\ store' = store
               /\ flight' = flight \cup {[by |-> r, op |-> q.op, id |-> id, version |-> q.version]}
               /\ q.op = "append" => req[r].at = "read" /\ q = req[r]
               /\ req'[r].at = "submitted" /\ req'[r].answer = "none"
               /\ req'[r].before = q.before
               /\ \A s \in Request \ {r} : req'[s] = req[s]
      BY <1>4
    <2> DEFINE u == [by |-> r, op |-> q.op, id |-> id, version |-> q.version]
    <2>2. u.op = "append" =>
             \A d \in store : Appended(d) /\ d.by \in req'[u.by].before => d.version < u.version
      BY <1>1, <2>1
    <2>3. flight' = flight \cup {u}
      BY <2>1
    <2> HIDE DEF u
    <2>4. \A t \in flight' : t.op = "append" =>
             \A d \in store : Appended(d) /\ d.by \in req'[t.by].before => d.version < t.version
      BY <1>1, <1>2, <2>2, <2>3
    <2>5. \A s \in Request : req'[s].at = "read" => req'[s] = req[s]
      BY <2>1
    <2> QED  BY <1>1, <1>2, <2>1, <2>4, <2>5
  <1>5. CASE \E t \in flight :
               /\ Commit(t) /\ flight' = flight \ {t} /\ store' \subseteq store \cup {New(t)}
               /\ t.op = req[t.by].op /\ t.by \in Request
               /\ \A s \in Request : /\ req'[s].op = req[s].op /\ req'[s].before = req[s].before
                                     /\ req'[s].answer = req[s].answer
                                     /\ req'[s].seen = req[s].seen
                                     /\ req'[s].version = req[s].version
                                     /\ req'[s].at = req[s].at \/ req'[s].at = "committed"
    <2>1. PICK t \in flight :
               /\ Commit(t) /\ flight' = flight \ {t} /\ store' \subseteq store \cup {New(t)}
               /\ t.op = req[t.by].op /\ t.by \in Request
               /\ \A s \in Request : /\ req'[s].op = req[s].op /\ req'[s].before = req[s].before
                                     /\ req'[s].version = req[s].version
                                     /\ req'[s].at = req[s].at \/ req'[s].at = "committed"
      BY <1>5
    <2>2. /\ New(t).by = t.by /\ New(t).version = t.version
          /\ Appended(New(t))' => t.op = "append"
      BY <2>1 DEF New, Appended
    <2>3. \A s \in Request : t.by \notin req'[s].before
      BY <2>1, InFlightNotBefore
    <2>4. \A d \in store', s \in Request :
             Appended(d)' /\ d.by \in req'[s].before => /\ d \in store /\ Appended(d)
                                                        /\ d.by \in req[s].before
      BY <1>2, <2>1, <2>2, <2>3
    <2>5. \A r \in Request : req'[r].at = "read" =>
             \A d \in store' : Appended(d)' /\ d.by \in req'[r].before => d.version < req'[r].version
      BY <1>1, <2>1, <2>4
    <2>6. \A v \in flight : v.op = "append" =>
             \A d \in store' : Appended(d)' /\ d.by \in req'[v.by].before => d.version < v.version
      BY <1>1, <1>2, <2>4
    <2>7. \A d \in store' : Appended(New(t))' /\ Appended(d)' /\ d.by \in req'[t.by].before =>
             t.version > d.version
      <3> TAKE d \in store'
      <3>1. HAVE Appended(New(t))' /\ Appended(d)' /\ d.by \in req'[t.by].before
      <3>2. d.version < t.version
        BY <2>2, <2>6, <3>1
      <3>3. d.version \in Nat /\ t.version \in Nat
        BY <1>2, <2>4, <3>1 DEF CInv, CommandTypeOK, TxType
      <3> QED  BY <3>2, <3>3
    <2>8. \A c \in store, d \in store' :
             Appended(c)' /\ Appended(d)' /\ d.by \in req'[c.by].before => c.version > d.version
      BY <1>1, <1>2, <2>4
    <2>9. \A c, d \in store' :
             Appended(c)' /\ Appended(d)' /\ d.by \in req'[c.by].before => c.version > d.version
      BY <2>1, <2>2, <2>7, <2>8
    <2> QED  BY <2>1, <2>5, <2>6, <2>9
  <1>6. CASE /\ store' = store /\ flight' \subseteq flight
             /\ \A s \in Request : /\ req'[s].at = "read" => req'[s] = req[s]
                                   /\ req'[s].answer = "ok" => req'[s] = req[s]
                                   /\ req'[s].before = req[s].before
    BY <1>1, <1>2, <1>6
  <1> QED  BY <1>3, <1>4, <1>5, <1>6, OrdinaryStep

\* A get reads all that is stored, so all that was answered before its call.
LEMMA SeenStep == CInv /\ SeenInv /\ [Next]_vars => SeenInv'
  <1> SUFFICES ASSUME CInv, SeenInv, [Next]_vars, Ordinary',
                      NEW s \in Request, req'[s].op = "get",
                      req'[s].at = "read" \/ req'[s].answer = "ok",
                      NEW c \in store', c.by \in req'[s].before
               PROVE  c.by \in req'[s].seen
    BY DEF SeenInv
  <1>1. \A x \in Request : req[x].op = "get" /\ (req[x].at = "read" \/ req[x].answer = "ok") =>
            \A d \in store : d.by \in req[x].before => d.by \in req[x].seen
    BY History DEF SeenInv
  <1>2. CASE \E r \in Request, p \in ReqType :
               /\ Moved(r, p) /\ store' = store /\ flight' = flight
               /\ req'[r] = p /\ \A x \in Request \ {r} : req'[x] = req[x]
    <2>1. PICK r \in Request, p \in ReqType :
               /\ Moved(r, p) /\ store' = store
               /\ req'[r] = p /\ \A x \in Request \ {r} : req'[x] = req[x]
      BY <1>2
    <2>2. CASE s # r
      BY <1>1, <2>1, <2>2
    <2>3. CASE s = r /\ p.at = "read"
      BY <2>1, <2>3 DEF Moved
    <2>4. CASE s = r /\ p.answer = "ok"
      <3>1. ~p.blind
        BY <2>1 DEF Ordinary
      <3>2. req[r].at # "committed"
        BY <2>1, <2>4 DEF Moved, CInv, CallInv
      <3>3. /\ req[r].at = "read" /\ p.seen = req[r].seen /\ p.before = req[r].before
            /\ req[r].op = "get"
        BY <2>1, <2>4, <3>1, <3>2 DEF Moved
      <3> QED  BY <1>1, <2>1, <2>4, <3>3
    <2> QED  BY <2>1, <2>2, <2>3, <2>4
  <1>3. CASE \E r \in Request, q \in ReqType, id \in Time :
               /\ Sent(r, q, id) /\ store' = store
               /\ flight' = flight \cup {[by |-> r, op |-> q.op, id |-> id, version |-> q.version]}
               /\ q.op = "append" => req[r].at = "read" /\ q = req[r]
               /\ req'[r].at = "submitted" /\ req'[r].answer = "none"
               /\ req'[r].before = q.before
               /\ \A x \in Request \ {r} : req'[x] = req[x]
    BY <1>1, <1>3
  <1>4. CASE \E t \in flight :
               /\ Commit(t) /\ flight' = flight \ {t} /\ store' \subseteq store \cup {New(t)}
               /\ t.op = req[t.by].op /\ t.by \in Request
               /\ \A x \in Request : /\ req'[x].op = req[x].op /\ req'[x].before = req[x].before
                                     /\ req'[x].answer = req[x].answer
                                     /\ req'[x].seen = req[x].seen
                                     /\ req'[x].version = req[x].version
                                     /\ req'[x].at = req[x].at \/ req'[x].at = "committed"
    <2>1. PICK t \in flight :
               /\ store' \subseteq store \cup {New(t)}
               /\ \A x \in Request : /\ req'[x].op = req[x].op /\ req'[x].before = req[x].before
                                     /\ req'[x].answer = req[x].answer
                                     /\ req'[x].seen = req[x].seen
                                     /\ req'[x].at = req[x].at \/ req'[x].at = "committed"
      BY <1>4
    <2>2. c # New(t)
      BY <2>1, InFlightNotBefore DEF New
    <2> QED  BY <1>1, <2>1, <2>2
  <1>5. CASE /\ store' = store /\ flight' \subseteq flight
             /\ \A x \in Request : /\ req'[x].at = "read" => req'[x] = req[x]
                                   /\ req'[x].answer = "ok" => req'[x] = req[x]
                                   /\ req'[x].before = req[x].before
    BY <1>1, <1>5
  <1> QED  BY <1>2, <1>3, <1>4, <1>5, OrdinaryStep

\* An append made after another was answered with ok has the greater version, though versions
\* are read long before they are stored and a timer may have ended the call meanwhile.
THEOREM VersionsInOrder == Spec => []VersionOrder
  <1>1. Init => BehindInv
    BY DEF Init, BehindInv, VersionOrder
  <1>2. BehindInv => VersionOrder
    BY DEF BehindInv, VersionOrder
  <1> QED
    BY <1>1, <1>2, CommandInit, CommandStep, CountInit, CountStep, CountBounds, BehindStep, PTL
    DEF Spec

\* A read answered with ok has seen what was acknowledged before it was made and is stored.
THEOREM ReadsSeeOwn == Spec => []SeesOwn
  <1>1. Init => SeenInv
    BY DEF Init, SeenInv
  <1>2. SeenInv => SeesOwn
    BY DEF SeenInv, SeesOwn
  <1> QED  BY <1>1, <1>2, CommandInit, CommandStep, SeenStep, PTL DEF Spec

-----------------------------------------------------------------------------
(* Orderly clients implement the event log                                 *)

\* An orderly client waits for those under way.
LEMMA SerialStep == CInv /\ SerialInv /\ [Next]_vars => SerialInv'
  <1> SUFFICES ASSUME CInv, SerialInv, [Next]_vars, orderly'
               PROVE  /\ \A r \in Request : req'[r].op \in {"none", "append"} /\ ~req'[r].blind
                      /\ \A r, s \in Request : UnderWay(r)' /\ UnderWay(s)' => r = s
                      /\ \A t, u \in flight' : t = u
                      /\ \A t \in flight' : \A r \in Request : UnderWay(r)' => r = t.by
    BY DEF SerialInv
  <1>1. orderly
    BY StepKinds, CommitEffect, RefusedEffect DEF Moved, Sent, Submit, Tick, vars
  <1>2. /\ \A r \in Request : req[r].op \in {"none", "append"} /\ ~req[r].blind
        /\ \A r, s \in Request : UnderWay(r) /\ UnderWay(s) => r = s
        /\ \A t, u \in flight : t = u
        /\ \A t \in flight : \A r \in Request : UnderWay(r) => r = t.by
    BY <1>1 DEF SerialInv
  <1>3. CASE \E r \in Request, p \in ReqType : Moved(r, p)
    <2>1. PICK r \in Request, p \in ReqType : Moved(r, p)
      BY <1>3
    <2>2. /\ req'[r] = p /\ flight' = flight
          /\ \A s \in Request \ {r} : req'[s] = req[s] /\ (UnderWay(s)' => UnderWay(s))
      BY <2>1 DEF Moved, CInv, CommandTypeOK, UnderWay
    <2>3. \/ UnderWay(r)
          \/ req[r].at = "new" /\ flight = {} /\ \A s \in Request : ~UnderWay(s)
      BY <1>1, <2>1 DEF Moved, Quiet, UnderWay
    <2>4. p.op \in {"none", "append"} /\ ~p.blind
      <3>1. CASE req[r].at = "new"
        BY <1>1, <2>1, <3>1 DEF Moved
      <3>2. CASE req[r].at # "new"
        <4>1. p.op = req[r].op /\ p.blind = req[r].blind
          BY <1>1, <2>1, <3>2 DEF Moved
        <4>2. ~p.blind
          BY <1>2, <4>1, Zenon
        <4> QED  BY <1>2, <4>1, <4>2
      <3> QED  BY <3>1, <3>2
    <2>5. \A s \in Request : req'[s].op \in {"none", "append"} /\ ~req'[s].blind
      BY <1>2, <2>2, <2>4
    <2> QED  BY <1>2, <2>2, <2>3, <2>5
  <1>4. CASE \E r \in Request, q \in ReqType, id \in Time : Sent(r, q, id)
    <2>1. PICK r \in Request, q \in ReqType, id \in Time : Sent(r, q, id)
      BY <1>4
    <2>2. req[r].at = "read" /\ q = req[r]
      BY <1>1, <2>1 DEF Sent
    <2>3. UnderWay(r) /\ flight = {}
      BY <1>2, <2>2 DEF UnderWay, CInv, CallInv, TxInv
    <2>4. /\ flight' = flight \cup {[by |-> r, op |-> q.op, id |-> id, version |-> q.version]}
          /\ \A s \in Request \ {r} : req'[s] = req[s] /\ (UnderWay(s)' => UnderWay(s))
          /\ req'[r].op = q.op /\ req'[r].blind = q.blind
      BY <2>1, SentEffect DEF UnderWay
    <2>5. ~req'[r].blind
      BY <1>2, <2>2, <2>4, Zenon
    <2>6. \A s \in Request : req'[s].op \in {"none", "append"} /\ ~req'[s].blind
      BY <1>2, <2>2, <2>4, <2>5
    <2>7. \A t \in flight' : t = [by |-> r, op |-> q.op, id |-> id, version |-> q.version]
      BY <2>3, <2>4
    <2> QED  BY <1>2, <2>3, <2>4, <2>6, <2>7
  <1>5. CASE \E t \in flight : Commit(t)
    <2>1. /\ flight' \subseteq flight
          /\ \A s \in Request : /\ req'[s].op = req[s].op /\ (UnderWay(s)' => UnderWay(s))
                                /\ ~req'[s].blind
      BY <1>2, <1>5, CommitEffect DEF UnderWay
    <2> QED  BY <1>2, <2>1
  <1>6. CASE \E t \in flight : Refused(t)
    <2>1. /\ flight' \subseteq flight
          /\ \A s \in Request : /\ req'[s].op = req[s].op /\ (UnderWay(s)' => UnderWay(s))
                                /\ ~req'[s].blind
      BY <1>2, <1>6, RefusedEffect DEF UnderWay
    <2> QED  BY <1>2, <2>1
  <1>7. CASE Tick \/ UNCHANGED vars
    <2>1. flight' = flight /\ req' = req
      BY <1>7 DEF Tick, vars
    <2> QED  BY <1>2, <2>1 DEF UnderWay
  <1> QED  BY <1>3, <1>4, <1>5, <1>6, <1>7, StepKinds

\* What orderly clients commit comes after all that is stored.
LEMMA SerialCommit ==
  ASSUME CInv, SerialInv, RankInv, orderly, NEW t \in flight, Commit(t)
  PROVE  /\ store' = store \cup {New(t)} /\ New(t) \notin store /\ flight' = {}
         /\ IsFiniteSet(store) /\ Cardinality(store) \in Nat
         /\ IsFiniteSet(store') /\ Cardinality(store') = Cardinality(store) + 1
         /\ t \in TxType /\ t.version = Cardinality(store) /\ \A c \in store : c.id < t.id
         /\ \A s \in Request : req'[s].at # "read"
  <1>1. /\ t \in TxType /\ t.op = "append" /\ t.version = Cardinality(store)
        /\ \A c \in store : c.id < t.id
    BY DEF CInv, CommandTypeOK, TxInv, TxType, SerialInv, RankInv, Ops
  <1>2. /\ store' = {c \in store : c.id # t.id} \cup {New(t)} /\ flight' = flight \ {t}
        /\ \A s \in Request : req'[s].at = "read" => req[s].at = "read"
    BY <1>1, CommitEffect
  <1>3. /\ \A c \in store : c.id \in Int
        /\ t.id \in Int /\ New(t).id = t.id
    BY <1>1 DEF CInv, CommandTypeOK, TxType, Time, New
  <1>4. store' = store \cup {New(t)} /\ New(t) \notin store
    BY <1>1, <1>2, <1>3
  <1>5. flight' = {}
    BY <1>2 DEF SerialInv
  <1>6. IsFiniteSet(store) /\ Cardinality(store) \in Nat
    BY FS_CardinalityType DEF CInv, TxInv
  <1>7. IsFiniteSet(store') /\ Cardinality(store') = Cardinality(store) + 1
    BY <1>4, <1>6, FS_AddElement
  <1>8. \A s \in Request : req[s].at # "read"
    BY DEF SerialInv, UnderWay, CInv, CallInv, TxInv
  <1> QED  BY <1>1, <1>2, <1>4, <1>5, <1>6, <1>7, <1>8

\* What is committed is the last, and takes the next rank.
LEMMA RankStep == CInv /\ SerialInv /\ RankInv /\ [Next]_vars => RankInv'
  <1> SUFFICES ASSUME CInv, SerialInv, RankInv, [Next]_vars, orderly'
               PROVE  /\ \A r \in Request : req'[r].at = "read" => req'[r].version = Cardinality(store')
                      /\ \A t \in flight' : /\ t.version = Cardinality(store')
                                            /\ \A c \in store' : c.id < t.id
                      /\ \A c \in store' : c.version = Rank(c)'
                      /\ \A c, d \in store' : c.version = d.version => c = d
                      /\ \A n \in 0 .. Cardinality(store') - 1 : \E c \in store' : c.version = n
    BY DEF RankInv, Rank
  <1>1. orderly
    BY StepKinds, CommitEffect, RefusedEffect DEF Moved, Sent, Submit, Tick, vars
  <1>2. /\ \A r \in Request : req[r].at = "read" => req[r].version = Cardinality(store)
        /\ \A t \in flight : t.version = Cardinality(store) /\ \A c \in store : c.id < t.id
        /\ \A c \in store : c.version = Rank(c)
        /\ \A c, d \in store : c.version = d.version => c = d
        /\ \A n \in 0 .. Cardinality(store) - 1 : \E c \in store : c.version = n
    BY <1>1 DEF RankInv
  <1>3. ASSUME store' = store,
               \A r \in Request : req'[r].at = "read" => req'[r].version = Cardinality(store),
               \A t \in flight' : t.version = Cardinality(store) /\ \A c \in store : c.id < t.id
        PROVE  RankInv'
    <2>1. \A c \in store : Rank(c)' = Rank(c)
      BY <1>3 DEF Rank
    <2> QED  BY <1>2, <1>3, <2>1 DEF RankInv
  <1>4. CASE \E r \in Request, p \in ReqType : Moved(r, p)
    <2>1. PICK r \in Request, p \in ReqType : Moved(r, p)
      BY <1>4
    <2>2. /\ req'[r] = p /\ flight' = flight /\ store' = store
          /\ \A s \in Request \ {r} : req'[s] = req[s]
          /\ p.at = "read" => p.version = Cardinality(store)
      BY <2>1 DEF Moved, CInv, CommandTypeOK
    <2> QED  BY <1>2, <1>3, <2>2 DEF RankInv
  <1>5. CASE \E r \in Request, q \in ReqType, id \in Time : Sent(r, q, id)
    <2>1. PICK r \in Request, q \in ReqType, id \in Time : Sent(r, q, id)
      BY <1>5
    <2> DEFINE u == [by |-> r, op |-> q.op, id |-> id, version |-> q.version]
    <2>2. req[r].at = "read" /\ q = req[r] /\ id = now
      BY <1>1, <2>1 DEF Sent
    <2>3. /\ flight' = flight \cup {u} /\ store' = store /\ req'[r].at = "submitted"
          /\ \A s \in Request \ {r} : req'[s] = req[s]
      BY <2>1, SentEffect
    <2>4. u.version = Cardinality(store) /\ \A c \in store : c.id < u.id
      BY <1>2, <2>2 DEF CInv, TxInv
    <2> HIDE DEF u
    <2> QED  BY <1>2, <1>3, <2>3, <2>4 DEF RankInv
  <1>6. CASE \E t \in flight : Commit(t)
    <2>1. PICK t \in flight : Commit(t)
      BY <1>6
    <2>2. /\ store' = store \cup {New(t)} /\ New(t) \notin store /\ flight' = {}
          /\ IsFiniteSet(store) /\ Cardinality(store) \in Nat
          /\ Cardinality(store') = Cardinality(store) + 1
          /\ t \in TxType /\ t.version = Cardinality(store) /\ \A c \in store : c.id < t.id
          /\ \A s \in Request : req'[s].at # "read"
      BY <1>1, <2>1, SerialCommit
    <2>3. /\ New(t).version = Cardinality(store) /\ New(t).id = t.id /\ t.id \in Int
          /\ \A c \in store : c.id \in Int /\ c.version \in Nat
      BY <2>2 DEF New, TxType, Time, CInv, CommandTypeOK
    <2>4. \A c \in store : Rank(c)' = Rank(c)
      <3> TAKE c \in store
      <3>1. {d \in store' : d.id < c.id} = {d \in store : d.id < c.id}
        BY <2>2, <2>3
      <3> QED  BY <3>1 DEF Rank
    <2>5. Cardinality({d \in store' : d.id < New(t).id}) = Cardinality(store)
      <3>1. {d \in store' : d.id < New(t).id} = store
        BY <2>2, <2>3
      <3> QED  BY <3>1
    <2>6. \A c \in store : c.version < Cardinality(store)
      <3> TAKE c \in store
      <3> DEFINE B == {d \in store : d.id < c.id}
      <3>1. c.version = Cardinality(B) /\ B \subseteq store \ {c}
        BY <1>2, <2>3 DEF Rank
      <3>2. IsFiniteSet(store \ {c}) /\ Cardinality(store \ {c}) = Cardinality(store) - 1
        BY <2>2, FS_RemoveElement
      <3> HIDE DEF B
      <3>3. Cardinality(B) <= Cardinality(store) - 1
        BY <3>1, <3>2, FS_Subset
      <3> QED  BY <2>2, <2>3, <3>1, <3>3
    <2>7. \A c \in store' : c.version = Rank(c)'
      <3> TAKE c \in store'
      <3>1. CASE c \in store
        BY <1>2, <2>4, <3>1
      <3>2. CASE c = New(t)
        BY <2>3, <2>5, <3>2 DEF Rank
      <3> QED  BY <2>2, <3>1, <3>2
    <2>8. \A c, d \in store' : c.version = d.version => c = d
      BY <1>2, <2>2, <2>3, <2>6
    <2>9. \A n \in 0 .. Cardinality(store') - 1 : \E c \in store' : c.version = n
      <3> TAKE n \in 0 .. Cardinality(store') - 1
      <3>1. CASE n = Cardinality(store)
        BY <2>2, <2>3, <3>1
      <3>2. CASE n # Cardinality(store)
        <4>1. n \in 0 .. Cardinality(store) - 1
          BY <2>2, <3>2
        <4> QED  BY <1>2, <2>2, <4>1
      <3> QED  BY <3>1, <3>2
    <2> QED  BY <2>2, <2>7, <2>8, <2>9
  <1>7. CASE (\E t \in flight : Refused(t)) \/ Tick \/ UNCHANGED vars
    <2>1. /\ store' = store /\ flight' \subseteq flight
          /\ \A r \in Request : req'[r].at = "read" => req'[r] = req[r]
      BY <1>7, RefusedEffect DEF Tick, vars
    <2> QED  BY <1>2, <1>3, <2>1 DEF RankInv
  <1> QED  BY <1>4, <1>5, <1>6, <1>7, StepKinds

Entry == [by : Request, version : Nat]

\* The log of orderly clients, entry by entry.
LogIsStore ==
    /\ Cardinality(store) \in Nat /\ Log \in Seq(Entry) /\ Len(Log) = Cardinality(store)
    /\ \A n \in 1 .. Cardinality(store) :
          \E c \in store : c.version = n - 1 /\ Log[n] = [by |-> c.by, version |-> c.version]

\* The log is the store in the order of the versions.
LEMMA LogEntries == CInv /\ RankInv /\ orderly => LogIsStore
  <1> SUFFICES ASSUME CInv, RankInv, orderly PROVE LogIsStore
    OBVIOUS
  <1> DEFINE k == Cardinality(store)
  <1>1. k \in Nat
    BY FS_CardinalityType DEF CInv, TxInv
  <1>2. ASSUME NEW n \in 1 .. k PROVE InOrder[n] \in store /\ InOrder[n].version = n - 1
    <2>1. n - 1 \in 0 .. k - 1
      BY <1>1
    <2>2. \E c \in store : Rank(c) = n - 1
      BY <2>1 DEF RankInv
    <2>3. InOrder[n] = CHOOSE c \in store : Rank(c) = n - 1
      BY DEF InOrder
    <2>4. InOrder[n] \in store /\ Rank(InOrder[n]) = n - 1
      BY <2>2, <2>3
    <2> QED  BY <2>4 DEF RankInv
  <1>3. Log = [n \in 1 .. k |-> [by |-> InOrder[n].by, version |-> InOrder[n].version]]
    BY DEF Log
  <1>4. \A n \in 1 .. k : [by |-> InOrder[n].by, version |-> InOrder[n].version] \in Entry
    BY <1>2 DEF Entry, CInv, CommandTypeOK
  <1> HIDE DEF k
  <1>5. Log \in Seq(Entry) /\ Len(Log) = k
    BY <1>1, <1>3, <1>4
  <1>6. \A n \in 1 .. k :
           \E c \in store : c.version = n - 1 /\ Log[n] = [by |-> c.by, version |-> c.version]
    BY <1>2, <1>3
  <1> QED  BY <1>1, <1>5, <1>6 DEF k, LogIsStore

\* It begins empty,
LEMMA LogInit == Init => L!Init
  <1> SUFFICES ASSUME Init PROVE Log = <<>>
    BY DEF L!Init
  <1>1. Cardinality(store) = 0
    BY FS_EmptySet DEF Init
  <1> QED  BY <1>1 DEF Log

\* and a step adds the next event to it or leaves it alone.
LEMMA LogStep ==
  CInv /\ SerialInv /\ RankInv /\ CInv' /\ RankInv' /\ [Next]_vars => [L!Next]_Log
  <1> SUFFICES ASSUME CInv, SerialInv, RankInv, CInv', RankInv', [Next]_vars
               PROVE  L!Next \/ Log' = Log
    OBVIOUS
  <1>1. orderly' = orderly
    BY StepKinds, CommitEffect, RefusedEffect DEF Moved, Sent, Submit, Tick, vars
  <1>2. CASE ~orderly
    BY <1>1, <1>2 DEF Log
  <1>3. ASSUME orderly
        PROVE  /\ Cardinality(store) \in Nat /\ Log \in Seq(Entry) /\ Len(Log) = Cardinality(store)
               /\ \A n \in 1 .. Cardinality(store) :
                     \E c \in store : c.version = n - 1 /\ Log[n] = [by |-> c.by, version |-> c.version]
    BY <1>3, LogEntries DEF LogIsStore
  <1>4. ASSUME orderly
        PROVE  /\ Cardinality(store') \in Nat /\ Log' \in Seq(Entry) /\ Len(Log') = Cardinality(store')
               /\ \A n \in 1 .. Cardinality(store') :
                     \E c \in store' : c.version = n - 1 /\ Log'[n] = [by |-> c.by, version |-> c.version]
    <2>1. CInv' /\ RankInv' /\ orderly' => LogIsStore'
      BY LogEntries, PTL
    <2> QED  BY <1>1, <1>4, <2>1 DEF LogIsStore
  <1>5. ASSUME orderly
        PROVE  /\ \A c, d \in store : c.version = d.version => c = d
               /\ \A c, d \in store' : c.version = d.version => c = d
    BY <1>1, <1>5 DEF RankInv
  <1>6. CASE orderly /\ store' = store
    <2>1. \A n \in 1 .. Cardinality(store) : Log'[n] = Log[n]
      BY <1>3, <1>4, <1>5, <1>6
    <2> QED  BY <1>3, <1>4, <1>6, <2>1
  <1>7. CASE orderly /\ \E t \in flight : Commit(t)
    <2>1. PICK t \in flight : Commit(t)
      BY <1>7
    <2> DEFINE k == Cardinality(store)
               e == [by |-> t.by, version |-> k]
    <2>2. /\ store' = store \cup {New(t)} /\ Cardinality(store') = k + 1
          /\ t \in TxType /\ New(t).by = t.by /\ New(t).version = k
      BY <1>7, <2>1, SerialCommit DEF New
    <2>3. t.by \in Request /\ k \in Nat /\ e \in Entry
      BY <1>3, <1>7, <2>2 DEF TxType, Entry
    <2>4. \A n \in 1 .. k : Log'[n] = Log[n]
      <3> TAKE n \in 1 .. k
      <3>1. PICK c \in store : c.version = n - 1 /\ Log[n] = [by |-> c.by, version |-> c.version]
        BY <1>3, <1>7
      <3>2. n \in 1 .. Cardinality(store')
        BY <2>2, <2>3
      <3>3. PICK d \in store' : d.version = n - 1 /\ Log'[n] = [by |-> d.by, version |-> d.version]
        BY <1>4, <1>7, <3>2
      <3>4. c = d
        BY <1>5, <1>7, <2>2, <3>1, <3>3
      <3> QED  BY <3>1, <3>3, <3>4
    <2>5. Log'[k + 1] = e
      <3>1. k + 1 \in 1 .. Cardinality(store')
        BY <2>2, <2>3
      <3>2. PICK d \in store' : d.version = k /\ Log'[k + 1] = [by |-> d.by, version |-> d.version]
        BY <1>4, <1>7, <2>3, <3>1
      <3>3. d = New(t)
        BY <1>5, <1>7, <2>2, <2>3, <3>2
      <3> QED  BY <2>2, <3>2, <3>3
    <2>6. \A n \in DOMAIN Log : Log[n].by # t.by
      BY <1>3, <1>7 DEF CInv, TxInv
    <2>7. Log \in Seq(Entry) /\ Len(Log) = k /\ Log' \in Seq(Entry) /\ Len(Log') = k + 1
      BY <1>3, <1>4, <1>7, <2>2
    <2> HIDE DEF k, e
    <2>8. Log' = Append(Log, e)
      BY <2>3, <2>4, <2>5, <2>7
    <2>9. e = [by |-> t.by, version |-> Len(Log)]
      BY <2>7 DEF e
    <2>10. L!Add(t.by)
      BY <2>6, <2>8, <2>9 DEF L!Add
    <2> QED  BY <2>3, <2>10 DEF L!Next
  <1>8. store' = store \/ \E t \in flight : Commit(t)
    BY StepKinds, RefusedEffect DEF Moved, Sent, Submit, Tick, vars
  <1> QED  BY <1>2, <1>6, <1>7, <1>8

\* Clients that append one after the other implement the event log: each step adds the next
\* event, with the number of those before it as its version, or leaves the log alone.
THEOREM OrderlyIsEventLog == Spec => ImplementsEventLog
  <1>1. Init => SerialInv
    <2> SUFFICES ASSUME Init PROVE SerialInv
      OBVIOUS
    <2>1. flight = {} /\ \A r \in Request : req[r].op = "none" /\ req[r].at = "new"
      BY DEF Init
    <2>2. \A r \in Request : ~req[r].blind
      BY DEF Init
    <2> QED  BY <2>1, <2>2 DEF SerialInv, UnderWay
  <1>2. Init => RankInv
    <2> SUFFICES ASSUME Init PROVE RankInv
      OBVIOUS
    <2>1. store = {} /\ Cardinality(store) = 0
      BY FS_EmptySet DEF Init
    <2> QED  BY <2>1 DEF Init, RankInv
  <1> QED
    BY <1>1, <1>2, CommandInit, CommandStep, SerialStep, RankStep, LogInit, LogStep, PTL
    DEF Spec, ImplementsEventLog, L!Spec

=============================================================================
