------------------------------ MODULE Command ------------------------------
(***************************************************************************)
(* The commands of the repository (src/src/repository/createRepository.ts) *)
(* on the commits of one entity: cmd_append, cmd_create, the two deletions *)
(* and cmd_getByEntityNameEntityId, over the services evaluate and submit  *)
(* (src/src/fabric/services).  Several clients call at once, through the   *)
(* action routes.  The private-data variants differ in the collection and  *)
(* in the service they call, not in their control.                         *)
(*                                                                         *)
(* The contract eventstore is not part of the repository: a commit is      *)
(* stored under its entity and commit id, and an older one of the same id  *)
(* is replaced.  A transaction is applied when its block is committed.     *)
(***************************************************************************)
EXTENDS Integers, Sequences, FiniteSets

CONSTANTS
    Request,     \* the calls that clients make, one each
    Given,       \* versions that clients of cmd_create give
    MaxTime      \* bound: milliseconds

ASSUME CommandAssumption ==
    /\ IsFiniteSet(Request)
    /\ Given \subseteq Nat
    /\ MaxTime \in Nat

VARIABLES
    store,    \* the commits of the entity: commit id, version, and the request
    flight,   \* transactions submitted and not yet committed
    req,      \* req[r]: the state of the call r
    now,      \* the clock, in milliseconds
    orderly   \* whether the clients of this behaviour only append, one after the
              \* other, and none of their evaluations is answered with an error

vars == <<store, flight, req, now, orderly>>

Time == 0 .. MaxTime

Ops == {"append", "create", "delete", "deleteOne", "get"}

\* "before" is what had been answered with ok when the call was made, "seen" what
\* the peer returned, "blind" says that it returned an error.
ReqType == [op : Ops \cup {"none"}, blind : BOOLEAN,
            at : {"new", "rejected", "evaluate", "read", "submitted", "committed", "done"},
            answer : {"none", "ok", "error"}, version : Nat,
            before : SUBSET Request, seen : SUBSET Request]

TxType == [by : Request, op : Ops, id : Time, version : Nat]

CommandTypeOK ==
    /\ store \subseteq [by : Request, id : Time, version : Nat]
    /\ flight \subseteq TxType
    /\ req \in [Request -> ReqType]
    /\ now \in Time /\ orderly \in BOOLEAN
    /\ \A c, d \in store : c.id = d.id => c = d
    /\ \A r \in Request : req[r].at = "submitted" => \E t \in flight : t.by = r

Init ==
    /\ store = {} /\ flight = {} /\ now = 0 /\ orderly \in BOOLEAN
    /\ req = [r \in Request |-> [op |-> "none", blind |-> FALSE, at |-> "new",
                                 answer |-> "none", version |-> 0, before |-> {}, seen |-> {}]]

-----------------------------------------------------------------------------

AnsweredOk == {r \in Request : req[r].answer = "ok"}

Quiet == flight = {} /\ \A r \in Request : req[r].at \in {"new", "rejected", "done"}

Goes(r, q, at) == req' = [req EXCEPT ![r] = [q EXCEPT !.at = at]]

Answer(r, q, answer) == req' = [req EXCEPT ![r] = [q EXCEPT !.at = "done", !.answer = answer]]

\* createCommitId, the time in milliseconds, is taken when submit is called.
CommitId == now

\* submit, submitPrivateData: the transaction is on its way.
Submit(r, q, id) ==
    /\ flight' = flight \cup {[by |-> r, op |-> q.op, id |-> id, version |-> q.version]}
    /\ Goes(r, q, "submitted")
    /\ UNCHANGED <<store, now, orderly>>

\* A call with valid names: append and get evaluate first, a creation carries the
\* version its client gives, a deletion the commit id its client knows.
CallValid(r, q) ==
    \/ /\ q.op \in {"append", "get"}
       /\ Goes(r, q, "evaluate") /\ UNCHANGED <<store, flight, now, orderly>>
    \/ /\ q.op = "create"
       /\ \E v \in Given : Submit(r, [q EXCEPT !.version = v], CommitId)
    \/ /\ q.op = "delete" /\ Submit(r, q, now)
    \/ /\ q.op = "deleteOne" /\ \E c \in store : Submit(r, q, c.id)

\* Names that are not alphanumeric reject the promise outside of catchError: the
\* route awaits it without a try, and the request is left without an answer.
CallInvalid(r, q) ==
    /\ q.op # "get"
    /\ Goes(r, q, "rejected")
    /\ UNCHANGED <<store, flight, now, orderly>>

Call(r) ==
    /\ req[r].at = "new"
    /\ \E op \in Ops :
          /\ orderly => Quiet /\ op = "append"
          /\ LET q == [req[r] EXCEPT !.op = op, !.before = AnsweredOk]
             IN  CallValid(r, q) \/ CallInvalid(r, q)

Count_Next == Cardinality(store) + 1

\* Object.keys(commits).length
Count == Cardinality(store)

\* The peer executes the query; its answer is still under way.
Evaluate(r) ==
    /\ req[r].at = "evaluate"
    /\ Goes(r, [req[r] EXCEPT !.version = Count, !.seen = {c.by : c \in store}], "read")
    /\ UNCHANGED <<store, flight, now, orderly>>

\* An append goes on with submit, a get answers what was read.
Evaluated(r, q) ==
    \/ q.op = "append" /\ Submit(r, q, CommitId)
    \/ q.op = "get" /\ Answer(r, q, "ok") /\ UNCHANGED <<store, flight, now, orderly>>

EvaluationReturns(r) == req[r].at = "read" /\ Evaluated(r, req[r])

\* evaluate answers {error}, an object with one key, which its callers take for
\* one commit.
EvaluationFails(r) ==
    /\ ~orderly /\ req[r].at = "evaluate"
    /\ Evaluated(r, [req[r] EXCEPT !.version = 1, !.blind = TRUE])

\* withTimeout rejects, or the evaluation has an unexpected format and is null.
\* What has been submitted stays submitted.
TimesOut(r) ==
    /\ req[r].at \in {"evaluate", "read", "submitted", "committed"}
    /\ Answer(r, req[r], "error")
    /\ UNCHANGED <<store, flight, now, orderly>>

Put(t) == {c \in store : c.id # t.id} \cup {[by |-> t.by, id |-> t.id, version |-> t.version]}

Applied(t) ==
    CASE t.op \in {"append", "create"} -> Put(t)
      [] t.op = "delete"               -> {}
      [] t.op = "deleteOne"            -> {c \in store : c.id # t.id}

\* A block with the transaction is committed, more than a millisecond after the
\* transaction was stamped.
Commit(t) ==
    /\ t \in flight /\ t.id < now
    /\ flight' = flight \ {t}
    /\ store' = Applied(t)
    /\ req' = [req EXCEPT ![t.by].at = IF @ = "submitted" THEN "committed" ELSE @]
    /\ UNCHANGED <<now, orderly>>

Refused_Silent(t) ==
    /\ t \in flight
    /\ flight' = flight \ {t}
    /\ UNCHANGED <<store, req, now, orderly>>

Refused_Ok(t) ==
    /\ t \in flight
    /\ flight' = flight \ {t}
    /\ req[t.by].at = "submitted" /\ Answer(t.by, req[t.by], "ok")
    /\ UNCHANGED <<store, now, orderly>>

\* It is not endorsed, not ordered or not valid.  A deletion whose result is not
\* SUCCESS and a result with an error are both answered with error.
Refused(t) ==
    /\ t \in flight
    /\ flight' = flight \ {t}
    /\ \/ req[t.by].at = "submitted"  /\ Answer(t.by, req[t.by], "error")
       \/ req[t.by].at # "submitted" /\ UNCHANGED req
    /\ UNCHANGED <<store, now, orderly>>

SubmitReturns_Early(r) ==
    /\ req[r].at \in {"submitted", "committed"}
    /\ Answer(r, req[r], "ok")
    /\ UNCHANGED <<store, flight, now, orderly>>

SubmitReturns(r) ==
    /\ req[r].at = "committed"
    /\ Answer(r, req[r], "ok")
    /\ UNCHANGED <<store, flight, now, orderly>>

Tick == now < MaxTime /\ now' = now + 1 /\ UNCHANGED <<store, flight, req, orderly>>

Next ==
    \/ \E r \in Request : \/ Call(r) \/ Evaluate(r) \/ EvaluationReturns(r)
                          \/ EvaluationFails(r) \/ TimesOut(r) \/ SubmitReturns(r)
    \/ \E t \in flight : Commit(t) \/ Refused(t)
    \/ Tick

Spec == Init /\ [][Next]_vars

-----------------------------------------------------------------------------
(* What holds of clients that call at once.  The first three are about     *)
(* behaviours in which nobody deletes and no evaluation fails: a deletion  *)
(* makes the next version one that was given before, and the error of an   *)
(* evaluation is counted, and returned, as one commit.                     *)

Ordinary == \A r \in Request : ~req[r].blind /\ req[r].op \notin {"delete", "deleteOne"}

Appended(c) == req[c.by].op = "append"

\* The version of an appended commit never runs ahead of the log: so many others
\* are stored, whatever times out and is committed later.
VersionNotAhead ==
    Ordinary => \A c \in store : Appended(c) => c.version < Cardinality(store)

\* An append that is called after another one was answered with ok has a greater
\* version, although versions are read before a timeout and stored after it.
VersionOrder ==
    Ordinary => \A c, d \in store :
        Appended(c) /\ Appended(d) /\ d.by \in req[c.by].before => c.version > d.version

\* A read answered with ok has seen every append answered with ok before it, but
\* for those another commit of the same id has replaced.
SeesOwn ==
    Ordinary => \A r \in Request : req[r].op = "get" /\ req[r].answer = "ok" =>
        \A c \in store : c.by \in req[r].before => c.by \in req[r].seen

\* After a deletion of the entity that was answered with ok, no commit is left that
\* had been acknowledged before it was called: nothing late brings one back.
DeletedGone ==
    \A r \in Request : req[r].op = "delete" /\ req[r].answer = "ok" =>
        \A c \in store : c.by \notin req[r].before

=============================================================================
