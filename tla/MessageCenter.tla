---------------------------- MODULE MessageCenter ----------------------------
(***************************************************************************)
(* createMessageCenter, src/src/message/createMessageCenter.ts, with what  *)
(* it drives: the table of incidents and the write side's endpoint, to     *)
(* which every new commit is announced by a POST.                          *)
(*                                                                         *)
(* A message is named by its place among those sent.  Subscribers are      *)
(* called at once, in the call of notify; what they await, the save and    *)
(* the POST, goes on by itself and ends in any order, or fails.            *)
(***************************************************************************)
EXTENDS Integers, Sequences

CONSTANTS
    MaxMsg,       \* bound: messages
    MaxFailed,    \* bound: saves and POSTs that fail
    Registered    \* the entity classes the connection was created with

ASSUME MessageAssumption == {MaxMsg, MaxFailed} \subseteq Nat

VARIABLES
    sent,        \* the kind of every message so far
    open,        \* are the subscriptions of the message center open?
    saving,      \* the messages whose save is awaited
    incidents,   \* those in the table
    posting,     \* those whose POST is on its way
    awaiting,    \* those the endpoint has received and not answered
    received,    \* received[m]: how often the endpoint has received m
    failed       \* how many saves and POSTs have failed

messageVars == <<sent, open, saving, incidents, posting, awaiting, received, failed>>

\* "save" stands for the option save, "commit" for the title NOTIFY_WRITESIDE.
Sort == {"info", "save", "commit"}

Msg == 1 .. MaxMsg

Of(s) == {m \in DOMAIN sent : sent[m] = s}

\* The endpoint receives an announcement once: a POST whose answer is lost is not
\* repeated.
MessageTypeOK ==
    /\ sent \in Seq(Sort) /\ Len(sent) <= MaxMsg
    /\ open \in BOOLEAN
    /\ saving \cup incidents \subseteq Of("save")
    /\ posting \cup awaiting \subseteq Of("commit")
    /\ saving \cap incidents = {} /\ posting \cap awaiting = {}
    /\ received \in [Msg -> 0 .. 1]
    /\ failed \in 0 .. MaxFailed

MessageInit ==
    /\ sent = <<>> /\ open = TRUE
    /\ saving = {} /\ incidents = {} /\ posting = {} /\ awaiting = {}
    /\ received = [m \in Msg |-> 0] /\ failed = 0

Failure == failed < MaxFailed /\ failed' = failed + 1

-----------------------------------------------------------------------------

\* notify: the persisting subscriber saves what asks for it, the other one announces.
Notify_NoPost(s) ==
    /\ Len(sent) < MaxMsg
    /\ sent' = Append(sent, s)
    /\ saving' = saving \cup {m \in {Len(sent')} : open /\ s = "save"}
    /\ UNCHANGED <<open, incidents, posting, awaiting, received, failed>>

Notify(s) ==
    /\ Len(sent) < MaxMsg
    /\ sent' = Append(sent, s)
    /\ saving' = saving \cup {m \in {Len(sent')} : open /\ s = "save"}
    /\ posting' = posting \cup {m \in {Len(sent')} : open /\ s = "commit"}
    /\ UNCHANGED <<open, incidents, awaiting, received, failed>>

\* The entity that createMessageCenter imports; getRepository throws on a connection that
\* was created without it.
Entity == "Mongo.Incident"

\* The save ends: a row, or "incident not saved" in the log.  With the entities of the
\* platform's connection it is always the latter.
Save(m) ==
    /\ m \in saving /\ saving' = saving \ {m}
    /\ \/ incidents' = incidents \cup {n \in {m} : Entity \in Registered} /\ UNCHANGED failed
       \/ Failure /\ UNCHANGED incidents
    /\ UNCHANGED <<sent, open, posting, awaiting, received>>

\* The POST reaches the endpoint.
Arrive(m) ==
    /\ m \in posting /\ posting' = posting \ {m} /\ awaiting' = awaiting \cup {m}
    /\ received' = [received EXCEPT ![m] = @ + 1]
    /\ UNCHANGED <<sent, open, saving, incidents, failed>>

\* fetch throws, before the request has reached the endpoint or after: the failure is
\* logged, and that is all.
Fail(m) ==
    /\ m \in posting \cup awaiting /\ Failure
    /\ posting' = posting \ {m} /\ awaiting' = awaiting \ {m}
    /\ UNCHANGED <<sent, open, saving, incidents, received>>

\* disconnect unsubscribes; what is awaited goes on.
Disconnect ==
    /\ open /\ open' = FALSE
    /\ UNCHANGED <<sent, saving, incidents, posting, awaiting, received, failed>>

MessageNext ==
    \/ \E s \in Sort : Notify(s)
    \/ \E m \in Msg : Save(m) \/ Arrive(m) \/ Fail(m)
    \/ Disconnect

-----------------------------------------------------------------------------

\* A new commit that came while the message center was open has been received by the write
\* side in the end, or a failure was met, although nothing awaits the POST, disconnect may
\* come between, and the saves of other messages fail.
Announced ==
    \A m \in Msg : (open /\ m \in Of("commit")) ~> (received[m] = 1 \/ failed > 0)

=============================================================================
