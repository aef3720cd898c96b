------------------------------ MODULE EventLog ------------------------------
(***************************************************************************)
(* What the command side promises for one entity: a log of the events of   *)
(* its writers.  An event is in the log at most once, and its version is   *)
(* the number of the events before it.  Nothing is taken out.  Append      *)
(* implements this as long as its clients call one after the other.        *)
(***************************************************************************)
EXTENDS Sequences, Naturals

CONSTANT Writer

VARIABLE log

Init == log = <<>>

Add(w) ==
    /\ \A n \in DOMAIN log : log[n].by # w
    /\ log' = Append(log, [by |-> w, version |-> Len(log)])

Next == \E w \in Writer : Add(w)

Spec == Init /\ [][Next]_log

=============================================================================
