------------------------------ MODULE QuerySide ------------------------------
(***************************************************************************)
(* The parts of the query side that no job interrupts, Projection, Paging  *)
(* and MessageCenter, beside each other.  They share no state, so a        *)
(* behaviour moves one of them, chosen at its start, and nothing is lost   *)
(* by leaving the others at theirs.                                        *)
(***************************************************************************)
EXTENDS Projection, Paging, MessageCenter

VARIABLE part    \* the one that moves

Init == ProjectionInit /\ PagingInit /\ MessageInit /\ part \in {"projection", "paging", "messages"}

Next ==
    /\ UNCHANGED part
    /\ \/ part = "projection" /\ ProjectionNext /\ UNCHANGED <<pagingVars, messageVars>>
       \/ part = "paging" /\ PagingNext /\ UNCHANGED <<projectionVars, messageVars>>
       \/ part = "messages" /\ MessageNext /\ UNCHANGED <<projectionVars, pagingVars>>

vars == <<projectionVars, pagingVars, messageVars, part>>

Spec == Init /\ [][Next]_vars

\* A statement of a read, a save and a POST end.
FairSpec ==
    /\ Spec
    /\ WF_vars(part = "paging" /\ (Count \/ Find) /\ UNCHANGED <<projectionVars, messageVars, part>>)
    /\ \A m \in Msg :
          WF_vars(/\ part = "messages" /\ (Save(m) \/ Arrive(m))
                  /\ UNCHANGED <<projectionVars, pagingVars, part>>)

\* Every variable of the three keeps its type.
QuerySideTypeOK == ProjectionTypeOK /\ PagingTypeOK /\ MessageTypeOK

=============================================================================
