--------------------------- MODULE EventLifecycle ---------------------------
(* What the events component promises about the status of an event: it is    *)
(* created as a draft and only ever moves along an edge of the life cycle    *)
(* (I15 of docs/invariants.md). Nothing here knows of requests or snapshots. *)
EXTENDS EventDomain

CONSTANTS EventIds, None

VARIABLE status

Init == status = [e \in EventIds |-> None]

Create(e) ==
    /\ status[e] = None
    /\ status' = [status EXCEPT ![e] = "draft"]

Advance(e, s) ==
    /\ <<status[e], s>> \in Edges
    /\ status' = [status EXCEPT ![e] = s]

Next == \E e \in EventIds : Create(e) \/ \E s \in Statuses : Advance(e, s)

Spec == Init /\ [][Next]_status
=============================================================================
