------------------------- MODULE SubmissionLifecycle -------------------------
(* What the submissions component promises about one row: a draft is edited  *)
(* until it is handed in, a submitted entry is locked, and disqualification  *)
(* is final.  The code lets a draft be disqualified too.                     *)
CONSTANTS SubIds, Texts, None

VARIABLES status, text

vars == <<status, text>>

Init ==
    /\ status = [s \in SubIds |-> None]
    /\ text = [s \in SubIds |-> None]

Create(s) ==
    /\ status[s] = None
    /\ status' = [status EXCEPT ![s] = "draft"]
    /\ \E t \in Texts : text' = [text EXCEPT ![s] = t]

Edit(s) ==
    /\ status[s] = "draft"
    /\ \E t \in Texts : text' = [text EXCEPT ![s] = t]
    /\ UNCHANGED status

HandIn(s) ==
    /\ status[s] = "draft"
    /\ status' = [status EXCEPT ![s] = "submitted"]
    /\ UNCHANGED text

Disqualify(s) ==
    /\ status[s] \in {"draft", "submitted"}
    /\ status' = [status EXCEPT ![s] = "disqualified"]
    /\ UNCHANGED text

Next == \E s \in SubIds : Create(s) \/ Edit(s) \/ HandIn(s) \/ Disqualify(s)

Spec == Init /\ [][Next]_vars
=============================================================================
