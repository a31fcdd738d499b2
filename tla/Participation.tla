---------------------------- MODULE Participation ----------------------------
(* What the teams component promises each user about one event: registering  *)
(* comes before a team, and leaving is possible until there is one.  A stray *)
(* is a member who is not registered; the promise is that nobody becomes     *)
(* one, and all a stray can do is register again.                            *)
CONSTANTS Users, EventIds

VARIABLE stage

Init == stage = [u \in Users |-> [e \in EventIds |-> "out"]]

Stages == {"out", "registered", "member", "stray"}

Moves == {<<"out", "registered">>, <<"registered", "out">>,
          <<"registered", "member">>, <<"stray", "member">>}

Move(u, e, s) ==
    /\ <<stage[u][e], s>> \in Moves
    /\ stage' = [stage EXCEPT ![u][e] = s]

Next == \E u \in Users, e \in EventIds, s \in Stages : Move(u, e, s)

Spec == Init /\ [][Next]_stage
=============================================================================
