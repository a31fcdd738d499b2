--------------------------- MODULE Events_proofs ----------------------------
(* Theorems about Events, for any number of goroutines, users and events.    *)
EXTENDS Events, TLAPS

(* What a request in flight knows about the tables, at each of its steps.    *)
SaveOK(w) ==
    req[w].pc = "save" =>
        /\ req[w].event \in Row
        /\ req[w].event.status = "draft"
        /\ req[w].user = req[w].event.createdBy

GrantOK(w) ==
    req[w].pc = "grant" =>
        /\ req[w].id \in Saved
        /\ req[w].user = event[req[w].id].createdBy

AuthorizeOK(w) ==
    req[w].pc = "authorize" =>
        /\ req[w].id \in Saved
        /\ req[w].user \in Users
        /\ req[w].event \in Row
        /\ req[w].event.status \in held[req[w].id]

WriteOK(w) ==
    req[w].pc = "write" =>
        /\ req[w].id \in Saved
        /\ req[w].event \in Row
        /\ <<event[req[w].id].createdBy, req[w].id, "organizer">> \in roles
        /\ \/ req[w].event.status \in held[req[w].id]
           \/ \E p \in held[req[w].id] : <<p, req[w].event.status>> \in Edges

\* The organizer of an event is the one who created it.
OrganizerIsCreator ==
    \A u \in Users, e \in EventIds : <<u, e, "organizer">> \in roles =>
        e \in Saved /\ event[e].createdBy = u

RequestsOK ==
    \A w \in Workers : SaveOK(w) /\ GrantOK(w) /\ AuthorizeOK(w) /\ WriteOK(w)

IInv ==
    /\ TypeOK
    /\ RequestsOK
    /\ OrganizerIsCreator
    /\ PublishedHasOrganizer
    /\ NoStatusSkipped

---------------------------------------------------------------------------
(* TypeOK *)

\* Edges lead from statuses to statuses.
LEMMA EdgesJoinStatuses ==
    \A s, t : <<s, t>> \in Edges => s \in Statuses /\ t \in Statuses
BY DEF Edges, Statuses

\* The initial state has its types.
LEMMA TypeInit == Init => TypeOK
BY NoneIsNoValue DEF Init, TypeOK, Request, Idle, Saved

\* Writing a row over another gives a row.
LEMMA RowAfterOverwrite ==
    ASSUME NEW old \in Row, NEW row \in Row
    PROVE  Overwrite(old, row) \in Row
BY DEF Overwrite, Row

\* Every step keeps the types.
LEMMA TypeStep == TypeOK /\ [Next]_vars => TypeOK'
<1> USE NoneIsNoValue, SizesAreIntegers, RequestedStatuses
<1> SUFFICES ASSUME TypeOK, [Next]_vars PROVE TypeOK'
  OBVIOUS
<1> USE DEF TypeOK
<1>1. ASSUME NEW w \in Workers, CreateCheckSlug(w) PROVE TypeOK'
  <2>1. PICK slug \in Slugs, u \in Users, size \in TeamSizes, d \in Deadlines :
          req' = [req EXCEPT ![w] = [pc |-> "save", user |-> u, id |-> None,
                                     event |-> NewEvent(slug, u, size, d)]]
    BY <1>1 DEF CreateCheckSlug
  <2>2. NewEvent(slug, u, size, d) \in Row
    BY DEF NewEvent, Row, Sizes, Statuses
  <2>3. QED
    BY <1>1, <2>1, <2>2 DEF CreateCheckSlug, Request, Saved
<1>2. ASSUME NEW w \in Workers, CreateSave(w) PROVE TypeOK'
  <2>1. req[w].event \in Row /\ req[w].user \in Users /\ req[w].pc = "save"
    BY <1>2 DEF CreateSave, Request, Idle
  <2>2. PICK e \in EventIds \ Saved :
          /\ event' = [event EXCEPT ![e] = req[w].event]
          /\ held' = [held EXCEPT ![e] = {req[w].event.status}]
          /\ req' = [req EXCEPT ![w].pc = "grant", ![w].id = e]
    BY <1>2 DEF CreateSave
  <2>3. event' \in [EventIds -> Row \cup {None}]
    BY <2>1, <2>2
  <2>4. req' \in [Workers -> Request]
    BY <2>1, <2>2 DEF Request, Idle
  <2>5. held' \in [EventIds -> SUBSET Statuses]
    BY <2>1, <2>2 DEF Row
  <2>6. \A f \in Saved' : event'[f].maxTeamSize \in 1..10
    BY <1>2, <2>2 DEF CreateSave, Insertable, SizeInRange, Saved
  <2>7. QED
    BY <1>2, <2>3, <2>4, <2>5, <2>6 DEF CreateSave
<1>3. ASSUME NEW w \in Workers, CreateGrant(w) PROVE TypeOK'
  <2>1. req[w].user \in Users /\ req[w].id \in EventIds
    BY <1>3 DEF CreateGrant, Request, Idle
  <2>2. QED
    BY <1>3, <2>1 DEF CreateGrant, Request, Saved, RoleNames
<1>4. ASSUME NEW w \in Workers, UpdateLoad(w) PROVE TypeOK'
  <2>1. PICK u \in Users, e \in Saved :
          req' = [req EXCEPT ![w] = [pc |-> "authorize", user |-> u, id |-> e,
                                     event |-> event[e]]]
    BY <1>4 DEF UpdateLoad
  <2>2. event[e] \in Row
    BY DEF Saved
  <2>3. QED
    BY <1>4, <2>1, <2>2 DEF UpdateLoad, Request, Saved
<1>5. ASSUME NEW w \in Workers, UpdateAuthorize(w) PROVE TypeOK'
  <2>1. /\ req[w].event \in Row
        /\ req[w] \in [pc: {"grant", "authorize", "write"}, user: Users,
                       id: EventIds, event: Row]
    BY <1>5 DEF UpdateAuthorize, Request, Idle
  <2>2. PICK s \in Requested \cup {None}, size \in TeamSizes \cup {None},
             d \in Deadlines \cup {None} :
          req' = [req EXCEPT ![w].pc = "write", ![w].event =
              Amend(Transition(req[w].event, s), size, d)]
    BY <1>5 DEF UpdateAuthorize
  <2>3. Transition(req[w].event, s) \in Row
    BY <2>1 DEF Transition, Row
  <2>4. Amend(Transition(req[w].event, s), size, d) \in Row
    BY <2>3 DEF Amend, Row, Sizes
  <2>5. req' \in [Workers -> Request]
    <3>1. [req[w] EXCEPT !.pc = "write",
                         !.event = Amend(Transition(req[w].event, s), size, d)]
            \in Request
      BY <2>1, <2>4 DEF Request
    <3>2. QED
      BY <2>2, <3>1
  <2>6. QED
    BY <1>5, <2>5 DEF UpdateAuthorize, Saved
<1>6. ASSUME NEW w \in Workers, UpdateWrite(w) PROVE TypeOK'
  <2> DEFINE e == req[w].id
             row == req[w].event
  <2>1. row \in Row /\ e \in EventIds
    BY <1>6 DEF UpdateWrite, Request, Idle
  <2>2. /\ event' = [event EXCEPT ![e] = Overwrite(@, row)]
        /\ held' = [held EXCEPT ![e] = @ \cup {row.status}]
    BY <1>6 DEF UpdateWrite
  <2>3. event[e] \in Row => Overwrite(event[e], row) \in Row
    BY <2>1 DEF Overwrite, Row
  <2>4. event[e] \in Row
    BY <1>6, <2>1 DEF UpdateWrite, Saved
  <2>5. event' \in [EventIds -> Row \cup {None}]
    BY <2>1, <2>2, <2>3, <2>4
  <2>6. row.status \in Statuses
    BY <2>1 DEF Row
  <2>7. held' \in [EventIds -> SUBSET Statuses]
    BY <2>1, <2>2, <2>6
  <2>8. \A f \in Saved' : event'[f].maxTeamSize \in 1..10
    BY <1>6, <2>1, <2>2, <2>4 DEF UpdateWrite, Overwrite, SizeInRange, Saved, Row
  <2>9. QED
    BY <1>6, <2>5, <2>7, <2>8 DEF UpdateWrite, Request, Updating
<1>7. ASSUME NEW w \in Workers, Fail(w) PROVE TypeOK'
  BY <1>7 DEF Fail, Request, Saved
<1>8. CASE UNCHANGED vars
  BY <1>8 DEF vars, Saved
<1>9. QED
  BY <1>1, <1>2, <1>3, <1>4, <1>5, <1>6, <1>7, <1>8 DEF Next, Step

\* Only well-formed rows reach the tables, whatever the interleaving: the
\* constraint on max_team_size keeps every saved size in 1..10.
THEOREM TypeCorrect == Spec => []TypeOK
BY TypeInit, TypeStep, PTL DEF Spec

---------------------------------------------------------------------------
(* The inductive invariant *)

\* The invariant holds at first.
LEMMA InductiveInit == Init => IInv
<1> SUFFICES ASSUME Init PROVE IInv
  OBVIOUS
<1>1. TypeOK
  BY TypeInit
<1>2. QED
  BY <1>1 DEF Init, IInv, RequestsOK, SaveOK, GrantOK, AuthorizeOK, WriteOK, Idle,
              OrganizerIsCreator, PublishedHasOrganizer, NoStatusSkipped, Saved

\* A row with the fields of a command applied is a row.
LEMMA AmendedRow ==
    ASSUME NEW row \in Row, NEW s \in Requested \cup {None},
           NEW size \in TeamSizes \cup {None}, NEW d \in Deadlines \cup {None}
    PROVE  Amend(Transition(row, s), size, d) \in Row
<1>1. Transition(row, s) \in Row
  BY RequestedStatuses DEF Transition, Row
<1>2. QED
  BY <1>1 DEF Amend, Row, Sizes

\* An idle goroutine satisfies every condition on requests.
LEMMA IdleKnowsNothing ==
    ASSUME NEW w \in Workers, TypeOK, req' = [req EXCEPT ![w] = Idle]
    PROVE  SaveOK(w)' /\ GrantOK(w)' /\ AuthorizeOK(w)' /\ WriteOK(w)'
BY DEF TypeOK, Idle, SaveOK, GrantOK, AuthorizeOK, WriteOK

\* A saved event stays saved, keeps its creator and its past statuses, and
\* keeps its roles: what a request has learnt of these cannot become stale.
LEMMA StableFacts ==
    ASSUME TypeOK, [Next]_vars
    PROVE  /\ \A e \in Saved :
                 /\ e \in Saved'
                 /\ event'[e].createdBy = event[e].createdBy
                 /\ held[e] \subseteq held'[e]
           /\ roles \subseteq roles'
<1> USE NoneIsNoValue DEF Saved, TypeOK
<1>1. ASSUME NEW w \in Workers, CreateSave(w)
      PROVE  \A e \in Saved : event'[e] = event[e] /\ held'[e] = held[e]
  BY <1>1 DEF CreateSave
<1>2. ASSUME NEW w \in Workers, UpdateWrite(w)
      PROVE  \A e \in Saved :
                 /\ event'[e] # None
                 /\ event'[e].createdBy = event[e].createdBy
                 /\ held[e] \subseteq held'[e]
  <2>1. req[w].id \in EventIds /\ event[req[w].id] \in Row
    BY <1>2 DEF UpdateWrite
  <2>2. Overwrite(event[req[w].id], req[w].event) # None
    BY <2>1, RowAfterOverwrite, <1>2 DEF UpdateWrite, Request, Idle
  <2>3. Overwrite(event[req[w].id], req[w].event).createdBy = event[req[w].id].createdBy
    BY <2>1 DEF Overwrite, Row
  <2>4. QED
    BY <1>2, <2>1, <2>2, <2>3 DEF UpdateWrite
<1>3. QED
  BY <1>1, <1>2 DEF Next, Step, vars, CreateCheckSlug, CreateSave, CreateGrant,
                    UpdateLoad, UpdateAuthorize, UpdateWrite, Fail

\* A request that takes no step keeps what it knows.
LEMMA OthersUndisturbed ==
    ASSUME IInv, [Next]_vars, NEW v \in Workers, req'[v] = req[v]
    PROVE  SaveOK(v)' /\ GrantOK(v)' /\ AuthorizeOK(v)' /\ WriteOK(v)'
<1> USE DEF IInv, RequestsOK
<1>1. SaveOK(v)'
  BY DEF SaveOK
<1>2. GrantOK(v)'
  BY StableFacts DEF GrantOK
<1>3. AuthorizeOK(v)'
  BY StableFacts DEF AuthorizeOK
<1>4. WriteOK(v)'
  <2> SUFFICES ASSUME req[v].pc = "write"
               PROVE  /\ req[v].id \in Saved'
                      /\ req[v].event \in Row
                      /\ <<event'[req[v].id].createdBy, req[v].id, "organizer">> \in roles'
                      /\ \/ req[v].event.status \in held'[req[v].id]
                         \/ \E p \in held'[req[v].id] : <<p, req[v].event.status>> \in Edges
    BY DEF WriteOK
  <2>1. /\ req[v].id \in Saved
        /\ req[v].event \in Row
        /\ <<event[req[v].id].createdBy, req[v].id, "organizer">> \in roles
        /\ \/ req[v].event.status \in held[req[v].id]
           \/ \E p \in held[req[v].id] : <<p, req[v].event.status>> \in Edges
    BY DEF WriteOK
  <2>2. /\ req[v].id \in Saved'
        /\ event'[req[v].id].createdBy = event[req[v].id].createdBy
        /\ held[req[v].id] \subseteq held'[req[v].id]
        /\ roles \subseteq roles'
    BY <2>1, StableFacts
  <2>3. QED
    BY <2>1, <2>2
<1>5. QED
  BY <1>1, <1>2, <1>3, <1>4

\* Every step keeps the invariant.
LEMMA InductiveStep == IInv /\ [Next]_vars => IInv'
<1> SUFFICES ASSUME IInv, [Next]_vars PROVE IInv'
  OBVIOUS
<1> USE NoneIsNoValue
<1>1. TypeOK /\ TypeOK'
  BY TypeStep DEF IInv
<1> DEFINE Tables == OrganizerIsCreator /\ PublishedHasOrganizer /\ NoStatusSkipped
           Knows(w) == SaveOK(w) /\ GrantOK(w) /\ AuthorizeOK(w) /\ WriteOK(w)
\* One step per action: the tables, then what the request that moved knows.
<1>2. ASSUME NEW w \in Workers, CreateCheckSlug(w) PROVE Tables' /\ Knows(w)'
  <2>1. Tables'
    BY <1>2 DEF IInv, CreateCheckSlug, OrganizerIsCreator, PublishedHasOrganizer,
                NoStatusSkipped, Saved
  <2>2. PICK slug \in Slugs, u \in Users, size \in TeamSizes, d \in Deadlines :
          req'[w] = [pc |-> "save", user |-> u, id |-> None,
                     event |-> NewEvent(slug, u, size, d)]
    BY <1>2, <1>1 DEF CreateCheckSlug, TypeOK
  <2>3. NewEvent(slug, u, size, d) \in Row
    BY SizesAreIntegers DEF NewEvent, Row, Sizes, Statuses
  <2>4. QED
    BY <2>1, <2>2, <2>3 DEF SaveOK, GrantOK, AuthorizeOK, WriteOK, NewEvent
<1>3. ASSUME NEW w \in Workers, CreateSave(w) PROVE Tables' /\ Knows(w)'
  <2>1. PICK e \in EventIds \ Saved :
            /\ event' = [event EXCEPT ![e] = req[w].event]
            /\ held' = [held EXCEPT ![e] = {req[w].event.status}]
            /\ req' = [req EXCEPT ![w].pc = "grant", ![w].id = e]
            /\ roles' = roles
    BY <1>3 DEF CreateSave
  <2>2. /\ req[w].event \in Row
        /\ req[w].event.status = "draft"
        /\ req[w].user = req[w].event.createdBy
    BY <1>3 DEF CreateSave, IInv, RequestsOK, SaveOK
  <2>3. Saved' = Saved \cup {e} /\ \A f \in Saved : event'[f] = event[f] /\ held'[f] = held[f]
    BY <2>1, <2>2, <1>1 DEF Saved, TypeOK
  <2>4. event'[e] = req[w].event /\ held'[e] = {"draft"}
    BY <2>1, <2>2, <1>1 DEF TypeOK
  <2>5. OrganizerIsCreator'
    BY <2>1, <2>3 DEF IInv, OrganizerIsCreator
  <2>6. PublishedHasOrganizer'
    BY <2>1, <2>2, <2>3, <2>4 DEF IInv, PublishedHasOrganizer
  <2>7. NoStatusSkipped'
    BY <2>2, <2>3, <2>4 DEF IInv, NoStatusSkipped
  <2>8. req'[w].pc = "grant" /\ req'[w].id = e /\ req'[w].user = req[w].user
    BY <2>1, <1>1, <1>3 DEF TypeOK, CreateSave, Request, Idle
  <2>9. Knows(w)'
    BY <2>2, <2>3, <2>4, <2>8 DEF SaveOK, GrantOK, AuthorizeOK, WriteOK
  <2>10. QED
    BY <2>5, <2>6, <2>7, <2>9
<1>4. ASSUME NEW w \in Workers, CreateGrant(w) PROVE Tables' /\ Knows(w)'
  <2>1. /\ roles' = roles \cup {<<req[w].user, req[w].id, "organizer">>}
        /\ event' = event /\ held' = held /\ Saved' = Saved
    BY <1>4 DEF CreateGrant, Saved
  <2>2. req[w].id \in Saved /\ req[w].user = event[req[w].id].createdBy
    BY <1>4 DEF CreateGrant, IInv, RequestsOK, GrantOK
  <2>3. Tables'
    BY <2>1, <2>2 DEF IInv, OrganizerIsCreator, PublishedHasOrganizer, NoStatusSkipped
  <2>4. QED
    BY <2>3, <1>1, <1>4, IdleKnowsNothing DEF CreateGrant
<1>5. ASSUME NEW w \in Workers, UpdateLoad(w) PROVE Tables' /\ Knows(w)'
  <2>1. PICK u \in Users, e \in Saved :
          req'[w] = [pc |-> "authorize", user |-> u, id |-> e, event |-> event[e]]
    BY <1>5, <1>1 DEF UpdateLoad, TypeOK
  <2>2. event[e] \in Row /\ event[e].status \in held[e]
    BY <1>1 DEF Saved, TypeOK, IInv, NoStatusSkipped
  <2>3. event' = event /\ held' = held /\ roles' = roles /\ Saved' = Saved
    BY <1>5 DEF UpdateLoad, Saved
  <2>4. Tables'
    BY <2>3 DEF IInv, OrganizerIsCreator, PublishedHasOrganizer, NoStatusSkipped
  <2>5. QED
    BY <2>1, <2>2, <2>3, <2>4 DEF SaveOK, GrantOK, AuthorizeOK, WriteOK
<1>6. ASSUME NEW w \in Workers, UpdateAuthorize(w) PROVE Tables' /\ Knows(w)'
  <2> DEFINE e == req[w].id
  <2>1. /\ e \in Saved /\ req[w].user \in Users
        /\ req[w].event \in Row /\ req[w].event.status \in held[e]
    BY <1>6 DEF UpdateAuthorize, IInv, RequestsOK, AuthorizeOK
  <2>2. PICK s \in Requested \cup {None}, size \in TeamSizes \cup {None},
             d \in Deadlines \cup {None} :
          /\ MayTransition(req[w].event, s)
          /\ req' = [req EXCEPT ![w].pc = "write", ![w].event =
                         Amend(Transition(req[w].event, s), size, d)]
    BY <1>6 DEF UpdateAuthorize
  <2> DEFINE row == Amend(Transition(req[w].event, s), size, d)
  <2>3. row \in Row
    BY <2>1, AmendedRow
  <2>4. row.status = IF s = None THEN req[w].event.status ELSE s
    BY <2>1 DEF Amend, Transition, Row
  <2>5. row.status \in held[e] \/ \E p \in held[e] : <<p, row.status>> \in Edges
    BY <2>1, <2>2, <2>4 DEF MayTransition
  <2>6. <<event[e].createdBy, e, "organizer">> \in roles
    <3>1. <<req[w].user, e, "organizer">> \in roles
      BY <1>6 DEF UpdateAuthorize, MayUpdate
    <3>2. e \in EventIds
      BY <2>1 DEF Saved
    <3>3. event[e].createdBy = req[w].user
      BY <2>1, <3>1, <3>2 DEF IInv, OrganizerIsCreator
    <3>4. QED
      BY <3>1, <3>3
  <2>7. event' = event /\ held' = held /\ roles' = roles /\ Saved' = Saved
    BY <1>6 DEF UpdateAuthorize, Saved
  <2>8. Tables'
    BY <2>7 DEF IInv, OrganizerIsCreator, PublishedHasOrganizer, NoStatusSkipped
  <2>9. req'[w].pc = "write" /\ req'[w].id = e /\ req'[w].event = row
    <3>1. req[w] \in [pc: {"grant", "authorize", "write"}, user: Users,
                      id: EventIds, event: Row]
      BY <1>1, <1>6 DEF TypeOK, UpdateAuthorize, Request, Idle
    <3>2. req'[w] = [req[w] EXCEPT !.pc = "write", !.event = row]
      BY <1>1, <2>2 DEF TypeOK
    <3>3. QED
      BY <3>1, <3>2
  <2>10. Knows(w)'
    BY <2>1, <2>3, <2>5, <2>6, <2>7, <2>9 DEF SaveOK, GrantOK, AuthorizeOK, WriteOK
  <2>11. QED
    BY <2>8, <2>10
<1>7. ASSUME NEW w \in Workers, UpdateWrite(w) PROVE Tables' /\ Knows(w)'
  <2> DEFINE e == req[w].id
             s == req[w].event.status
  <2>1. /\ e \in Saved /\ e \in EventIds
        /\ req[w].event \in Row
        /\ <<event[e].createdBy, e, "organizer">> \in roles
        /\ s \in held[e] \/ \E p \in held[e] : <<p, s>> \in Edges
    BY <1>7 DEF UpdateWrite, IInv, RequestsOK, WriteOK, Saved
  <2>2. /\ event' = [event EXCEPT ![e] = Overwrite(@, req[w].event)]
        /\ held' = [held EXCEPT ![e] = @ \cup {s}]
        /\ roles' = roles
        /\ req' = [req EXCEPT ![w] = Idle]
    BY <1>7 DEF UpdateWrite
  <2>3. event[e] \in Row
    BY <1>1, <2>1 DEF Saved, TypeOK
  <2>4. /\ event'[e].status = s
        /\ event'[e].createdBy = event[e].createdBy
        /\ held'[e] = held[e] \cup {s}
    BY <1>1, <2>1, <2>2, <2>3 DEF TypeOK, Overwrite, Row
  <2>5. \A f \in EventIds \ {e} : event'[f] = event[f] /\ held'[f] = held[f]
    BY <1>1, <2>1, <2>2 DEF TypeOK
  <2>6. event'[e] # None
    BY <1>1, <2>1, <2>2, <2>3, RowAfterOverwrite DEF TypeOK
  <2>7. Saved' = Saved
    BY <2>1, <2>5, <2>6 DEF Saved
  <2>8. OrganizerIsCreator'
    BY <2>2, <2>4, <2>5, <2>7 DEF IInv, OrganizerIsCreator, Saved
  <2>9. PublishedHasOrganizer'
    BY <2>1, <2>2, <2>4, <2>5, <2>7 DEF IInv, PublishedHasOrganizer, Saved
  <2>10. NoStatusSkipped'
    BY <2>1, <2>4, <2>5, <2>7 DEF IInv, NoStatusSkipped, Saved
  <2>11. Knows(w)'
    BY <2>2, <1>1, IdleKnowsNothing
  <2>12. QED
    BY <2>8, <2>9, <2>10, <2>11
<1>8. ASSUME NEW w \in Workers, Fail(w) PROVE Tables' /\ Knows(w)'
  <2>1. event' = event /\ held' = held /\ roles' = roles /\ Saved' = Saved
    BY <1>8 DEF Fail, Saved
  <2>2. Tables'
    BY <2>1 DEF IInv, OrganizerIsCreator, PublishedHasOrganizer, NoStatusSkipped
  <2>3. QED
    BY <2>2, <1>1, <1>8, IdleKnowsNothing DEF Fail
<1>9. ASSUME NEW w \in Workers, Step(w) PROVE RequestsOK' /\ Tables'
  <2>1. Tables' /\ Knows(w)'
    BY <1>9, <1>2, <1>3, <1>4, <1>5, <1>6, <1>7, <1>8 DEF Step
  <2>2. \A v \in Workers \ {w} : req'[v] = req[v]
    BY <1>9, <1>1 DEF Step, CreateCheckSlug, CreateSave, CreateGrant, UpdateLoad,
                      UpdateAuthorize, UpdateWrite, Fail, TypeOK
  <2>3. QED
    BY <2>1, <2>2, OthersUndisturbed DEF RequestsOK
<1>10. CASE UNCHANGED vars
  <2>1. Saved' = Saved
    BY <1>10 DEF vars, Saved
  <2>2. Tables'
    BY <1>10, <2>1 DEF vars, IInv, OrganizerIsCreator, PublishedHasOrganizer, NoStatusSkipped
  <2>3. RequestsOK'
    BY <1>10, OthersUndisturbed DEF vars, RequestsOK
  <2>4. QED
    BY <1>1, <2>2, <2>3 DEF IInv
<1>11. QED
  BY <1>1, <1>9, <1>10 DEF Next, IInv

\* IInv holds in every reachable state.
THEOREM Inductive == Spec => []IInv
BY InductiveInit, InductiveStep, PTL DEF Spec

\* A published event has its creator as organizer, even though the two rows
\* are written by separate statements and the second may never be.
THEOREM PublishedEventsHaveOrganizers == Spec => []PublishedHasOrganizer
<1>1. IInv => PublishedHasOrganizer
  BY DEF IInv
<1>2. QED
  BY <1>1, Inductive, PTL

\* However stale the rows that updates write back, no status is skipped.
THEOREM StatusesAreNeverSkipped == Spec => []NoStatusSkipped
<1>1. IInv => NoStatusSkipped
  BY DEF IInv
<1>2. QED
  BY <1>1, Inductive, PTL

---------------------------------------------------------------------------
(* What the tables promise one another, and the orphans *)

\* No two events share a slug: the index decides, not the check before it.
THEOREM SlugsAreUnique == Spec => []SlugUnique
<1>1. Init => SlugUnique
  BY DEF Init, SlugUnique, Saved
<1>2. TypeOK /\ SlugUnique /\ [Next]_vars => SlugUnique'
  <2> SUFFICES ASSUME TypeOK, SlugUnique, [Next]_vars PROVE SlugUnique'
    OBVIOUS
  <2> USE NoneIsNoValue
  <2>1. ASSUME NEW w \in Workers, CreateSave(w) PROVE SlugUnique'
    <3>1. PICK e \in EventIds \ Saved : event' = [event EXCEPT ![e] = req[w].event]
      BY <2>1 DEF CreateSave
    <3>2. \A f \in Saved : event[f].slug # req[w].event.slug
      BY <2>1 DEF CreateSave, Insertable, SlugFree
    <3>3. event'[e] = req[w].event /\ \A f \in EventIds \ {e} : event'[f] = event[f]
      BY <3>1 DEF TypeOK
    <3>4. QED
      BY <3>2, <3>3 DEF SlugUnique, Saved
  <2>2. ASSUME NEW w \in Workers, UpdateWrite(w) PROVE SlugUnique'
    <3> DEFINE e == req[w].id
    <3>1. e \in EventIds /\ event[e] \in Row
      BY <2>2 DEF UpdateWrite, Saved, TypeOK
    <3>2. event'[e].slug = event[e].slug
      BY <2>2, <3>1 DEF UpdateWrite, TypeOK, Overwrite, Row
    <3>3. \A f \in EventIds \ {e} : event'[f] = event[f]
      BY <2>2, <3>1 DEF UpdateWrite, TypeOK
    <3>4. e \in Saved
      BY <2>2 DEF UpdateWrite
    <3>5. QED
      BY <3>2, <3>3, <3>4 DEF SlugUnique, Saved
  <2>3. CASE UNCHANGED event
    BY <2>3 DEF SlugUnique, Saved
  <2>4. QED
    BY <2>1, <2>2, <2>3 DEF Next, Step, vars, CreateCheckSlug, CreateGrant,
                            UpdateLoad, UpdateAuthorize, Fail
<1>3. QED
  BY <1>1, <1>2, TypeCorrect, PTL DEF Spec

\* An event whose organizer was never recorded is never written again.
THEOREM OrphansStayDrafts == Spec => OrphanStaysDraft
<1>1. IInv /\ [Next]_vars =>
        [\A e \in EventIds : Orphaned(e) => Orphaned(e)' /\ event'[e] = event[e]]_vars
  <2> SUFFICES ASSUME IInv, [Next]_vars, NEW e \in EventIds, Orphaned(e)
               PROVE  Orphaned(e)' /\ event'[e] = event[e]
    OBVIOUS
  <2> USE NoneIsNoValue
  <2>1. e \in Saved /\ TypeOK
    BY DEF Orphaned, Saved, IInv
  <2>2. event[e].createdBy \in Users
    BY <2>1 DEF Saved, TypeOK, Row
  \* Nobody holds an authorised update of e, so nobody writes it.
  <2>3. \A w \in Workers : req[w].pc = "write" => req[w].id # e
    BY <2>2 DEF Orphaned, IInv, RequestsOK, WriteOK
  <2>4. event'[e] = event[e]
    BY <2>1, <2>3 DEF Next, Step, vars, CreateCheckSlug, CreateSave, CreateGrant,
                      UpdateLoad, UpdateAuthorize, UpdateWrite, Fail, TypeOK, Saved
  <2>5. ~ \E u \in Users : <<u, e, "organizer">> \in roles'
    <3>1. \A w \in Workers : CreateGrant(w) => req[w].id # e
      BY DEF CreateGrant, Orphaned
    <3>2. ASSUME NEW w \in Workers, CreateGrant(w), NEW u \in Users
          PROVE  <<u, e, "organizer">> \in roles' => <<u, e, "organizer">> \in roles
      <4>1. roles' = roles \cup {<<req[w].user, req[w].id, "organizer">>}
        BY <3>2 DEF CreateGrant
      <4>2. <<u, e, "organizer">> # <<req[w].user, req[w].id, "organizer">>
        BY <3>1, <3>2
      <4>3. QED
        BY <4>1, <4>2
    <3>3. (\E w \in Workers : CreateGrant(w)) \/ roles' = roles
      BY DEF Next, Step, vars, CreateCheckSlug, CreateSave, UpdateLoad,
             UpdateAuthorize, UpdateWrite, Fail
    <3>4. QED
      BY <3>2, <3>3 DEF Orphaned
  <2>6. ~ \E w \in Workers : req'[w].pc = "grant" /\ req'[w].id = e
    <3>1. ASSUME NEW w \in Workers, CreateSave(w), NEW v \in Workers,
                 req'[v].pc = "grant", req'[v].id = e
          PROVE  FALSE
      <4>1. PICK f \in EventIds \ Saved :
              req' = [req EXCEPT ![w].pc = "grant", ![w].id = f]
        BY <3>1 DEF CreateSave
      <4>2. req[w] \in [pc: {"save"}, user: Users, id: {None}, event: Row]
        BY <2>1, <3>1 DEF CreateSave, TypeOK, Request, Idle
      <4>3. req'[w].id = f
        BY <2>1, <4>1, <4>2 DEF TypeOK
      <4>4. v # w
        BY <2>1, <3>1, <4>3
      <4>5. req'[v] = req[v]
        BY <2>1, <4>1, <4>4 DEF TypeOK
      <4>6. QED
        BY <3>1, <4>5 DEF Orphaned
    <3>2. ASSUME NEW w \in Workers, UpdateAuthorize(w), NEW v \in Workers
          PROVE  req'[v].pc # "grant" \/ req'[v] = req[v]
      <4>1. req[w] \in [pc: {"grant", "authorize", "write"}, user: Users,
                        id: EventIds, event: Row]
        BY <2>1, <3>2 DEF UpdateAuthorize, TypeOK, Request, Idle
      <4>2. req'[w].pc = "write" /\ (v # w => req'[v] = req[v])
        BY <2>1, <3>2, <4>1 DEF UpdateAuthorize, TypeOK
      <4>3. QED
        BY <4>2
    <3>3. QED
      BY <2>1, <3>1, <3>2 DEF Orphaned, Next, Step, vars, CreateCheckSlug, CreateGrant,
              UpdateLoad, UpdateWrite, Fail, TypeOK, Idle
  <2>7. QED
    BY <2>4, <2>5, <2>6, <2>1, NoneIsNoValue DEF Orphaned
<1>2. QED
  BY <1>1, Inductive, PTL DEF Spec, OrphanStaysDraft

---------------------------------------------------------------------------
(* The life cycle and the team size, for any number of goroutines *)

Resizable == {"draft", "registration_open"}

\* What a request holds was put together from the row the table still has.
Fresh(w) ==
    /\ req[w].pc = "authorize" => req[w].event = event[req[w].id]
    /\ req[w].pc = "write" =>
         LET old == event[req[w].id]
             new == req[w].event
         IN  /\ old.status = new.status \/ <<old.status, new.status>> \in Edges
             /\ \/ old.maxTeamSize = new.maxTeamSize
                \/ {old.status, new.status} \subseteq Resizable

\* That is true of every request no other update has overtaken.
FreshUnlessOvertaken == \A w \in Workers \ overtaken : Fresh(w)

\* Nothing leads into a status that allows resizing but one that does.
LEMMA ResizableFromResizable ==
    \A s, t : <<s, t>> \in Edges /\ t \in Resizable => s \in Resizable
BY DEF Edges, Resizable

\* UpdateAuthorize makes a fresh request to write of a fresh copy.
LEMMA AuthorizeKeepsFresh ==
    ASSUME IInv, NEW w \in Workers, Fresh(w), UpdateAuthorize(w)
    PROVE  Fresh(w)'
<1> USE NoneIsNoValue
<1>1. TypeOK
  BY DEF IInv
<1>2. PICK s \in Requested \cup {None}, size \in TeamSizes \cup {None},
           d \in Deadlines \cup {None} :
        /\ MayTransition(req[w].event, s)
        /\ MayResize(Transition(req[w].event, s), size)
        /\ req' = [req EXCEPT ![w].pc = "write", ![w].event =
                       Amend(Transition(req[w].event, s), size, d)]
  BY DEF UpdateAuthorize
<1> DEFINE old == req[w].event
           row == Amend(Transition(old, s), size, d)
<1>3. old = event[req[w].id] /\ old \in Row
  BY DEF UpdateAuthorize, Fresh, IInv, RequestsOK, AuthorizeOK
<1>4. /\ row.status = IF s = None THEN old.status ELSE s
      /\ Transition(old, s).status = row.status
      /\ row.maxTeamSize = IF size = None THEN old.maxTeamSize ELSE size
  BY <1>3 DEF Amend, Transition, Row
<1>5. old.status = row.status \/ <<old.status, row.status>> \in Edges
  BY <1>2, <1>4 DEF MayTransition
<1>6. old.maxTeamSize = row.maxTeamSize \/ {old.status, row.status} \subseteq Resizable
  <2>1. CASE size = None
    BY <1>4, <2>1
  <2>2. CASE row.status \in Resizable
    BY <1>5, <2>2, ResizableFromResizable
  <2>3. QED
    BY <1>2, <1>4, <2>1, <2>2 DEF MayResize, Resizable
<1>7. req[w] \in [pc: {"grant", "authorize", "write"}, user: Users, id: EventIds, event: Row]
  BY <1>1 DEF TypeOK, UpdateAuthorize, Request, Idle
<1>8. req'[w].pc = "write" /\ req'[w].id = req[w].id /\ req'[w].event = row
  <2>1. req'[w] = [req[w] EXCEPT !.pc = "write", !.event = row]
    BY <1>1, <1>2 DEF TypeOK
  <2>2. QED
    BY <1>7, <2>1
<1>9. event' = event
  BY DEF UpdateAuthorize
<1>10. QED
  BY <1>3, <1>5, <1>6, <1>8, <1>9 DEF Fresh

\* A write overtakes whoever has loaded the same row: the other requests that
\* are still fresh afterwards find their row unchanged.
LEMMA OthersStayFresh ==
    ASSUME IInv, FreshUnlessOvertaken, NEW w \in Workers, Step(w),
           NEW v \in Workers \ overtaken', v # w
    PROVE  Fresh(v)'
<1> USE NoneIsNoValue
<1>1. TypeOK
  BY DEF IInv
<1>2. req'[v] = req[v]
  BY <1>1 DEF Step, CreateCheckSlug, CreateSave, CreateGrant, UpdateLoad,
              UpdateAuthorize, UpdateWrite, Fail, TypeOK
<1>3. v \notin overtaken
  BY DEF Step, CreateCheckSlug, CreateSave, CreateGrant, UpdateLoad, UpdateAuthorize,
         UpdateWrite, Fail
<1>4. ASSUME req[v].pc \in {"authorize", "write"} PROVE event'[req[v].id] = event[req[v].id]
  <2>1. req[v].id \in Saved /\ req[v].id \in EventIds
    BY <1>4 DEF IInv, RequestsOK, AuthorizeOK, WriteOK, Saved
  <2>2. CASE CreateSave(w)
    BY <1>1, <2>1, <2>2 DEF CreateSave, TypeOK
  <2>3. CASE UpdateWrite(w)
    <3>1. req[v].id # req[w].id
      BY <1>4, <2>3 DEF UpdateWrite, Updating
    <3>2. QED
      BY <1>1, <2>1, <2>3, <3>1 DEF UpdateWrite, TypeOK
  <2>4. QED
    BY <2>2, <2>3 DEF Step, CreateCheckSlug, CreateGrant, UpdateLoad, UpdateAuthorize, Fail
<1>5. Fresh(v)
  BY <1>3 DEF FreshUnlessOvertaken
<1>6. QED
  BY <1>2, <1>4, <1>5 DEF Fresh

\* Every step keeps the fresh requests fresh.
LEMMA FreshStep == IInv /\ FreshUnlessOvertaken /\ [Next]_vars => FreshUnlessOvertaken'
<1> SUFFICES ASSUME IInv, FreshUnlessOvertaken, [Next]_vars PROVE FreshUnlessOvertaken'
  OBVIOUS
<1> USE NoneIsNoValue
<1>1. TypeOK
  BY DEF IInv
<1>2. ASSUME NEW w \in Workers, Step(w), w \notin overtaken' PROVE Fresh(w)'
  <2>1. CASE CreateCheckSlug(w) \/ CreateGrant(w) \/ UpdateWrite(w) \/ Fail(w)
    <3>1. req'[w].pc \in {"idle", "save"}
      BY <1>1, <2>1 DEF CreateCheckSlug, CreateGrant, UpdateWrite, Fail, TypeOK, Idle
    <3>2. QED
      BY <3>1 DEF Fresh
  <2>2. CASE CreateSave(w)
    <3>1. req[w] \in [pc: {"save"}, user: Users, id: {None}, event: Row]
      BY <1>1, <2>2 DEF CreateSave, TypeOK, Request, Idle
    <3>2. req'[w].pc = "grant"
      BY <1>1, <2>2, <3>1 DEF CreateSave, TypeOK
    <3>3. QED
      BY <3>2 DEF Fresh
  <2>3. CASE UpdateLoad(w)
    BY <1>1, <2>3 DEF UpdateLoad, TypeOK, Fresh
  <2>4. CASE UpdateAuthorize(w)
    <3>1. Fresh(w)
      BY <1>2, <2>4 DEF UpdateAuthorize, FreshUnlessOvertaken
    <3>2. QED
      BY <2>4, <3>1, AuthorizeKeepsFresh
  <2>5. QED
    BY <1>2, <2>1, <2>2, <2>3, <2>4 DEF Step
<1>3. ASSUME NEW w \in Workers, Step(w) PROVE FreshUnlessOvertaken'
  BY <1>2, <1>3, OthersStayFresh DEF FreshUnlessOvertaken
<1>4. CASE UNCHANGED vars
  BY <1>4 DEF vars, FreshUnlessOvertaken, Fresh
<1>5. QED
  BY <1>3, <1>4 DEF Next

\* In every reachable state, the requests that are not overtaken are fresh.
LEMMA AlwaysFresh == Spec => []FreshUnlessOvertaken
<1>1. Init => FreshUnlessOvertaken
  BY DEF Init, FreshUnlessOvertaken, Fresh, Idle
<1>2. QED
  BY <1>1, FreshStep, Inductive, PTL DEF Spec

\* The row after an update is written.
LEMMA WrittenRow ==
    ASSUME IInv, NEW w \in Workers, UpdateWrite(w)
    PROVE  LET e == req[w].id IN
           /\ e \in Saved /\ e \in EventIds
           /\ event[e] \in Row /\ req[w].event \in Row /\ event'[e] \in Row
           /\ event'[e].status = req[w].event.status
           /\ event'[e].maxTeamSize = req[w].event.maxTeamSize
           /\ \A f \in EventIds \ {e} : event'[f] = event[f]
<1> DEFINE e == req[w].id
<1>1. TypeOK
  BY DEF IInv
<1>2. e \in Saved /\ e \in EventIds /\ event[e] \in Row /\ req[w].event \in Row
  BY <1>1, NoneIsNoValue DEF UpdateWrite, IInv, RequestsOK, WriteOK, Saved, TypeOK
<1>3. event' = [event EXCEPT ![e] = Overwrite(event[e], req[w].event)]
  BY DEF UpdateWrite
<1>4. event'[e] = Overwrite(event[e], req[w].event) /\ \A f \in EventIds \ {e} : event'[f] = event[f]
  BY <1>1, <1>2, <1>3 DEF TypeOK
<1>5. /\ Overwrite(event[e], req[w].event) \in Row
      /\ Overwrite(event[e], req[w].event).status = req[w].event.status
      /\ Overwrite(event[e], req[w].event).maxTeamSize = req[w].event.maxTeamSize
  BY <1>2, RowAfterOverwrite DEF Overwrite, Row
<1>6. QED
  BY <1>2, <1>4, <1>5

\* However many updates overlap, crash or fail, an event goes through its life
\* cycle (I15): the one step outside is a write that another update overtook.
THEOREM UpdatesFollowLifecycle == Spec => FollowsLifecycle
<1>1. Init => Lifecycle!Init
  BY DEF Init, Lifecycle!Init, StatusColumn
<1>2. IInv /\ FreshUnlessOvertaken /\ [Next]_vars => [Lifecycle!Next \/ LostUpdate]_StatusColumn
  <2> SUFFICES ASSUME IInv, FreshUnlessOvertaken, [Next]_vars
               PROVE  Lifecycle!Next \/ LostUpdate \/ StatusColumn' = StatusColumn
    OBVIOUS
  <2> USE NoneIsNoValue
  <2>1. TypeOK
    BY DEF IInv
  <2>2. ASSUME NEW w \in Workers, CreateSave(w) PROVE Lifecycle!Next
    <3>1. PICK e \in EventIds \ Saved : event' = [event EXCEPT ![e] = req[w].event]
      BY <2>2 DEF CreateSave
    <3>2. req[w].event \in Row /\ req[w].event.status = "draft"
      BY <2>2 DEF CreateSave, IInv, RequestsOK, SaveOK
    <3>3. StatusColumn' = [StatusColumn EXCEPT ![e] = "draft"]
      BY <2>1, <3>1, <3>2 DEF TypeOK, StatusColumn
    <3>4. StatusColumn[e] = None
      BY <3>1 DEF Saved, StatusColumn
    <3>5. Lifecycle!Create(e)
      BY <3>3, <3>4 DEF Lifecycle!Create
    <3>6. QED
      BY <3>5 DEF Lifecycle!Next
  <2>3. ASSUME NEW w \in Workers \ overtaken, UpdateWrite(w)
        PROVE  Lifecycle!Next \/ StatusColumn' = StatusColumn
    <3> DEFINE e == req[w].id
               s == req[w].event.status
    <3>1. /\ e \in EventIds /\ event[e] \in Row /\ event'[e] \in Row
          /\ s \in Statuses /\ event'[e].status = s
          /\ \A f \in EventIds \ {e} : event'[f] = event[f]
      BY <2>3, WrittenRow DEF Row
    <3>2. event[e].status = s \/ <<event[e].status, s>> \in Edges
      BY <2>3 DEF UpdateWrite, FreshUnlessOvertaken, Fresh
    <3>3. StatusColumn' = [StatusColumn EXCEPT ![e] = s] /\ StatusColumn[e] = event[e].status
      BY <2>1, <3>1 DEF TypeOK, StatusColumn
    <3>4. CASE event[e].status = s
      <4>1. StatusColumn' = StatusColumn
        BY <3>1, <3>3, <3>4 DEF StatusColumn
      <4>2. QED
        BY <4>1
    <3>5. CASE <<event[e].status, s>> \in Edges
      <4>1. Lifecycle!Advance(e, s)
        BY <3>3, <3>5 DEF Lifecycle!Advance, Lifecycle!Edges, Edges
      <4>2. s \in Lifecycle!Statuses
        BY <3>1 DEF Lifecycle!Statuses, Statuses
      <4>3. QED
        BY <3>1, <4>1, <4>2 DEF Lifecycle!Next, Lifecycle!Advance
    <3>6. QED
      BY <3>2, <3>4, <3>5
  <2>4. CASE event' = event
    BY <2>4 DEF StatusColumn
  <2>5. ASSUME NEW w \in Workers, UpdateWrite(w)
        PROVE  Lifecycle!Next \/ LostUpdate \/ StatusColumn' = StatusColumn
    BY <2>3, <2>5 DEF LostUpdate
  <2>6. QED
    BY <2>2, <2>4, <2>5 DEF Next, Step, vars, CreateCheckSlug, CreateGrant,
                            UpdateLoad, UpdateAuthorize, Fail
<1>3. QED
  BY <1>1, <1>2, AlwaysFresh, Inductive, PTL DEF Spec, FollowsLifecycle

\* The team size is not changed once registration is over, unless the update
\* that changes it was overtaken by another.
THEOREM SizesAreFrozen == Spec => SizeFrozenAfterRegistration
<1>1. IInv /\ FreshUnlessOvertaken /\ [Next]_vars =>
        [\A e \in Saved : event'[e].maxTeamSize # event[e].maxTeamSize =>
           \/ {event[e].status, event'[e].status} \subseteq {"draft", "registration_open"}
           \/ LostUpdate]_vars
  <2> SUFFICES ASSUME IInv, FreshUnlessOvertaken, Next, NEW e \in Saved,
                      event'[e].maxTeamSize # event[e].maxTeamSize
               PROVE  \/ {event[e].status, event'[e].status} \subseteq Resizable
                      \/ LostUpdate
    BY DEF Resizable
  <2>1. TypeOK /\ e \in EventIds
    BY DEF IInv, Saved
  <2>2. PICK w \in Workers : CreateSave(w) \/ UpdateWrite(w)
    BY DEF Next, Step, CreateCheckSlug, CreateGrant, UpdateLoad, UpdateAuthorize, Fail
  <2>3. CASE CreateSave(w)
    BY <2>1, <2>3 DEF CreateSave, Saved, TypeOK
  <2>4. CASE UpdateWrite(w) /\ w \notin overtaken
    <3>1. /\ req[w].id = e /\ req[w].pc = "write"
          /\ event'[e].status = req[w].event.status
          /\ event'[e].maxTeamSize = req[w].event.maxTeamSize
      BY <2>1, <2>4, WrittenRow DEF UpdateWrite
    <3>2. QED
      BY <2>4, <3>1 DEF FreshUnlessOvertaken, Fresh
  <2>5. QED
    BY <2>2, <2>3, <2>4 DEF LostUpdate
<1>2. QED
  BY <1>1, AlwaysFresh, Inductive, PTL DEF Spec, SizeFrozenAfterRegistration
=============================================================================
