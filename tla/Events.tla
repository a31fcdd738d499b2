------------------------------- MODULE Events -------------------------------
(* The events component: POST /events and PATCH /events/{slug}, as they run  *)
(* when several goroutines serve requests against one Postgres.              *)
(*                                                                           *)
(* Every SQL statement commits on its own (no handler opens a transaction),  *)
(* so a request is a short sequence of steps, one per statement that matters *)
(* to another request; what it has read is kept in req[w] and may be stale   *)
(* by the time it is written.  Any pending statement may fail (lost          *)
(* connection, client gone, constraint, a check that refuses, the process    *)
(* killed): Fail ends the request there and undoes nothing.                  *)
EXTENDS EventDomain, Integers

CONSTANTS
    Workers,      \* goroutines serving requests
    Users,
    Slugs,
    EventIds,     \* the uuids NewEvent may draw
    TeamSizes,    \* values a client sends as maxTeamSize
    Deadlines,    \* values a client sends as submissionDeadlineAt; it stands
                  \* for every field Update copies without looking at it
    Requested,    \* statuses a client asks for
    None

Sizes == TeamSizes \cup {5}

Row == [slug: Slugs, createdBy: Users, status: Statuses, maxTeamSize: Sizes,
        submissionDeadlineAt: Deadlines]

Idle == [pc |-> "idle", user |-> None, id |-> None, event |-> None]

Request == {Idle}
    \cup [pc: {"save"}, user: Users, id: {None}, event: Row]
    \cup [pc: {"grant", "authorize", "write"}, user: Users, id: EventIds, event: Row]

ASSUME SizesAreIntegers == TeamSizes \subseteq Int
ASSUME RequestedStatuses == Requested \subseteq Statuses
ASSUME NoneIsNoValue ==
    None \notin Row \cup Users \cup EventIds \cup Statuses \cup TeamSizes \cup Deadlines

VARIABLES
    event,   \* table events: id -> row, None while there is no such row
    roles,   \* table event_roles: <<user, event, role>>
    req,     \* what each goroutine holds of the request it serves
    held,    \* history: the statuses each event's row has ever had
    overtaken  \* history: goroutines whose loaded event another has updated since

vars == <<event, roles, req, held, overtaken>>

Saved == {e \in EventIds : event[e] # None}

Init ==
    /\ event = [e \in EventIds |-> None]
    /\ roles = {}
    /\ req = [w \in Workers |-> Idle]
    /\ held = [e \in EventIds |-> {}]
    /\ overtaken = {}

---------------------------------------------------------------------------
(* The constraints of table events (002_create_events.sql).                  *)

SlugFree(slug) == \A e \in Saved : event[e].slug # slug

\* CHECK (max_team_size BETWEEN 1 AND 10); mutant: dropped.
SizeInRange_Unchecked(row) == row.maxTeamSize \in Int
SizeInRange(row) == row.maxTeamSize \in 1..10

\* What INSERT INTO events accepts; mutant: no unique index on slug.
Insertable_NoIndex(row) == SizeInRange(row)
Insertable(row) == SlugFree(row.slug) /\ SizeInRange(row)

---------------------------------------------------------------------------
(* POST /events: CreateEventService.Create *)

NewEvent(slug, user, size, deadline) ==
    [slug |-> slug, createdBy |-> user, status |-> "draft",
     maxTeamSize |-> IF size < 1 THEN 5 ELSE size,
     submissionDeadlineAt |-> deadline]

CreateCheckSlug(w) ==
    /\ req[w].pc = "idle"
    /\ \E slug \in Slugs, u \in Users, size \in TeamSizes, d \in Deadlines :
         /\ SlugFree(slug)
         /\ req' = [req EXCEPT ![w] = [pc |-> "save", user |-> u, id |-> None,
                                       event |-> NewEvent(slug, u, size, d)]]
    /\ UNCHANGED <<event, roles, held, overtaken>>

\* The unique index on slug decides a race the check above cannot see.
CreateSave(w) ==
    /\ req[w].pc = "save"
    /\ Insertable(req[w].event)
    /\ \E e \in EventIds \ Saved :
         /\ event' = [event EXCEPT ![e] = req[w].event]
         /\ held' = [held EXCEPT ![e] = {req[w].event.status}]
         /\ req' = [req EXCEPT ![w].pc = "grant", ![w].id = e]
    /\ UNCHANGED <<roles, overtaken>>

CreateGrant(w) ==
    /\ req[w].pc = "grant"
    /\ roles' = roles \cup {<<req[w].user, req[w].id, "organizer">>}
    /\ req' = [req EXCEPT ![w] = Idle]
    /\ UNCHANGED <<event, held, overtaken>>

---------------------------------------------------------------------------
(* PATCH /events/{slug}: UpdateEventService.Update *)

UpdateLoad(w) ==
    /\ req[w].pc = "idle"
    /\ \E u \in Users, e \in Saved :
         req' = [req EXCEPT ![w] = [pc |-> "authorize", user |-> u, id |-> e,
                                    event |-> event[e]]]
    /\ UNCHANGED <<event, roles, held, overtaken>>

\* GetRole of the caller; mutant: trust the created_by column instead.
MayUpdate_Creator(u, e) == event[e].createdBy = u
MayUpdate(u, e) == <<u, e, "organizer">> \in roles

\* Transition, applied to the loaded row.
Transition(row, s) == IF s = None THEN row ELSE [row EXCEPT !.status = s]

\* Mutant: any status is accepted.
MayTransition_Any(row, s) == s = None \/ s \in Statuses
MayTransition(row, s) == s = None \/ <<row.status, s>> \in Edges

\* maxTeamSize is looked at after the transition, against the new status;
\* mutant: one status too many.
MayResize_Late(row, size) ==
    size = None \/ row.status \in {"draft", "registration_open", "submissions_open"}
MayResize(row, size) ==
    size = None \/ row.status \in {"draft", "registration_open"}

\* The fields the command carries replace those of the row.
Amend(row, size, d) ==
    [row EXCEPT !.maxTeamSize = IF size = None THEN @ ELSE size,
                !.submissionDeadlineAt = IF d = None THEN @ ELSE d]

\* GetRole and the rest of the in-memory work; the command's fields are
\* chosen here, where they are first used.
UpdateAuthorize(w) ==
    /\ req[w].pc = "authorize"
    /\ MayUpdate(req[w].user, req[w].id)
    /\ \E s \in Requested \cup {None}, size \in TeamSizes \cup {None},
          d \in Deadlines \cup {None} :
         LET row == Transition(req[w].event, s) IN
         /\ MayTransition(req[w].event, s)
         /\ MayResize(row, size)
         /\ req' = [req EXCEPT ![w].pc = "write", ![w].event = Amend(row, size, d)]
    /\ UNCHANGED <<event, roles, held, overtaken>>

\* UPDATE events SET ...: every column but the slug and the creator.
Overwrite(old, row) ==
    [old EXCEPT !.status = row.status, !.maxTeamSize = row.maxTeamSize,
                !.submissionDeadlineAt = row.submissionDeadlineAt]

\* The other updates that have loaded event e and not written it yet.
Updating(e, w) == {v \in Workers \ {w} : req[v].pc \in {"authorize", "write"} /\ req[v].id = e}

UpdateWrite(w) ==
    /\ req[w].pc = "write"
    /\ req[w].id \in Saved
    /\ SizeInRange(req[w].event)
    /\ event' = [event EXCEPT ![req[w].id] = Overwrite(@, req[w].event)]
    /\ held' = [held EXCEPT ![req[w].id] = @ \cup {req[w].event.status}]
    /\ overtaken' = (overtaken \ {w}) \cup Updating(req[w].id, w)
    /\ req' = [req EXCEPT ![w] = Idle]
    /\ UNCHANGED roles

---------------------------------------------------------------------------

Fail(w) ==
    /\ req[w].pc # "idle"
    /\ req' = [req EXCEPT ![w] = Idle]
    /\ overtaken' = overtaken \ {w}
    /\ UNCHANGED <<event, roles, held>>

Step(w) ==
    \/ CreateCheckSlug(w) \/ CreateSave(w) \/ CreateGrant(w)
    \/ UpdateLoad(w) \/ UpdateAuthorize(w) \/ UpdateWrite(w)
    \/ Fail(w)

Next == \E w \in Workers : Step(w)

Spec == Init /\ [][Next]_vars

---------------------------------------------------------------------------
(* Properties *)

\* Every table and every request in flight holds what the code puts there.
TypeOK ==
    /\ event \in [EventIds -> Row \cup {None}]
    /\ roles \subseteq Users \X EventIds \X RoleNames
    /\ req \in [Workers -> Request]
    /\ held \in [EventIds -> SUBSET Statuses]
    /\ overtaken \subseteq Workers
    /\ \A e \in Saved : event[e].maxTeamSize \in 1..10

\* Create reads the slug in one statement and inserts in another; however two
\* creates interleave, no slug names two events.
SlugUnique ==
    \A e, f \in Saved : event[e].slug = event[f].slug => e = f

\* An event leaves draft only through Update, which only its organizer passes,
\* and the organizer's row is written by a later statement than the event's:
\* a published event therefore has the creator as organizer, even when Create
\* failed halfway.
PublishedHasOrganizer ==
    \A e \in Saved :
        event[e].status # "draft" => <<event[e].createdBy, e, "organizer">> \in roles

\* Stale writes may take an event back (see NoStatusRegression), but never
\* past a state it has not been in: every status an event has had was reached
\* by an edge from another one it has had ("skipping" is forbidden by
\* docs/state-machines/event.md).
NoStatusSkipped ==
    \A e \in Saved :
        /\ event[e].status \in held[e]
        /\ \A s \in held[e] \ {"draft"} : \E p \in held[e] : <<p, s>> \in Edges

\* A create that saved the event and then failed to grant the role leaves a
\* draft nobody may ever edit, publish or remove: its slug is gone for good.
Orphaned(e) ==
    /\ event[e] # None
    /\ ~ \E u \in Users : <<u, e, "organizer">> \in roles
    /\ ~ \E w \in Workers : req[w].pc = "grant" /\ req[w].id = e

OrphanStaysDraft ==
    [][\A e \in EventIds : Orphaned(e) => Orphaned(e)' /\ event'[e] = event[e]]_vars

\* I15, "no backwards transitions": each change of status is an edge.  The
\* code does not keep it when two updates of one event overlap.
NoStatusRegression ==
    [][\A e \in Saved : event'[e].status # event[e].status =>
            <<event[e].status, event'[e].status>> \in Edges]_vars

\* An update writes the whole row back though another has written it since it
\* was loaded: the one way an event leaves its life cycle.
LostUpdate == \E w \in overtaken : UpdateWrite(w)

\* "maxTeamSize cannot be changed after registration closes" (update.go): who
\* changes the size finds the event in a state where that is allowed and
\* leaves it in one, unless another update came in between.
SizeFrozenAfterRegistration ==
    [][\A e \in Saved : event'[e].maxTeamSize # event[e].maxTeamSize =>
         \/ {event[e].status, event'[e].status} \subseteq {"draft", "registration_open"}
         \/ LostUpdate]_vars

\* The status column, as the abstract life cycle sees it.
StatusColumn == [e \in EventIds |-> IF event[e] = None THEN None ELSE event[e].status]

Lifecycle == INSTANCE EventLifecycle WITH status <- StatusColumn

\* However requests interleave, crash or fail, the events go through their life
\* cycle; an update that was overtaken by another is the only step outside it.
FollowsLifecycle ==
    Lifecycle!Init /\ [][Lifecycle!Next \/ LostUpdate]_StatusColumn
=============================================================================
