------------------------------ MODULE Platform ------------------------------
(* Events and Teams against one database: they share the events table, which *)
(* only Events writes, and event_roles, which Events fills with organizers   *)
(* and Teams with participants.  Their requests interleave freely.           *)
EXTENDS Events

CONSTANTS
    Visitors,               \* goroutines serving the teams component
    TeamIds, Names, Codes

VARIABLES
    closed, team, members,  \* as in Teams
    visit,                  \* what each visitor's goroutine holds
    overtakenVisits         \* history, as overtaken in Teams

\* What Teams reads of the events table.  Before there is a row the lookup finds
\* nothing and every request is refused, as it is for a draft.
Status == [e \in EventIds |-> IF event[e] = None THEN "draft" ELSE event[e].status]

T == INSTANCE Teams WITH Workers <- Visitors, EventStatuses <- Statuses,
                         status <- Status, req <- visit, overtaken <- overtakenVisits

ASSUME NoneIsNoTeam == None \notin T!TeamRow

teamVars == <<closed, team, members, visit, overtakenVisits>>
allVars == <<vars, teamVars>>

PlatformInit ==
    /\ Init
    /\ closed = {}
    /\ team = [t \in TeamIds |-> None]
    /\ members = {}
    /\ visit = [v \in Visitors |-> T!Idle]
    /\ overtakenVisits = {}

EventStep == (\E w \in Workers : Step(w)) /\ UNCHANGED teamVars

VisitorStep == UNCHANGED <<event, req, held, overtaken>> /\ (\E v \in Visitors : T!Step(v))

\* registration_closes_at passes, or an organizer moves it.
RegistrationCloses ==
    /\ closed' \in SUBSET EventIds
    /\ UNCHANGED <<vars, team, members, visit, overtakenVisits>>

PlatformNext == EventStep \/ VisitorStep \/ RegistrationCloses

PlatformSpec == PlatformInit /\ [][PlatformNext]_allVars

---------------------------------------------------------------------------
(* Properties *)

Organizes(u, e) == <<u, e, "organizer">> \in roles
TakesPart(u, e) == <<u, e, "participant">> \in roles

\* Nobody organizes an event and takes part in it.  Register asks before it
\* grants, Create grants without asking: it holds because nobody can open
\* registration before the organizer's role is in the table.
OrganizersDontTakePart ==
    \A u \in Users, e \in EventIds : ~(Organizes(u, e) /\ TakesPart(u, e))

\* Participants and teams belong to events whose registration was open once,
\* however often stale writes have taken the status back since.
OnlyPublishedEventsJoined ==
    /\ \A u \in Users, e \in EventIds :
         TakesPart(u, e) => "registration_open" \in held[e]
    /\ \A t \in TeamIds : team[t] # None => "registration_open" \in held[team[t].event]
=============================================================================
