-------------------------------- MODULE Teams --------------------------------
(* The teams component: registering for an event, unregistering, and         *)
(* creating a team, served by concurrent goroutines against one Postgres.    *)
(*                                                                           *)
(* As in Events, each SQL statement commits alone and a request is the       *)
(* sequence of its statements.  The events and who organizes or judges them  *)
(* belong to other components; they change here only through Organizer and   *)
(* Appoint.                                                                  *)
EXTENDS EventDomain

CONSTANTS
    Workers, Users, EventIds, TeamIds, Names, Codes,
    EventStatuses,   \* statuses the events go through
    None

TeamRow == [event: EventIds, name: Names, inviteCode: Codes, createdBy: Users]

Idle == [pc |-> "idle"]

\* A request waits to run the statement pc names: register asks for each role
\* in turn ("judge", "organizer", "participant") and then grants.
Request == {Idle}
    \cup [pc: {"judge", "organizer", "participant", "grant", "hasTeam", "revoke",
               "getRole", "saveTeam"}, user: Users, event: EventIds]
    \cup [pc: {"addMember"}, user: Users, event: EventIds, team: TeamIds]

ASSUME KnownStatuses == EventStatuses \subseteq Statuses
ASSUME NoneIsNoTeam == None \notin TeamRow

VARIABLES
    status,    \* events.status of each event
    closed,    \* events whose registration_closes_at has passed
    roles,     \* table event_roles: <<user, event, role>>
    team,      \* table teams: id -> row or None
    members,   \* table team_members: <<user, team>>
    req,       \* what each goroutine holds of the request it serves
    overtaken  \* history: goroutines whose check another request has undone since

vars == <<status, closed, roles, team, members, req, overtaken>>
eventVars == <<status, closed>>

Saved == {t \in TeamIds : team[t] # None}

Init ==
    /\ status \in [EventIds -> EventStatuses]
    /\ closed = {}
    /\ roles \in SUBSET (Users \X EventIds \X {"judge", "organizer"})
    /\ team = [t \in TeamIds |-> None]
    /\ members = {}
    /\ req = [w \in Workers |-> Idle]
    /\ overtaken = {}

Goto(w, pc) == req' = [req EXCEPT ![w].pc = pc]

Done(w) == req' = [req EXCEPT ![w] = Idle]

---------------------------------------------------------------------------
(* POST /events/{slug}/register: RegisterService.Register *)

\* Mutant: only the deadline is looked at.
CheckCanRegister_AnyStatus(e) == status[e] \in Statuses /\ e \notin closed
CheckCanRegister(e) == status[e] = "registration_open" /\ e \notin closed

Register(w) ==
    /\ req[w].pc = "idle"
    /\ \E u \in Users, e \in EventIds :
         /\ CheckCanRegister(e)
         /\ req' = [req EXCEPT ![w] = [pc |-> "judge", user |-> u, event |-> e]]
    /\ UNCHANGED <<eventVars, roles, team, members, overtaken>>

\* Mutant: the loop over "judge" and "organizer" is gone.
Excluded_Never(u, e, role) == role = "participant" /\ <<u, e, role>> \in roles
Excluded(u, e, role) == <<u, e, role>> \in roles

AskNext == [judge |-> "organizer", organizer |-> "participant", participant |-> "grant"]

RegisterAsk(w) ==
    /\ req[w].pc \in DOMAIN AskNext
    /\ ~Excluded(req[w].user, req[w].event, req[w].pc)
    /\ Goto(w, AskNext[req[w].pc])
    /\ UNCHANGED <<eventVars, roles, team, members, overtaken>>

\* ON CONFLICT DO NOTHING: the loser of a race is told ErrDuplicate (Fail).
GrantParticipantRole(w) ==
    /\ req[w].pc = "grant"
    /\ <<req[w].user, req[w].event, "participant">> \notin roles
    /\ roles' = roles \cup {<<req[w].user, req[w].event, "participant">>}
    /\ Done(w)
    /\ UNCHANGED <<eventVars, team, members, overtaken>>

---------------------------------------------------------------------------
(* DELETE /events/{slug}/register: UnregisterService.Unregister; the status  *)
(* of the event is not looked at                                             *)

Unregister(w) ==
    /\ req[w].pc = "idle"
    /\ \E u \in Users, e \in EventIds :
         /\ <<u, e, "participant">> \in roles
         /\ req' = [req EXCEPT ![w] = [pc |-> "hasTeam", user |-> u, event |-> e]]
    /\ UNCHANGED <<eventVars, roles, team, members, overtaken>>

HasTeamInEvent(u, e) == \E m \in members : m[1] = u /\ team[m[2]].event = e

\* Mutant: the team is not looked for.
MayLeave_Always(u, e) == u \in Users /\ e \in EventIds
MayLeave(u, e) == ~HasTeamInEvent(u, e)

UnregisterAskTeam(w) ==
    /\ req[w].pc = "hasTeam"
    /\ MayLeave(req[w].user, req[w].event)
    /\ Goto(w, "revoke")
    /\ UNCHANGED <<eventVars, roles, team, members, overtaken>>

\* The other requests about the same user and event that wait to run one of
\* the statements pcs.
Others(w, pcs) ==
    {v \in Workers \ {w} : /\ req[v].pc \in pcs
                           /\ req[v].user = req[w].user /\ req[v].event = req[w].event}

RevokeParticipantRole(w) ==
    /\ req[w].pc = "revoke"
    /\ <<req[w].user, req[w].event, "participant">> \in roles
    /\ roles' = roles \ {<<req[w].user, req[w].event, "participant">>}
    /\ overtaken' = (overtaken \ {w}) \cup Others(w, {"saveTeam", "addMember"})
    /\ Done(w)
    /\ UNCHANGED <<eventVars, team, members>>

---------------------------------------------------------------------------
(* POST /events/{slug}/teams: CreateTeamService.Create *)

CreateTeam(w) ==
    /\ req[w].pc = "idle"
    /\ \E u \in Users, e \in EventIds :
         /\ status[e] = "registration_open"
         /\ req' = [req EXCEPT ![w] = [pc |-> "getRole", user |-> u, event |-> e]]
    /\ UNCHANGED <<eventVars, roles, team, members, overtaken>>

\* GetRole answers with any one of the caller's roles; mutant: having one is
\* enough.
IsParticipant_AnyRole(u, e) == \E role \in RoleNames : <<u, e, role>> \in roles
IsParticipant(u, e) == <<u, e, "participant">> \in roles

\* The lookups after this one (the caller's team, the name, three tries at a
\* free code) decide nothing: their errors are discarded, so a failed read
\* passes for "none found", and after three tries the last code is kept.
\* What refuses a duplicate is the index it meets in Save or AddMember.
CreateTeamRole(w) ==
    /\ req[w].pc = "getRole"
    /\ IsParticipant(req[w].user, req[w].event)
    /\ Goto(w, "saveTeam")
    /\ UNCHANGED <<eventVars, roles, team, members, overtaken>>

\* Unique indexes on (event_id, name) and on invite_code; mutant: the second
\* is dropped.
TeamInsertable_NoCodeIndex(row) ==
    \A t \in Saved : <<team[t].event, team[t].name>> # <<row.event, row.name>>
TeamInsertable(row) ==
    \A t \in Saved :
        /\ <<team[t].event, team[t].name>> # <<row.event, row.name>>
        /\ team[t].inviteCode # row.inviteCode

\* Mutant: the code is drawn and thrown away.
NewTeam_NoCode(e, u, name, code) ==
    [event |-> e, name |-> name, inviteCode |-> None,
     createdBy |-> u]
NewTeam(e, u, name, code) ==
    [event |-> e, name |-> name, inviteCode |-> code, createdBy |-> u]

\* The uuid is fresh; mutant: an insert that may overwrite a row.
Unused_Upsert(t) == t \in TeamIds
Unused(t) == t \in TeamIds \ Saved

SaveTeam(w) ==
    /\ req[w].pc = "saveTeam"
    /\ \E t \in TeamIds, name \in Names, code \in Codes :
         LET row == NewTeam(req[w].event, req[w].user, name, code) IN
         /\ Unused(t)
         /\ TeamInsertable(row)
         /\ team' = [team EXCEPT ![t] = row]
         /\ req' = [req EXCEPT ![w] = [pc |-> "addMember", user |-> req[w].user,
                                       event |-> req[w].event, team |-> t]]
    /\ UNCHANGED <<eventVars, roles, members, overtaken>>

\* Unique index on (user_id, event_id) of team_members; mutant: dropped.
MemberInsertable_NoIndex(u, e) == u \in Users /\ e \in EventIds
MemberInsertable(u, e) == ~HasTeamInEvent(u, e)

AddMember(w) ==
    /\ req[w].pc = "addMember"
    /\ MemberInsertable(req[w].user, req[w].event)
    /\ members' = members \cup {<<req[w].user, req[w].team>>}
    /\ overtaken' = (overtaken \ {w}) \cup Others(w, {"revoke"})
    /\ Done(w)
    /\ UNCHANGED <<eventVars, roles, team>>

---------------------------------------------------------------------------
(* The world outside these handlers *)

\* The pending statement fails, a check refuses, the client hangs up or the
\* process dies: the request ends and nothing is undone.
Fail(w) ==
    /\ req[w].pc # "idle"
    /\ Done(w)
    /\ overtaken' = overtaken \ {w}
    /\ UNCHANGED <<eventVars, roles, team, members>>

\* PATCH /events/{slug} and the clock.
Organizer ==
    /\ \E e \in EventIds, s \in EventStatuses : status' = [status EXCEPT ![e] = s]
    /\ closed' \in SUBSET EventIds
    /\ UNCHANGED <<roles, team, members, req, overtaken>>

\* POST /events: its last statement makes the creator an organizer, without
\* asking what other roles the user has by then.
Appoint ==
    /\ \E u \in Users, e \in EventIds : roles' = roles \cup {<<u, e, "organizer">>}
    /\ UNCHANGED <<eventVars, team, members, req, overtaken>>

Step(w) ==
    \/ Register(w) \/ RegisterAsk(w) \/ GrantParticipantRole(w)
    \/ Unregister(w) \/ UnregisterAskTeam(w) \/ RevokeParticipantRole(w)
    \/ CreateTeam(w) \/ CreateTeamRole(w) \/ SaveTeam(w) \/ AddMember(w)
    \/ Fail(w)

Next == (\E w \in Workers : Step(w)) \/ Organizer \/ Appoint

Spec == Init /\ [][Next]_vars

---------------------------------------------------------------------------
(* Properties *)

\* The tables and the requests hold what the code puts there, and a member's
\* team exists.
TypeOK ==
    /\ status \in [EventIds -> Statuses] /\ closed \subseteq EventIds
    /\ roles \subseteq Users \X EventIds \X RoleNames
    /\ team \in [TeamIds -> TeamRow \cup {None}]
    /\ members \subseteq Users \X Saved
    /\ req \in [Workers -> Request]
    /\ overtaken \subseteq Workers

\* I1: a user is in one team per event, though the lookup before the insert
\* decides nothing and the same user may create two teams at once.
OneTeamPerUser ==
    \A m, n \in members :
        m[1] = n[1] /\ team[m[2]].event = team[n[2]].event => m = n

\* A name stands for one team of an event, an invite code for one team at all,
\* though neither lookup decides and code generation gives up after three
\* tries.
NamesAndCodesUnique ==
    \A s, t \in Saved :
        \/ team[s].event = team[t].event /\ team[s].name = team[t].name
        \/ team[s].inviteCode = team[t].inviteCode
        => s = t

\* A registered member whose unregistration is not already past its check for
\* a team stays registered and a member: from here on every check sees the
\* team.
Settled(u, e) ==
    /\ <<u, e, "participant">> \in roles
    /\ HasTeamInEvent(u, e)
    /\ \A w \in Workers : req[w].pc = "revoke" => req[w].user # u \/ req[w].event # e

SettledStays ==
    [][\A u \in Users, e \in EventIds : Settled(u, e) => Settled(u, e)']_vars

\* A team that lost the request creating it never gets a member; its name and
\* code stay taken.
OrphanTeam(t) ==
    /\ team[t] # None
    /\ \A m \in members : m[2] # t
    /\ \A w \in Workers : req[w].pc = "addMember" => req[w].team # t

OrphanStaysEmpty ==
    [][\A t \in TeamIds : OrphanTeam(t) => OrphanTeam(t)' /\ team'[t] = team[t]]_vars

\* docs/state-machines/team.md: a team is created by a user registered for the
\* event, and unregistering is refused to one who has a team.  The code loses
\* it when an unregistration overlaps a team's creation.
MembersAreRegistered ==
    \A m \in members : <<m[1], team[m[2]].event, "participant">> \in roles

\* How far each user got, as the abstract life cycle sees it.
Stage == [u \in Users |-> [e \in EventIds |->
    LET registered == <<u, e, "participant">> \in roles IN
    IF HasTeamInEvent(u, e) THEN IF registered THEN "member" ELSE "stray"
                            ELSE IF registered THEN "registered" ELSE "out"]]

Lifecycle == INSTANCE Participation WITH stage <- Stage

\* A statement run on a check another request has undone since.
LateStatement == \E w \in overtaken : AddMember(w) \/ RevokeParticipantRole(w)

\* However requests interleave, crash or fail, each user registers, then has a
\* team, and leaves only without one; the one step outside that is made by a
\* request whose check another one has undone.
FollowsParticipation == Lifecycle!Init /\ [][Lifecycle!Next \/ LateStatement]_Stage
=============================================================================
