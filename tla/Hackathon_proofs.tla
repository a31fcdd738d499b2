--------------------------- MODULE Hackathon_proofs ---------------------------
(* Theorems about the compositions Platform and Hackathon.                    *)
(*                                                                           *)
(* First, each component keeps its specification in company: every behaviour *)
(* of the composed system, seen through the component's own variables, is a  *)
(* behaviour of the component.  What was proved of it alone then holds of    *)
(* the composition.  Second, what only the composition can promise, from an  *)
(* invariant that spans the components.                                      *)
EXTENDS Hackathon, TLAPS

\* What Events knows of event_roles: it reads and writes organizers only.
OrganizerRoles == {r \in roles : r[3] = "organizer"}

\* The three components with their theorems, each over the shared tables.
EP == INSTANCE Events_proofs WITH roles <- OrganizerRoles

TP == INSTANCE Teams_proofs WITH Workers <- Visitors, EventStatuses <- Statuses,
                                 status <- Status, req <- visit,
                                 overtaken <- overtakenVisits

SP == INSTANCE Submissions_proofs WITH
        Workers <- Authors, Teams <- TeamIds, EventStatuses <- Statuses,
        status <- Status[Contest], deadline <- Deadline, teamOf <- TeamOf, req <- entry,
        overtaken <- overtakenEntries

\* What Events assumes of the constants follows from what the system does.
LEMMA EventsAssumptions ==
    /\ TeamSizes \subseteq Int
    /\ Requested \subseteq EP!Statuses
    /\ None \notin EP!Row \cup Users \cup EventIds \cup EP!Statuses \cup TeamSizes \cup Deadlines
BY SizesAreIntegers, RequestedStatuses, NoneIsNoValue
   DEF Row, Statuses, Sizes, EP!Row, EP!Statuses, EP!Sizes

\* So does what Teams assumes.
LEMMA TeamsAssumptions ==
    Statuses \subseteq TP!Statuses /\ None \notin TP!TeamRow
BY NoneIsNoTeam DEF T!TeamRow, TP!TeamRow, Statuses, TP!Statuses

\* And what Submissions assumes.
LEMMA SubmissionsAssumptions ==
    /\ Horizon \in Nat /\ Admins \subseteq Users /\ Statuses \subseteq SP!Statuses
    /\ AuditInsertable \in BOOLEAN
    /\ None \notin SP!Row \cup Users \cup TeamIds \cup SubIds \cup SP!Times
BY HorizonIsNat, AdminsAreUsers, AuditIsBoolean, NoneIsNoValue, NoneIsNoSubmission
   DEF S!Row, SP!Row, S!Times, SP!Times, S!SubStatuses, SP!SubStatuses, Statuses, SP!Statuses

---------------------------------------------------------------------------
(* Events in company *)

\* Looking at the organizers' rows finds what looking at all of them does.
LEMMA OrganizersOnly ==
    \A u, e : <<u, e, "organizer">> \in OrganizerRoles <=> <<u, e, "organizer">> \in roles
BY DEF OrganizerRoles

\* A step of the component is a step of the component.
LEMMA EventsStep ==
    ASSUME NEW w \in Workers, Step(w)
    PROVE  EP!Step(w)
<1>1. CASE CreateGrant(w)
  <2>1. OrganizerRoles' = OrganizerRoles \cup {<<req[w].user, req[w].id, "organizer">>}
    BY <1>1 DEF CreateGrant, OrganizerRoles
  <2>2. EP!CreateGrant(w)
    BY <1>1, <2>1 DEF CreateGrant, EP!CreateGrant, Idle, EP!Idle
  <2>3. QED
    BY <2>2 DEF EP!Step
<1>2. CASE UpdateAuthorize(w)
  <2>1. EP!MayUpdate(req[w].user, req[w].id) /\ UNCHANGED OrganizerRoles
    BY <1>2, OrganizersOnly DEF UpdateAuthorize, MayUpdate, EP!MayUpdate, OrganizerRoles
  <2>2. EP!UpdateAuthorize(w)
    BY <1>2, <2>1 DEF UpdateAuthorize, EP!UpdateAuthorize, Transition, EP!Transition,
       MayTransition, EP!MayTransition, MayResize, EP!MayResize, Amend, EP!Amend, Edges, EP!Edges
  <2>3. QED
    BY <2>2 DEF EP!Step
<1>3. CASE CreateCheckSlug(w) \/ CreateSave(w) \/ UpdateLoad(w) \/ UpdateWrite(w) \/ Fail(w)
  <2>1. UNCHANGED OrganizerRoles
    BY <1>3 DEF CreateCheckSlug, CreateSave, UpdateLoad, UpdateWrite, Fail, OrganizerRoles
  <2>2. QED
    BY <1>3, <2>1 DEF CreateCheckSlug, CreateSave, UpdateLoad, UpdateWrite, Fail, Saved, SlugFree,
       Insertable, SizeInRange, NewEvent, Overwrite, Updating, Idle,
       EP!Step, EP!CreateCheckSlug, EP!CreateSave, EP!UpdateLoad, EP!UpdateWrite, EP!Fail, EP!Saved,
       EP!SlugFree, EP!Insertable, EP!SizeInRange, EP!NewEvent, EP!Overwrite, EP!Updating, EP!Idle
<1>4. QED
  BY <1>1, <1>2, <1>3 DEF Step

\* Nothing a visitor does is seen by Events: participants come and go, nobody
\* is made an organizer and nobody stops being one.
LEMMA VisitorsUnseen ==
    ASSUME NEW v \in Visitors, T!Step(v)
    PROVE  UNCHANGED OrganizerRoles
<1>1. CASE roles' = roles
  BY <1>1 DEF OrganizerRoles
<1>2. CASE T!GrantParticipantRole(v) \/ T!RevokeParticipantRole(v)
  <2>1. PICK r : r[3] = "participant" /\ (roles' = roles \cup {r} \/ roles' = roles \ {r})
    <3>1. <<visit[v].user, visit[v].event, "participant">>[3] = "participant"
      OBVIOUS
    <3>2. QED
      BY <1>2, <3>1 DEF T!GrantParticipantRole, T!RevokeParticipantRole
  <2>2. QED
    BY <2>1 DEF OrganizerRoles
<1>3. QED
  BY <1>1, <1>2 DEF T!Step, T!Register, T!RegisterAsk, T!Unregister, T!UnregisterAskTeam,
     T!CreateTeam, T!CreateTeamRole, T!SaveTeam, T!AddMember, T!Fail

\* Every step of the platform is a step of Events or leaves it alone.
LEMMA EventsNext == [PlatformNext]_allVars => [EP!Next]_(EP!vars)
<1>1. EventStep => EP!Next
  BY EventsStep DEF EventStep, EP!Next
<1>2. VisitorStep => UNCHANGED EP!vars
  BY VisitorsUnseen DEF VisitorStep, EP!vars
<1>3. RegistrationCloses \/ UNCHANGED allVars => UNCHANGED EP!vars
  BY DEF RegistrationCloses, allVars, vars, EP!vars, OrganizerRoles
<1>4. QED
  BY <1>1, <1>2, <1>3 DEF PlatformNext

\* The platform implements Events, whatever visitors do to the same tables.
THEOREM PlatformRefinesEvents == PlatformSpec => EP!Spec
<1>1. PlatformInit => EP!Init
  BY DEF PlatformInit, Init, EP!Init, OrganizerRoles, Idle, EP!Idle
<1>2. QED
  BY <1>1, EventsNext, PTL DEF PlatformSpec, EP!Spec

\* So what Events_proofs shows of Events holds of the platform.
LEMMA EventsInvariant == PlatformSpec => []EP!IInv
<1>1. EP!Spec => []EP!IInv
  BY EP!Inductive, EventsAssumptions
<1>2. QED
  BY <1>1, PlatformRefinesEvents, PTL

\* Slugs name one event, even though the check for a free one does not decide.
THEOREM SharedSlugsAreUnique == PlatformSpec => []SlugUnique
<1>1. EP!Spec => []EP!SlugUnique
  BY EP!SlugsAreUnique, EventsAssumptions
<1>2. EP!SlugUnique => SlugUnique
  BY DEF EP!SlugUnique, SlugUnique, EP!Saved, Saved
<1>3. QED
  BY <1>1, <1>2, PlatformRefinesEvents, PTL

\* A published event has its creator as organizer, and no visitor's request
\* takes the row away.
THEOREM SharedEventsHaveOrganizers == PlatformSpec => []PublishedHasOrganizer
<1>1. EP!IInv => PublishedHasOrganizer
  BY OrganizersOnly DEF EP!IInv, EP!PublishedHasOrganizer, PublishedHasOrganizer, EP!Saved, Saved
<1>2. QED
  BY <1>1, EventsInvariant, PTL

\* No event is in a status it skipped to, whoever visits it meanwhile.
THEOREM SharedStatusesAreNotSkipped == PlatformSpec => []NoStatusSkipped
<1>1. EP!IInv => NoStatusSkipped
  BY DEF EP!IInv, EP!NoStatusSkipped, NoStatusSkipped, EP!Saved, Saved, EP!Edges, Edges
<1>2. QED
  BY <1>1, EventsInvariant, PTL

\* An event without an organizer stays the draft it is: nothing a visitor does
\* gives it one.
THEOREM SharedOrphansStayDrafts == PlatformSpec => OrphanStaysDraft
<1>1. \A e : EP!Orphaned(e) <=> Orphaned(e)
  BY OrganizersOnly DEF EP!Orphaned, Orphaned
<1>2. \A e : EP!Orphaned(e)' <=> Orphaned(e)'
  <2>1. \A u, e : <<u, e, "organizer">> \in OrganizerRoles' <=> <<u, e, "organizer">> \in roles'
    BY DEF OrganizerRoles
  <2>2. QED
    BY <2>1 DEF EP!Orphaned, Orphaned
<1>3. ASSUME [\A e \in EventIds :
                 EP!Orphaned(e) => EP!Orphaned(e)' /\ event'[e] = event[e]]_(EP!vars)
      PROVE  [\A e \in EventIds : Orphaned(e) => Orphaned(e)' /\ event'[e] = event[e]]_vars
  <2>1. CASE UNCHANGED EP!vars
    BY <1>1, <1>2, <2>1 DEF EP!vars, EP!Orphaned
  <2>2. QED
    BY <1>1, <1>2, <1>3, <2>1
<1>4. EP!Spec => EP!OrphanStaysDraft
  BY EP!OrphansStayDrafts, EventsAssumptions
<1>5. QED
  BY <1>3, <1>4, PlatformRefinesEvents, PTL DEF EP!OrphanStaysDraft, OrphanStaysDraft

\* Events by itself loses an update only when the platform does: no step that
\* writes an event touches the participants, which Events does not see.
LEMMA LostTogether ==
    ASSUME EP!TypeOK, [PlatformNext]_allVars, EP!LostUpdate
    PROVE  LostUpdate
<1>1. PICK w \in overtaken : EP!UpdateWrite(w)
  BY DEF EP!LostUpdate
<1>2. w \in Workers /\ req[w].pc = "write" /\ req' = [req EXCEPT ![w] = EP!Idle]
  BY <1>1 DEF EP!TypeOK, EP!UpdateWrite
<1>3. req'[w] # req[w] /\ \A v \in Workers \ {w} : req'[v] = req[v]
  BY <1>2 DEF EP!TypeOK, EP!Idle
<1>4. PICK v \in Workers : Step(v)
  BY <1>2, <1>3 DEF PlatformNext, EventStep, VisitorStep, RegistrationCloses, allVars, vars
<1>5. ~CreateGrant(v)
  <2> SUFFICES ASSUME CreateGrant(v) PROVE FALSE
    OBVIOUS
  <2>1. req[v].pc = "grant" /\ req'[v].pc = "idle"
    BY DEF CreateGrant, EP!TypeOK, Idle
  <2>2. v = w
    BY <1>3, <2>1
  <2>3. QED
    BY <1>2, <2>1, <2>2
<1>6. roles' = roles
  BY <1>4, <1>5 DEF Step, CreateCheckSlug, CreateSave, UpdateLoad, UpdateAuthorize,
     UpdateWrite, Fail
<1>7. UpdateWrite(w)
  BY <1>1, <1>6 DEF UpdateWrite, EP!UpdateWrite, Saved, EP!Saved, SizeInRange, EP!SizeInRange,
     Overwrite, EP!Overwrite, Updating, EP!Updating, Idle, EP!Idle
<1>8. QED
  BY <1>1, <1>7 DEF LostUpdate

\* An event goes through its life cycle whatever its visitors do: the one step
\* outside is an update that another update overtook.
THEOREM SharedUpdatesFollowLifecycle == PlatformSpec => FollowsLifecycle
<1>1. EP!Spec => EP!FollowsLifecycle
  BY EP!UpdatesFollowLifecycle, EventsAssumptions
<1>2. EP!Lifecycle!Init => Lifecycle!Init
  BY DEF EP!Lifecycle!Init, Lifecycle!Init, EP!StatusColumn, StatusColumn
<1>3. EP!Lifecycle!Next => Lifecycle!Next
  BY DEF EP!Lifecycle!Next, Lifecycle!Next, EP!Lifecycle!Create, Lifecycle!Create,
     EP!Lifecycle!Advance, Lifecycle!Advance, EP!Lifecycle!Edges, Lifecycle!Edges,
     EP!Lifecycle!Statuses, Lifecycle!Statuses, EP!StatusColumn, StatusColumn
<1>4. /\ EP!IInv /\ [PlatformNext]_allVars
      /\ [EP!Lifecycle!Next \/ EP!LostUpdate]_(EP!StatusColumn)
      => [Lifecycle!Next \/ LostUpdate]_StatusColumn
  BY <1>3, LostTogether DEF EP!IInv, EP!StatusColumn, StatusColumn
<1>5. QED
  BY <1>1, <1>2, <1>4, PlatformRefinesEvents, EventsInvariant, PTL
     DEF PlatformSpec, EP!FollowsLifecycle, FollowsLifecycle

\* And the team size changes only while that is allowed, but for such an update.
THEOREM SharedSizesAreFrozen == PlatformSpec => SizeFrozenAfterRegistration
<1>1. EP!Spec => EP!SizeFrozenAfterRegistration
  BY EP!SizesAreFrozen, EventsAssumptions
<1>2. /\ EP!IInv /\ [PlatformNext]_allVars
      /\ [\A e \in EP!Saved : event'[e].maxTeamSize # event[e].maxTeamSize =>
             \/ {event[e].status, event'[e].status} \subseteq {"draft", "registration_open"}
             \/ EP!LostUpdate]_(EP!vars)
      => [\A e \in Saved : event'[e].maxTeamSize # event[e].maxTeamSize =>
             \/ {event[e].status, event'[e].status} \subseteq {"draft", "registration_open"}
             \/ LostUpdate]_vars
  BY LostTogether DEF EP!IInv, EP!vars, vars, EP!Saved, Saved
<1>3. QED
  BY <1>1, <1>2, PlatformRefinesEvents, EventsInvariant, PTL
     DEF PlatformSpec, EP!SizeFrozenAfterRegistration, SizeFrozenAfterRegistration

---------------------------------------------------------------------------
(* Teams in company *)

\* A visitor's step is a step of Teams.
LEMMA TeamsStep ==
    ASSUME NEW v \in Visitors, T!Step(v)
    PROVE  TP!Step(v)
BY DEF T!Step, T!Register, T!RegisterAsk, T!GrantParticipantRole, T!Unregister,
   T!UnregisterAskTeam, T!RevokeParticipantRole, T!CreateTeam, T!CreateTeamRole, T!SaveTeam,
   T!AddMember, T!Fail, T!CheckCanRegister, T!Excluded, T!AskNext, T!HasTeamInEvent, T!MayLeave,
   T!IsParticipant, T!TeamInsertable, T!NewTeam, T!Unused, T!Saved, T!MemberInsertable, T!Goto,
   T!Done, T!Others, T!Idle, T!eventVars,
   TP!Step, TP!Register, TP!RegisterAsk, TP!GrantParticipantRole, TP!Unregister,
   TP!UnregisterAskTeam, TP!RevokeParticipantRole, TP!CreateTeam, TP!CreateTeamRole, TP!SaveTeam,
   TP!AddMember, TP!Fail, TP!CheckCanRegister, TP!Excluded, TP!AskNext, TP!HasTeamInEvent,
   TP!MayLeave, TP!IsParticipant, TP!TeamInsertable, TP!NewTeam, TP!Unused, TP!Saved,
   TP!MemberInsertable, TP!Goto, TP!Done, TP!Others, TP!Idle, TP!eventVars

\* To visitors, an event's row is its status.
LEMMA StatusTyped == EP!TypeOK => Status \in [EventIds -> Statuses]
BY DEF EP!TypeOK, EP!Row, EP!Statuses, Status, Statuses

\* What a step of Events is to Teams: a status that changed, an organizer
\* appointed, or nothing.
LEMMA EventsSeenByTeams ==
    ASSUME EP!TypeOK, EP!TypeOK', closed \subseteq EventIds,
           NEW w \in Workers, Step(w), UNCHANGED teamVars
    PROVE  [TP!Next]_(TP!vars)
<1>1. UNCHANGED <<closed, team, members, visit, overtakenVisits>>
  BY DEF teamVars
<1>2. Status \in [EventIds -> Statuses] /\ Status' \in [EventIds -> Statuses]
  BY StatusTyped DEF EP!TypeOK, EP!Row, EP!Statuses, Status, Statuses
<1>3. ASSUME NEW e \in EventIds, NEW row, event' = [event EXCEPT ![e] = row], roles' = roles
      PROVE  TP!Organizer
  <2>1. \A f \in EventIds \ {e} : Status'[f] = Status[f]
    BY <1>3 DEF EP!TypeOK, Status
  <2>2. Status'[e] \in Statuses /\ Status' = [Status EXCEPT ![e] = Status'[e]]
    BY <1>2, <2>1
  <2>3. QED
    BY <1>1, <1>3, <2>2 DEF TP!Organizer
<1>4. CASE CreateSave(w) \/ UpdateWrite(w)
  <2>1. PICK e \in EventIds : \E row : event' = [event EXCEPT ![e] = row] /\ roles' = roles
    BY <1>4 DEF CreateSave, UpdateWrite, Saved
  <2>2. QED
    BY <1>3, <2>1 DEF TP!Next
<1>5. CASE CreateGrant(w)
  <2>1. req[w].user \in Users /\ req[w].id \in EventIds
    BY <1>5 DEF CreateGrant, EP!TypeOK, EP!Request, EP!Idle
  <2>2. TP!Appoint
    BY <1>1, <1>5, <2>1 DEF CreateGrant, TP!Appoint, TP!eventVars, Status
  <2>3. QED
    BY <2>2 DEF TP!Next
<1>6. CASE CreateCheckSlug(w) \/ UpdateLoad(w) \/ UpdateAuthorize(w) \/ Fail(w)
  BY <1>1, <1>6 DEF CreateCheckSlug, UpdateLoad, UpdateAuthorize, Fail, TP!vars, Status
<1>7. QED
  BY <1>4, <1>5, <1>6 DEF Step

\* Every step of the platform is a step of Teams or its surroundings.
LEMMA TeamsNext ==
    ASSUME EP!TypeOK, EP!TypeOK', closed \subseteq EventIds, [PlatformNext]_allVars
    PROVE  [TP!Next]_(TP!vars)
<1>1. CASE EventStep
  BY <1>1, EventsSeenByTeams DEF EventStep
<1>2. CASE VisitorStep
  BY <1>2, TeamsStep DEF VisitorStep, TP!Next
<1>3. CASE RegistrationCloses
  <2>1. Status' = Status /\ Status = [Status EXCEPT ![Contest] = Status[Contest]]
    BY <1>3, StatusTyped DEF RegistrationCloses, vars, Status
  <2>2. Status[Contest] \in Statuses
    BY StatusTyped, ContestIsEvent
  <2>3. TP!Organizer
    BY <1>3, <2>1, <2>2, ContestIsEvent DEF RegistrationCloses, vars, TP!Organizer
  <2>4. QED
    BY <2>3 DEF TP!Next
<1>4. CASE UNCHANGED allVars
  BY <1>4 DEF allVars, vars, teamVars, TP!vars, Status
<1>5. QED
  BY <1>1, <1>2, <1>3, <1>4 DEF PlatformNext

\* Nobody is anything to an event at first.
LEMMA TeamsInit == PlatformInit => TP!Init
BY DEF PlatformInit, Init, TP!Init, Status, Statuses, T!Idle, TP!Idle

\* The platform implements Teams: what Teams leaves to its surroundings is what
\* Events does.
THEOREM PlatformRefinesTeams == PlatformSpec => TP!Spec
<1>1. TP!Init => TP!IInv
  BY TP!InductiveInit, TeamsAssumptions
<1>2. TP!IInv /\ [TP!Next]_(TP!vars) => TP!IInv'
  BY TP!InductiveStep, TeamsAssumptions
<1>3. EP!IInv /\ EP!IInv' /\ TP!IInv /\ [PlatformNext]_allVars => [TP!Next]_(TP!vars)
  BY TeamsNext DEF EP!IInv, TP!IInv, TP!TypeOK
<1>4. QED
  BY <1>1, <1>2, <1>3, TeamsInit, EventsInvariant, PTL DEF PlatformSpec, TP!Spec

\* So what Teams_proofs shows of Teams holds of the platform.
LEMMA TeamsInvariant == PlatformSpec => []TP!IInv
<1>1. TP!Spec => []TP!IInv
  BY TP!Inductive, TeamsAssumptions
<1>2. QED
  BY <1>1, PlatformRefinesTeams, PTL

\* The shared tables hold what their two writers put there.
THEOREM PlatformTypeCorrect == PlatformSpec => []TypeOK
<1>1. EP!IInv /\ TP!IInv => TypeOK
  BY DEF EP!IInv, EP!TypeOK, TP!IInv, TP!TypeOK, TypeOK, EP!Row, Row, EP!Statuses, Statuses,
     EP!Sizes, Sizes, EP!Request, Request, EP!Idle, Idle, EP!Saved, Saved, TP!RoleNames, RoleNames
<1>2. QED
  BY <1>1, EventsInvariant, TeamsInvariant, PTL

\* A user is in one team per event while organizers rewrite the event.
THEOREM SharedUsersHaveOneTeam == PlatformSpec => []T!OneTeamPerUser
<1>1. TP!IInv => T!OneTeamPerUser
  BY DEF TP!IInv, TP!OneTeamPerUser, T!OneTeamPerUser
<1>2. QED
  BY <1>1, TeamsInvariant, PTL

\* A settled member stays registered and a member: no organizer's step undoes
\* either.
THEOREM SharedSettledMembersStay == PlatformSpec => T!SettledStays
<1>1. TP!Spec => TP!SettledStays
  BY TP!SettledMembersStay, TeamsAssumptions
<1>2. TP!SettledStays => T!SettledStays
  BY PTL DEF TP!SettledStays, T!SettledStays, TP!Settled, T!Settled, TP!HasTeamInEvent,
     T!HasTeamInEvent, TP!vars, T!vars
<1>3. QED
  BY <1>1, <1>2, PlatformRefinesTeams, PTL

\* Users register, get a team and leave in that order whatever organizers do:
\* the one step outside is made on a check that another request has undone.
THEOREM SharedRequestsFollowParticipation == PlatformSpec => T!FollowsParticipation
<1>1. TP!Spec => TP!FollowsParticipation
  BY TP!UsersFollowParticipation, TeamsAssumptions
<1>2. TP!Stage = T!Stage /\ TP!Stage' = T!Stage'
  BY DEF TP!Stage, T!Stage, TP!HasTeamInEvent, T!HasTeamInEvent
<1>3. TP!Lifecycle!Init => T!Lifecycle!Init
  BY <1>2 DEF TP!Lifecycle!Init, T!Lifecycle!Init
<1>4. TP!Lifecycle!Next => T!Lifecycle!Next
  BY <1>2 DEF TP!Lifecycle!Next, T!Lifecycle!Next, TP!Lifecycle!Move, T!Lifecycle!Move,
     TP!Lifecycle!Moves, T!Lifecycle!Moves, TP!Lifecycle!Stages, T!Lifecycle!Stages
<1>5. TP!LateStatement => T!LateStatement
  BY DEF TP!LateStatement, T!LateStatement, TP!AddMember, T!AddMember, TP!RevokeParticipantRole,
     T!RevokeParticipantRole, TP!MemberInsertable, T!MemberInsertable, TP!HasTeamInEvent,
     T!HasTeamInEvent, TP!Others, T!Others, TP!Done, T!Done, TP!Idle, T!Idle, TP!eventVars,
     T!eventVars
<1>6. [TP!Lifecycle!Next \/ TP!LateStatement]_(TP!Stage)
      => [T!Lifecycle!Next \/ T!LateStatement]_(T!Stage)
  BY <1>2, <1>4, <1>5
<1>7. QED
  BY <1>1, <1>3, <1>6, PlatformRefinesTeams, PTL DEF TP!FollowsParticipation, T!FollowsParticipation

---------------------------------------------------------------------------
(* Events and Teams together: who may join what                              *)

\* Registration for e has been open, and its organizer is in event_roles.
Opened(e) ==
    /\ e \in Saved
    /\ Organizes(event[e].createdBy, e)
    /\ "registration_open" \in held[e]

\* Registration for e has been open, and it is not u who created e.
Outsider(u, e) == Opened(e) /\ u # event[e].createdBy

\* Whoever's request got past the check of the status knows that the event was
\* opened; past the question "organizer?", or the one for the participant's
\* role, that the caller did not create it.
VisitOK(q) ==
    /\ q.pc \in {"judge", "organizer", "getRole"} => Opened(q.event)
    /\ q.pc \in {"participant", "grant", "saveTeam", "addMember"} => Outsider(q.user, q.event)

ParticipantsOK == \A u \in Users, e \in EventIds : TakesPart(u, e) => Outsider(u, e)

TeamsOK == \A t \in TeamIds : team[t] # None => Opened(team[t].event)

MembersOK == \A m \in members : Outsider(m[1], team[m[2]].event)

JoinInv == (\A v \in Visitors : VisitOK(visit[v])) /\ ParticipantsOK /\ TeamsOK /\ MembersOK

\* An event that has been open has been open for ever, and keeps its creator.
LEMMA OpenedStays ==
    ASSUME EP!IInv, [PlatformNext]_allVars
    PROVE  \A e \in EventIds : Opened(e) =>
               /\ e \in Saved' /\ event'[e].createdBy = event[e].createdBy
               /\ <<event[e].createdBy, e, "organizer">> \in roles'
               /\ "registration_open" \in held'[e]
<1>1. /\ \A e \in EP!Saved : /\ e \in EP!Saved'
                            /\ event'[e].createdBy = event[e].createdBy
                            /\ held[e] \subseteq held'[e]
      /\ OrganizerRoles \subseteq OrganizerRoles'
  BY EventsNext, EP!StableFacts, EventsAssumptions DEF EP!IInv
<1>2. QED
  BY <1>1, OrganizersOnly DEF Opened, Organizes, OrganizerRoles, EP!Saved, Saved

\* Whoever finds the event open finds its organizer in place: nobody else could
\* have opened it.
LEMMA OpenEventsAreOpened ==
    ASSUME EP!IInv, NEW e \in EventIds, Status[e] = "registration_open"
    PROVE  Opened(e)
<1>1. e \in Saved /\ event[e].status = "registration_open"
  BY DEF Status, Saved
<1>2. Organizes(event[e].createdBy, e)
  BY <1>1, OrganizersOnly DEF EP!IInv, EP!PublishedHasOrganizer, EP!Saved, Saved, Organizes
<1>3. "registration_open" \in held[e]
  BY <1>1 DEF EP!IInv, EP!NoStatusSkipped, EP!Saved, Saved
<1>4. QED
  BY <1>1, <1>2, <1>3 DEF Opened

\* What is true of the tables and the visits stays true if whatever is added
\* to them is sound.
LEMMA SoundAdditions ==
    ASSUME EP!IInv, TP!IInv, TP!IInv', JoinInv, [PlatformNext]_allVars,
           \A v \in Visitors : VisitOK(visit'[v]),
           \A u \in Users, e \in EventIds :
               <<u, e, "participant">> \in roles' => TakesPart(u, e) \/ Outsider(u, e),
           \A t \in TeamIds : team'[t] # None => team'[t] = team[t] \/ Opened(team'[t].event),
           \A m \in members' :
               \/ m \in members /\ team'[m[2]] = team[m[2]]
               \/ Outsider(m[1], team'[m[2]].event)
    PROVE  JoinInv'
<1>1. \A e \in EventIds : Opened(e) => Opened(e)' /\ event'[e].createdBy = event[e].createdBy
  BY OpenedStays DEF Opened, Organizes
<1>2. \A v \in Visitors : visit'[v].pc # "idle" => visit'[v].event \in EventIds
  BY DEF TP!IInv, TP!TypeOK, TP!Request, TP!Idle
<1>3. ASSUME NEW v \in Visitors PROVE VisitOK(visit[v])'
  <2>1. PICK q : q = visit'[v]
    OBVIOUS
  <2>2. VisitOK(q) /\ (q.pc # "idle" => q.event \in EventIds)
    BY <1>2, <2>1
  <2>3. q.pc \in {"judge", "organizer", "participant", "grant", "getRole", "saveTeam",
                   "addMember"} =>
          Opened(q.event)' /\ event'[q.event].createdBy = event[q.event].createdBy
    BY <1>1, <2>2 DEF VisitOK, Outsider
  <2>4. VisitOK(q)'
    BY <2>2, <2>3 DEF VisitOK, Outsider
  <2>5. QED
    BY <2>1, <2>4 DEF VisitOK
<1>4. ParticipantsOK'
  BY <1>1 DEF JoinInv, ParticipantsOK, TakesPart, Outsider
<1>5. TeamsOK'
  <2>1. \A t \in TeamIds : team'[t] # None => team'[t].event \in EventIds /\ Opened(team'[t].event)
    BY DEF JoinInv, TeamsOK, TP!IInv, TP!TypeOK, TP!TeamRow
  <2>2. QED
    BY <1>1, <2>1 DEF TeamsOK
<1>6. MembersOK'
  <2>1. \A m \in members' : Outsider(m[1], team'[m[2]].event)
    BY DEF JoinInv, MembersOK
  <2>2. \A m \in members' : team'[m[2]].event \in EventIds
    BY TeamsAssumptions DEF TP!IInv, TP!TypeOK, TP!TeamRow, TP!Saved
  <2>3. QED
    BY <1>1, <2>1, <2>2 DEF MembersOK, Outsider
<1>7. QED
  BY <1>3, <1>4, <1>5, <1>6 DEF JoinInv

\* A visitor that moves on, or a new one, knows what its next step needs.
LEMMA VisitorMoves ==
    ASSUME EP!IInv, TP!IInv, JoinInv, NEW v \in Visitors,
           \/ TP!Register(v) \/ TP!RegisterAsk(v) \/ TP!Unregister(v) \/ TP!UnregisterAskTeam(v)
           \/ TP!CreateTeam(v) \/ TP!CreateTeamRole(v) \/ TP!Fail(v)
    PROVE  VisitOK(visit'[v])
<1> USE TeamsAssumptions
<1>1. TP!TypeOK /\ VisitOK(visit[v])
  BY DEF TP!IInv, JoinInv
<1>2. CASE TP!Register(v) \/ TP!CreateTeam(v)
  <2>1. PICK pc \in {"judge", "getRole"}, u \in Users, e \in EventIds :
          /\ Status[e] = "registration_open"
          /\ visit' = [visit EXCEPT ![v] = [pc |-> pc, user |-> u, event |-> e]]
    BY <1>2 DEF TP!Register, TP!CheckCanRegister, TP!CreateTeam
  <2>2. visit'[v] = [pc |-> pc, user |-> u, event |-> e]
    BY <1>1, <2>1, TP!AskKeepsType
  <2>3. QED
    BY <2>1, <2>2, OpenEventsAreOpened DEF VisitOK
<1>3. CASE TP!Unregister(v)
  <2>1. PICK u \in Users, e \in EventIds :
          visit' = [visit EXCEPT ![v] = [pc |-> "hasTeam", user |-> u, event |-> e]]
    BY <1>3 DEF TP!Unregister
  <2>2. visit'[v].pc = "hasTeam"
    BY <1>1, <2>1, TP!AskKeepsType
  <2>3. QED
    BY <2>2 DEF VisitOK
<1>4. CASE TP!RegisterAsk(v)
  <2>1. visit[v].pc \in {"judge", "organizer", "participant"} /\ Opened(visit[v].event)
    BY <1>1, <1>4 DEF TP!RegisterAsk, TP!AskNext, VisitOK, Outsider
  <2>2. TP!AskNext[visit[v].pc] \in {"organizer", "participant", "grant"}
    BY <2>1 DEF TP!AskNext
  <2>3. /\ visit'[v].pc = TP!AskNext[visit[v].pc]
        /\ visit'[v].user = visit[v].user /\ visit'[v].event = visit[v].event
    BY <1>1, <1>4, <2>1, <2>2, TP!AskingRequest, TP!GotoKeepsType DEF TP!RegisterAsk
  \* The creator is an organizer by now and does not get past that question.
  <2>4. visit[v].pc = "organizer" => visit[v].user # event[visit[v].event].createdBy
    BY <1>4, <2>1 DEF TP!RegisterAsk, TP!Excluded, Opened, Organizes
  <2>5. TP!AskNext[visit[v].pc] \in {"participant", "grant"} =>
          visit[v].pc \in {"organizer", "participant"}
    BY <2>1 DEF TP!AskNext
  <2>6. QED
    BY <1>1, <2>1, <2>2, <2>3, <2>4, <2>5 DEF VisitOK, Outsider
<1>5. CASE TP!UnregisterAskTeam(v) \/ TP!CreateTeamRole(v)
  <2>1. /\ visit[v] \in TP!Asking
        /\ visit'[v].pc \in {"revoke", "saveTeam"}
        /\ visit'[v].user = visit[v].user /\ visit'[v].event = visit[v].event
    BY <1>1, <1>5, TP!AskingRequest, TP!GotoKeepsType DEF TP!UnregisterAskTeam, TP!CreateTeamRole
  <2>2. visit'[v].pc = "saveTeam" => TP!CreateTeamRole(v)
    BY <1>1, <1>5, TP!AskingRequest, TP!GotoKeepsType DEF TP!UnregisterAskTeam
  \* Whoever takes part in the event has not created it.
  <2>3. visit'[v].pc = "saveTeam" => Outsider(visit[v].user, visit[v].event)
    BY <2>1, <2>2 DEF TP!CreateTeamRole, TP!IsParticipant, TP!Asking, JoinInv, ParticipantsOK,
       TakesPart
  <2>4. QED
    BY <2>1, <2>3 DEF VisitOK
<1>6. CASE TP!Fail(v)
  BY <1>1, <1>6, TP!DoneKeepsType DEF TP!Fail, TP!Idle, VisitOK
<1>7. QED
  BY <1>2, <1>3, <1>4, <1>5, <1>6

\* Every visitor's step adds only what is sound.
LEMMA VisitorAdds ==
    ASSUME EP!IInv, TP!IInv, JoinInv, NEW v \in Visitors, TP!Step(v)
    PROVE  /\ \A x \in Visitors : VisitOK(visit'[x])
           /\ \A u \in Users, e \in EventIds :
                <<u, e, "participant">> \in roles' => TakesPart(u, e) \/ Outsider(u, e)
           /\ \A t \in TeamIds :
                team'[t] # None => team'[t] = team[t] \/ Opened(team'[t].event)
           /\ \A m \in members' :
                \/ m \in members /\ team'[m[2]] = team[m[2]]
                \/ Outsider(m[1], team'[m[2]].event)
<1> USE TeamsAssumptions
<1>1. TP!TypeOK /\ \A x \in Visitors : VisitOK(visit[x])
  BY DEF TP!IInv, JoinInv
<1>2. ASSUME VisitOK(visit'[v]), \A x \in Visitors \ {v} : visit'[x] = visit[x]
      PROVE  \A x \in Visitors : VisitOK(visit'[x])
  BY <1>1, <1>2
<1>3. CASE \/ TP!Register(v) \/ TP!RegisterAsk(v) \/ TP!Unregister(v) \/ TP!UnregisterAskTeam(v)
           \/ TP!CreateTeam(v) \/ TP!CreateTeamRole(v) \/ TP!Fail(v)
  <2>1. TP!Advances(v) /\ VisitOK(visit'[v])
    BY <1>1, <1>3, TP!Advancing, VisitorMoves
  <2>2. UNCHANGED <<roles, team, members>> /\ \A x \in Visitors \ {v} : visit'[x] = visit[x]
    BY <2>1 DEF TP!Advances
  <2>3. QED
    BY <1>2, <2>1, <2>2 DEF TakesPart
<1>4. CASE TP!GrantParticipantRole(v) \/ TP!RevokeParticipantRole(v)
  <2>1. \A x \in Visitors : VisitOK(visit'[x])
    BY <1>1, <1>2, <1>4, TP!WritingRoles DEF TP!Idle, VisitOK
  <2>2. CASE TP!RevokeParticipantRole(v)
    BY <2>1, <2>2 DEF TP!RevokeParticipantRole, TakesPart
  <2>3. CASE TP!GrantParticipantRole(v)
    <3>1. Outsider(visit[v].user, visit[v].event)
      BY <1>1, <2>3 DEF TP!GrantParticipantRole, VisitOK
    <3>2. /\ roles' = roles \cup {<<visit[v].user, visit[v].event, "participant">>}
          /\ UNCHANGED <<team, members>>
      BY <2>3 DEF TP!GrantParticipantRole
    <3>3. QED
      BY <2>1, <3>1, <3>2 DEF TakesPart
  <2>4. QED
    BY <1>4, <2>2, <2>3
<1>5. CASE TP!SaveTeam(v)
  <2>1. PICK t \in TeamIds \ TP!Saved, row \in TP!TeamRow :
             /\ row.event = visit[v].event
             /\ team' = [team EXCEPT ![t] = row]
             /\ visit'[v] = [pc |-> "addMember", user |-> visit[v].user,
                             event |-> visit[v].event, team |-> t]
             /\ \A x \in Visitors \ {v} : visit'[x] = visit[x]
    BY <1>1, <1>5, TP!SavingTeam
  <2>2. /\ UNCHANGED <<roles, members>>
        /\ Outsider(visit[v].user, visit[v].event)
    BY <1>1, <1>5 DEF TP!SaveTeam, VisitOK
  <2>3. VisitOK(visit'[v])
    BY <2>1, <2>2 DEF VisitOK
  <2>4. \A x \in Visitors : VisitOK(visit'[x])
    BY <1>2, <2>1, <2>3
  <2>5. \A s \in TeamIds : team'[s] = IF s = t THEN row ELSE team[s]
    BY <1>1, <2>1 DEF TP!TypeOK
  <2>6. QED
    BY <1>1, <1>5, <2>1, <2>2, <2>5, <2>4, TP!NewTeamHasNoMembers DEF TakesPart, Outsider
<1>6. CASE TP!AddMember(v)
  <2>1. visit'[v] = TP!Idle /\ \A x \in Visitors \ {v} : visit'[x] = visit[x]
    BY <1>1, <1>6, TP!DoneKeepsType DEF TP!AddMember
  <2>2. \A x \in Visitors : VisitOK(visit'[x])
    BY <1>2, <2>1 DEF TP!Idle, VisitOK
  <2>3. /\ UNCHANGED <<roles, team>>
        /\ members' = members \cup {<<visit[v].user, visit[v].team>>}
        /\ team[visit[v].team].event = visit[v].event
    BY <1>6 DEF TP!AddMember, TP!IInv, TP!RequestsHoldTheirTeams, TP!HoldsItsTeam
  <2>4. Outsider(visit[v].user, visit[v].event)
    BY <1>1, <1>6 DEF TP!AddMember, VisitOK
  <2>5. \A m \in members' : m \in members \/ Outsider(m[1], team[m[2]].event)
    BY <2>3, <2>4
  <2>6. QED
    BY <2>2, <2>3, <2>5 DEF TakesPart
<1>7. QED
  BY <1>3, <1>4, <1>5, <1>6 DEF TP!Step

\* Events makes nobody a participant.
LEMMA EventsAddNoParticipants ==
    ASSUME NEW w \in Workers, Step(w), NEW u \in Users, NEW e \in EventIds,
           <<u, e, "participant">> \in roles'
    PROVE  TakesPart(u, e)
<1>1. CASE CreateGrant(w)
  <2>1. <<u, e, "participant">> # <<req[w].user, req[w].id, "organizer">>
    OBVIOUS
  <2>2. QED
    BY <1>1, <2>1 DEF CreateGrant, TakesPart
<1>2. CASE roles' = roles
  BY <1>2 DEF TakesPart
<1>3. QED
  BY <1>1, <1>2 DEF Step, CreateCheckSlug, CreateSave, UpdateLoad, UpdateAuthorize,
     UpdateWrite, Fail

\* Every step keeps the invariant.
LEMMA JoinInvStep ==
    ASSUME EP!IInv, TP!IInv, TP!IInv', JoinInv, [PlatformNext]_allVars
    PROVE  JoinInv'
<1>1. ASSUME UNCHANGED <<team, members, visit>>,
             \A u \in Users, e \in EventIds : <<u, e, "participant">> \in roles' => TakesPart(u, e)
      PROVE  JoinInv'
  BY <1>1, SoundAdditions DEF JoinInv
<1>2. CASE EventStep
  BY <1>1, <1>2, EventsAddNoParticipants DEF EventStep, teamVars
<1>3. CASE VisitorStep
  BY <1>3, TeamsStep, VisitorAdds, SoundAdditions DEF VisitorStep
<1>4. CASE RegistrationCloses \/ UNCHANGED allVars
  BY <1>1, <1>4 DEF RegistrationCloses, allVars, vars, teamVars, TakesPart
<1>5. QED
  BY <1>2, <1>3, <1>4 DEF PlatformNext

PlatformInv == EP!IInv /\ TP!IInv /\ JoinInv

\* PlatformInv holds in every reachable state of the composed system.
THEOREM PlatformInductive == PlatformSpec => []PlatformInv
<1>1. PlatformInit => JoinInv
  BY DEF PlatformInit, Init, JoinInv, VisitOK, ParticipantsOK, TeamsOK, MembersOK, TakesPart,
     T!Idle
<1>2. EP!IInv /\ TP!IInv /\ TP!IInv' /\ JoinInv /\ [PlatformNext]_allVars => JoinInv'
  BY JoinInvStep
<1>3. QED
  BY <1>1, <1>2, EventsInvariant, TeamsInvariant, PTL DEF PlatformSpec, PlatformInv

\* Nobody organizes an event and takes part in it, however the two components'
\* requests interleave and wherever they fail.
THEOREM OrganizersNeverTakePart == PlatformSpec => []OrganizersDontTakePart
<1>1. PlatformInv => OrganizersDontTakePart
  BY OrganizersOnly DEF PlatformInv, EP!IInv, EP!OrganizerIsCreator, JoinInv, ParticipantsOK,
     Outsider, OrganizersDontTakePart, Organizes
<1>2. QED
  BY <1>1, PlatformInductive, PTL

\* Nobody joins an event, and no team is made in one, that never opened.
THEOREM OnlyOpenedEventsJoined == PlatformSpec => []OnlyPublishedEventsJoined
<1>1. PlatformInv => OnlyPublishedEventsJoined
  BY DEF PlatformInv, JoinInv, ParticipantsOK, TeamsOK, Outsider, Opened, OnlyPublishedEventsJoined
<1>2. QED
  BY <1>1, PlatformInductive, PTL

---------------------------------------------------------------------------
(* Submissions in company *)

\* The whole system is a platform, to whoever does not look at submissions.
THEOREM HackathonRefinesPlatform == HackathonSpec => PlatformSpec
<1>1. HackathonInit => PlatformInit
  BY DEF HackathonInit
<1>2. [HackathonNext]_hackathonVars => [PlatformNext]_allVars
  BY DEF HackathonNext, PlatformMoves, AuthorMoves, TimePasses, hackathonVars
<1>3. QED
  BY <1>1, <1>2, PTL DEF HackathonSpec, PlatformSpec

\* An author's step is a step of Submissions.
LEMMA SubmissionsStep ==
    ASSUME NEW a \in Authors, S!Step(a)
    PROVE  SP!Step(a)
BY DEF S!Step, S!CreateCheck, S!CreateFindTeam, S!CreateSave, S!EditLoad, S!EditReadDeadline,
   S!EditCheck, S!SubmitCheck, S!Submit, S!EditWrite, S!DisqualifyLoad, S!DisqualifyWrite,
   S!DisqualifyAudit, S!Fail, S!NewDraftSubmission, S!HasTeam, S!CheckCanCreate, S!TeamFree,
   S!CanEdit, S!Revised, S!Overwrite, S!Others, S!Saved, S!Idle, S!eventVars,
   SP!Step, SP!CreateCheck, SP!CreateFindTeam, SP!CreateSave, SP!EditLoad, SP!EditReadDeadline,
   SP!EditCheck, SP!SubmitCheck, SP!Submit, SP!EditWrite, SP!DisqualifyLoad, SP!DisqualifyWrite,
   SP!DisqualifyAudit, SP!Fail, SP!NewDraftSubmission, SP!HasTeam, SP!CheckCanCreate, SP!TeamFree,
   SP!CanEdit, SP!Revised, SP!Overwrite, SP!Others, SP!Saved, SP!Idle, SP!eventVars

\* What the lookup of a team answers when the given teams are the user's.
Answer(teams) == IF teams = {} THEN None ELSE CHOOSE t \in teams : TRUE

\* TeamOf is that answer, before and after a step.
LEMMA TeamOfAnswers ==
    /\ TeamOf = [u \in Users |-> Answer(Membership(u))]
    /\ TeamOf' = [u \in Users |-> Answer(Membership(u)')]
BY DEF TeamOf, Answer

\* A user is in one team of the event, so that TeamOf finds all there is.
LEMMA OneMembership ==
    ASSUME TP!IInv, NEW u \in Users
    PROVE  /\ \A s, t \in Membership(u) : s = t
           /\ \A t \in Membership(u) : TeamOf[u] = t
           /\ Membership(u) = {} => TeamOf[u] = None
           /\ TeamOf[u] # None => TeamOf[u] \in Membership(u)
<1>1. \A s, t \in Membership(u) : s = t
  <2> SUFFICES ASSUME NEW s \in Membership(u), NEW t \in Membership(u) PROVE s = t
    OBVIOUS
  <2>1. <<u, s>> \in members /\ <<u, t>> \in members /\ team[s].event = team[t].event
    BY DEF Membership
  <2>2. <<u, s>> = <<u, t>>
    BY <2>1 DEF TP!IInv, TP!OneTeamPerUser
  <2>3. QED
    BY <2>2
<1>2. TeamOf[u] = IF Membership(u) = {} THEN None ELSE CHOOSE t \in Membership(u) : TRUE
  BY DEF TeamOf
<1>3. Membership(u) # {} => (CHOOSE t \in Membership(u) : TRUE) \in Membership(u)
  OBVIOUS
<1>4. QED
  BY <1>1, <1>2, <1>3

\* A step that adds no member of a team of the event leaves TeamOf alone.
LEMMA TeamOfStays ==
    ASSUME \A u \in Users : Membership(u)' = Membership(u)
    PROVE  TeamOf' = TeamOf
BY TeamOfAnswers

\* Only the last step of a team's creation gives anybody a team.
LEMMA TeamlessSteps ==
    ASSUME TP!IInv, [TP!Next]_(TP!vars), members' = members
    PROVE  TeamOf' = TeamOf
<1>1. \A t \in TP!Saved : team'[t] = team[t]
  BY TP!TablesGrow, TeamsAssumptions
<1>2. \A m \in members : m[2] \in TP!Saved
  BY DEF TP!IInv, TP!TypeOK
<1>3. None \notin TP!TeamRow /\ TP!TypeOK
  BY TeamsAssumptions DEF TP!IInv
<1>4. ASSUME NEW u \in Users PROVE Membership(u)' = Membership(u)
  <2>1. \A t \in TeamIds : <<u, t>> \in members => team'[t] = team[t]
    BY <1>1, <1>2
  <2>2. QED
    BY <2>1 DEF Membership
<1>5. QED
  BY <1>4, TeamOfStays

\* And then a user who had none gets one, or it is a team of another event.
LEMMA JoiningSteps ==
    ASSUME TP!IInv, NEW v \in Visitors, TP!AddMember(v)
    PROVE  \/ TeamOf' = TeamOf
           \/ \E u \in Users, t \in TeamIds :
                TeamOf[u] = None /\ TeamOf' = [TeamOf EXCEPT ![u] = t]
<1>1. PICK u \in Users, t \in TeamIds : u = visit[v].user /\ t = visit[v].team
  BY TP!AddingRequest, TeamsAssumptions DEF TP!AddMember, TP!IInv, TP!Adding
<1>2. /\ members' = members \cup {<<u, t>>} /\ team' = team
      /\ team[t] # None /\ team[t].event = visit[v].event
      /\ ~TP!HasTeamInEvent(u, visit[v].event)
  BY <1>1 DEF TP!AddMember, TP!MemberInsertable, TP!IInv, TP!RequestsHoldTheirTeams,
     TP!HoldsItsTeam
<1>3. \A x \in Users \ {u} : Membership(x)' = Membership(x)
  BY <1>2 DEF Membership
<1>4. CASE visit[v].event # Contest
  <2>1. Membership(u)' = Membership(u)
    BY <1>2, <1>4 DEF Membership
  <2>2. QED
    BY <1>3, <2>1, TeamOfStays
<1>5. CASE visit[v].event = Contest
  <2>1. Membership(u) = {}
    BY <1>2, <1>5 DEF TP!HasTeamInEvent, Membership
  <2>2. Membership(u)' = {t}
    <3>1. \A s \in TeamIds : <<u, s>> \in members' <=> <<u, s>> \in members \/ s = t
      BY <1>2
    <3>2. QED
      BY <1>2, <1>5, <2>1, <3>1 DEF Membership
  <2>3. TeamOf[u] = None
    BY <2>1 DEF TeamOf
  <2>4. TeamOf'[u] = t
    <3>1. TeamOf'[u] = CHOOSE s \in {t} : TRUE
      BY <2>2 DEF TeamOf
    <3>2. QED
      BY <3>1
  <2>5. \A x \in Users \ {u} : TeamOf'[x] = TeamOf[x]
    BY <1>3, TeamOfAnswers
  <2>6. TeamOf' = [TeamOf EXCEPT ![u] = t]
    BY <2>4, <2>5, TeamOfAnswers
  <2>7. QED
    BY <2>3, <2>6
<1>6. QED
  BY <1>4, <1>5

\* The deadline Submissions reads is a time.
LEMMA DeadlineTyped == EP!TypeOK => Deadline \in SP!Times
<1>1. \A row \in EP!Row : row.submissionDeadlineAt \in Deadlines
  BY DEF EP!Row
<1>2. Deadlines \subseteq SP!Times /\ 0 \in SP!Times
  BY DeadlinesAreTimes, HorizonIsNat DEF SP!Times
<1>3. EP!TypeOK => event[Contest] \in EP!Row \cup {None}
  BY ContestIsEvent DEF EP!TypeOK
<1>4. QED
  BY <1>1, <1>2, <1>3 DEF Deadline

\* A step of Events or Teams is, to Submissions, an organizer's patch or a user
\* who gets a team.
LEMMA PlatformSeenBySubmissions ==
    ASSUME EP!TypeOK, EP!TypeOK', TP!IInv, SP!TypeOK, PlatformMoves
    PROVE  SP!OrganizerPatch \/ SP!JoinTeam
<1>1. [PlatformNext]_allVars /\ UNCHANGED <<submission, audit, now, entry, overtakenEntries>>
  BY DEF PlatformMoves, submissionVars
<1>2. [TP!Next]_(TP!vars)
  BY <1>1, TeamsNext DEF TP!IInv, TP!TypeOK
<1>3. Status'[Contest] \in Statuses /\ Deadline' \in SP!Times
  <2>1. \A row \in EP!Row : row.submissionDeadlineAt \in Deadlines /\ row.status \in Statuses
    BY DEF EP!Row, EP!Statuses, Statuses
  <2>2. Deadlines \subseteq SP!Times /\ 0 \in SP!Times /\ "draft" \in Statuses
    BY DeadlinesAreTimes, HorizonIsNat DEF SP!Times, Statuses
  <2>3. event'[Contest] \in EP!Row \cup {None}
    BY ContestIsEvent DEF EP!TypeOK
  <2>4. QED
    BY <2>1, <2>2, <2>3, ContestIsEvent DEF Deadline, Status
<1>4. CASE TeamOf' = TeamOf
  BY <1>1, <1>3, <1>4 DEF SP!OrganizerPatch
<1>5. CASE \E v \in Visitors :
             TP!AddMember(v) /\ T!Step(v) /\ UNCHANGED <<event, req, held, overtaken>>
  <2>1. CASE TeamOf' = TeamOf
    BY <1>4, <2>1
  <2>2. CASE \E u \in Users, t \in TeamIds :
                TeamOf[u] = None /\ TeamOf' = [TeamOf EXCEPT ![u] = t]
    <3>1. UNCHANGED <<Status, Deadline>>
      BY <1>5 DEF Status, Deadline
    <3>2. QED
      BY <1>1, <2>2, <3>1 DEF SP!JoinTeam
  <2>3. QED
    BY <1>5, <2>1, <2>2, JoiningSteps
<1>6. CASE members' = members
  BY <1>2, <1>4, <1>6, TeamlessSteps
<1>7. members' = members \/
        \E v \in Visitors :
          TP!AddMember(v) /\ T!Step(v) /\ UNCHANGED <<event, req, held, overtaken>>
  <2>1. CASE VisitorStep
    <3>1. PICK v \in Visitors : T!Step(v) /\ TP!Step(v) /\ UNCHANGED <<event, req, held, overtaken>>
      BY <2>1, TeamsStep DEF VisitorStep
    <3>2. TP!AddMember(v) \/ members' = members
      BY <3>1 DEF TP!Step, TP!Register, TP!RegisterAsk, TP!GrantParticipantRole, TP!Unregister,
         TP!UnregisterAskTeam, TP!RevokeParticipantRole, TP!CreateTeam, TP!CreateTeamRole,
         TP!SaveTeam, TP!Fail
    <3>3. QED
      BY <3>1, <3>2
  <2>2. CASE EventStep \/ RegistrationCloses
    BY <2>2 DEF EventStep, RegistrationCloses, teamVars
  <2>3. QED
    BY <2>1, <2>2 DEF PlatformMoves, PlatformNext
<1>8. QED
  BY <1>5, <1>6, <1>7

\* Every step of the system is a step of Submissions or its surroundings.
LEMMA SubmissionsNext ==
    ASSUME EP!TypeOK, EP!TypeOK', TP!IInv, SP!TypeOK, [HackathonNext]_hackathonVars
    PROVE  [SP!Next]_(SP!vars)
<1>1. UNCHANGED allVars => UNCHANGED <<Status[Contest], Deadline, TeamOf>>
  BY TeamOfAnswers DEF allVars, vars, teamVars, Status, Deadline, Membership
<1>2. CASE PlatformMoves
  BY <1>2, PlatformSeenBySubmissions DEF SP!Next
<1>3. CASE AuthorMoves
  BY <1>3, SubmissionsStep DEF AuthorMoves, SP!Next
<1>4. CASE TimePasses
  <2>1. SP!Tick
    BY <1>4 DEF TimePasses, S!Tick, SP!Tick
  <2>2. QED
    BY <2>1 DEF SP!Next
<1>5. CASE UNCHANGED hackathonVars
  BY <1>1, <1>5 DEF hackathonVars, submissionVars, SP!vars
<1>6. QED
  BY <1>2, <1>3, <1>4, <1>5 DEF HackathonNext

\* At first there are no events, no members and no submissions.
LEMMA SubmissionsInit == HackathonInit => SP!Init
<1> SUFFICES ASSUME HackathonInit PROVE SP!Init
  OBVIOUS
<1>1. event[Contest] = None /\ members = {}
  BY ContestIsEvent DEF HackathonInit, PlatformInit, Init
<1>2. Status[Contest] = "draft" /\ Deadline = 0
  BY <1>1, ContestIsEvent DEF Status, Deadline
<1>3. TeamOf = [u \in Users |-> None]
  <2>1. \A u \in Users : Membership(u) = {}
    BY <1>1 DEF Membership
  <2>2. QED
    BY <2>1, TeamOfAnswers DEF Answer
<1>4. QED
  BY <1>2, <1>3, HorizonIsNat DEF HackathonInit, SP!Init, Statuses, SP!Times, S!Idle, SP!Idle

\* The whole system implements Submissions: status and deadline move as the
\* organizer's patches say, and who gets a team had none and keeps it.
THEOREM HackathonRefinesSubmissions == HackathonSpec => SP!Spec
<1>1. SP!Init => SP!TypeOK
  BY SP!TypeInit, SubmissionsAssumptions
<1>2. SP!TypeOK /\ [SP!Next]_(SP!vars) => SP!TypeOK'
  BY SP!TypeStep, SubmissionsAssumptions
<1>3. PlatformInv /\ PlatformInv' /\ SP!TypeOK /\ [HackathonNext]_hackathonVars
        => [SP!Next]_(SP!vars)
  BY SubmissionsNext DEF PlatformInv, EP!IInv
<1>4. QED
  BY <1>1, <1>2, <1>3, SubmissionsInit, HackathonRefinesPlatform, PlatformInductive, PTL
     DEF HackathonSpec, SP!Spec

\* So what Submissions_proofs shows of Submissions holds of the whole system.
LEMMA SubmissionsInvariant == HackathonSpec => []SP!IInv
<1>1. SP!Spec => []SP!IInv
  BY SP!Inductive, SubmissionsAssumptions
<1>2. QED
  BY <1>1, HackathonRefinesSubmissions, PTL

\* A team submits once while its members come from another component.
THEOREM SharedTeamsSubmitOnce == HackathonSpec => []S!OneSubmissionPerTeam
<1>1. SP!Spec => []SP!OneSubmissionPerTeam
  BY SP!TeamsSubmitOnce, SubmissionsAssumptions
<1>2. SP!OneSubmissionPerTeam => S!OneSubmissionPerTeam
  BY DEF SP!OneSubmissionPerTeam, S!OneSubmissionPerTeam, SP!Saved, S!Saved
<1>3. QED
  BY <1>1, <1>2, HackathonRefinesSubmissions, PTL

\* An entry that is locked for good stays so, even if its organizer opens
\* submissions again or moves the deadline.
THEOREM SharedLockedRowsStayLocked == HackathonSpec => S!LockedStaysLocked
<1>1. SP!Spec => SP!LockedStaysLocked
  BY SP!LockedRowsStayLocked, SubmissionsAssumptions
<1>2. SP!LockedStaysLocked => S!LockedStaysLocked
  BY PTL DEF SP!LockedStaysLocked, S!LockedStaysLocked, SP!Locked, S!Locked, SP!vars, S!vars
<1>3. QED
  BY <1>1, <1>2, HackathonRefinesSubmissions, PTL

\* An entry whose deadline has passed with no request past the check stays
\* closed while the organizer leaves the deadline alone, whatever else happens
\* to the event.
THEOREM SharedDeadlinesHold == HackathonSpec => S!DeadlineHolds
<1>1. SP!Spec => SP!DeadlineHolds
  BY SP!DeadlinesHold, SubmissionsAssumptions
<1>2. SP!DeadlineHolds => S!DeadlineHolds
  BY PTL DEF SP!DeadlineHolds, S!DeadlineHolds, SP!Closed, S!Closed, SP!vars, S!vars
<1>3. QED
  BY <1>1, <1>2, HackathonRefinesSubmissions, PTL

\* An entry goes through its life cycle whatever organizers and visitors do: the
\* one step outside is a write that another request overtook.
THEOREM SharedEntriesFollowLifecycle == HackathonSpec => S!FollowsLifecycle
<1>1. SP!Spec => SP!FollowsLifecycle
  BY SP!RequestsFollowLifecycle, SubmissionsAssumptions
<1>2. \A f : SP!Column(f) = S!Column(f) /\ SP!Column(f)' = S!Column(f)'
  BY DEF SP!Column, S!Column
<1>3. SP!Lifecycle!Init => S!Lifecycle!Init
  BY <1>2 DEF SP!Lifecycle!Init, S!Lifecycle!Init
<1>4. SP!Lifecycle!Next => S!Lifecycle!Next
  BY <1>2 DEF SP!Lifecycle!Next, S!Lifecycle!Next, SP!Lifecycle!Create, S!Lifecycle!Create,
     SP!Lifecycle!Edit, S!Lifecycle!Edit, SP!Lifecycle!HandIn, S!Lifecycle!HandIn,
     SP!Lifecycle!Disqualify, S!Lifecycle!Disqualify
<1>5. SP!LostUpdate => S!LostUpdate
  BY DEF SP!LostUpdate, S!LostUpdate, SP!EditWrite, S!EditWrite, SP!DisqualifyWrite,
     S!DisqualifyWrite, SP!Saved, S!Saved, SP!Overwrite, S!Overwrite, SP!Others, S!Others,
     SP!Idle, S!Idle, SP!eventVars, S!eventVars
<1>6. [SP!Lifecycle!Next \/ SP!LostUpdate]_<<SP!Column("status"), SP!Column("text")>>
      => [S!Lifecycle!Next \/ S!LostUpdate]_<<S!Column("status"), S!Column("text")>>
  BY <1>2, <1>4, <1>5
<1>7. QED
  BY <1>1, <1>3, <1>6, HackathonRefinesSubmissions, PTL DEF SP!FollowsLifecycle, S!FollowsLifecycle

---------------------------------------------------------------------------
(* Events, Teams and Submissions together: where an entry comes from          *)

\* The event has been open for submissions.
Submittable == Contest \in Saved /\ "submissions_open" \in held[Contest]

\* A team of the event that somebody is in.
Staffed(t) ==
    /\ t \in TeamIds /\ team[t] # None /\ team[t].event = Contest
    /\ \E u \in Users : <<u, t>> \in members

\* True of every entry, and of every entry about to be written; whoever looks
\* for their team has seen the event open.
EntryInv ==
    /\ \A a \in Authors : entry[a].pc = "team" => Submittable
    /\ \A a \in Authors : entry[a].pc = "save" => Submittable /\ Staffed(entry[a].sub.team)
    /\ \A s \in SubIds : submission[s] # None => Submittable /\ Staffed(submission[s].team)

\* The event stays submittable and its teams stay staffed.
LEMMA SubmittableStays ==
    ASSUME EP!IInv, EP!IInv', TP!IInv, [PlatformNext]_allVars
    PROVE  /\ Submittable => Submittable'
           /\ \A t : Staffed(t) => Staffed(t)'
<1>1. \A e \in EP!Saved : e \in EP!Saved' /\ held[e] \subseteq held'[e]
  BY EventsNext, EP!StableFacts, EventsAssumptions DEF EP!IInv
<1>2. members \subseteq members' /\ \A t \in TP!Saved : team'[t] = team[t]
  <2>1. [TP!Next]_(TP!vars)
    BY TeamsNext DEF EP!IInv, TP!IInv, TP!TypeOK
  <2>2. QED
    BY <2>1, TP!TablesGrow, TeamsAssumptions
<1>3. Submittable => Submittable'
  BY <1>1 DEF Submittable, EP!Saved, Saved
<1>4. QED
  BY <1>2, <1>3 DEF Staffed, TP!Saved

\* An author's statement finds the event open, puts together an entry of the
\* caller's team, saves what was put together, or leaves teams of entries alone.
LEMMA EntriesComeFrom ==
    ASSUME SP!TypeOK, NEW a \in Authors, SP!Step(a)
    PROVE  /\ \A x \in Authors : entry'[x].pc = "team" =>
                entry'[x] = entry[x] \/ Status[Contest] = "submissions_open"
           /\ \A x \in Authors : entry'[x].pc = "save" =>
                \/ entry'[x] = entry[x]
                \/ /\ entry[x].pc = "team"
                   /\ \E u \in Users : TeamOf[u] # None /\ entry'[x].sub.team = TeamOf[u]
           /\ \A s \in SubIds : submission'[s] # None =>
                \/ submission[s] # None /\ submission'[s].team = submission[s].team
                \/ entry[a].pc = "save" /\ submission'[s].team = entry[a].sub.team
<1> USE SubmissionsAssumptions
<1>1. CASE SP!CreateCheck(a)
  <2>1. PICK u \in Users : entry' = [entry EXCEPT ![a] = [SP!Idle EXCEPT !.pc = "team", !.user = u]]
    BY <1>1 DEF SP!CreateCheck
  <2>2. entry'[a].pc = "team" /\ \A x \in Authors : x # a => entry'[x] = entry[x]
    BY <2>1 DEF SP!TypeOK, SP!Idle
  <2>3. QED
    BY <1>1, <2>2 DEF SP!CreateCheck, SP!CheckCanCreate
<1>2. CASE SP!CreateFindTeam(a)
  <2>1. PICK text \in Texts : entry' = [entry EXCEPT ![a] = [entry[a] EXCEPT !.pc = "save",
                !.sub = SP!NewDraftSubmission(TeamOf[entry[a].user], text)]]
    BY <1>2 DEF SP!CreateFindTeam
  <2>2. /\ entry[a] \in SP!Fields /\ entry[a].pc = "team" /\ entry[a].user \in Users
        /\ TeamOf[entry[a].user] # None
    BY <1>2, SP!RequestHasFields DEF SP!CreateFindTeam, SP!HasTeam, SP!TypeOK
  <2>3. /\ entry'[a].pc = "save" /\ entry'[a].sub.team = TeamOf[entry[a].user]
        /\ \A x \in Authors : x # a => entry'[x] = entry[x]
    BY <2>1, <2>2 DEF SP!TypeOK, SP!NewDraftSubmission, SP!Fields
  <2>4. QED
    BY <1>2, <2>2, <2>3 DEF SP!CreateFindTeam
<1>3. ASSUME entry'[a].pc \notin {"team", "save"},
             \A x \in Authors : x # a => entry'[x] = entry[x]
      PROVE  \A x \in Authors : entry'[x].pc \in {"team", "save"} => entry'[x] = entry[x]
  BY <1>3
\* A step that does not start an entry or put one together leaves no new one.
<1>4. ASSUME ~SP!CreateCheck(a), ~SP!CreateFindTeam(a)
      PROVE  /\ entry'[a].pc \notin {"team", "save"}
             /\ \A x \in Authors : x # a => entry'[x] = entry[x]
  BY <1>4, SP!Serving DEF SP!Served, SP!Held, SP!Idle
<1>5. CASE SP!CreateSave(a)
  <2>1. PICK i \in SubIds : submission' = [submission EXCEPT ![i] = entry[a].sub]
    BY <1>5 DEF SP!CreateSave
  <2>2. \A s \in SubIds : submission'[s] = IF s = i THEN entry[a].sub ELSE submission[s]
    BY <2>1 DEF SP!TypeOK
  <2>3. entry[a].pc = "save" /\ ~SP!CreateCheck(a) /\ ~SP!CreateFindTeam(a)
    BY <1>5 DEF SP!CreateSave, SP!CreateCheck, SP!CreateFindTeam
  <2>4. QED
    BY <1>3, <1>4, <2>2, <2>3
<1>6. CASE SP!EditWrite(a) \/ SP!DisqualifyWrite(a)
  <2>1. /\ submission[entry[a].id] \in SP!Row /\ entry[a].sub \in SP!Row
        /\ entry[a].id \in SP!Saved
        /\ submission' = [submission EXCEPT ![entry[a].id] =
                             SP!Overwrite(submission[entry[a].id], entry[a].sub)]
    BY <1>6, SP!Writing DEF SP!EditWrite, SP!DisqualifyWrite, SP!CreateSave
  <2>2. SP!Overwrite(submission[entry[a].id], entry[a].sub).team = submission[entry[a].id].team
    BY <2>1, SP!OverwriteIsRow
  <2>3. \A s \in SubIds : submission'[s] = IF s = entry[a].id
          THEN SP!Overwrite(submission[entry[a].id], entry[a].sub) ELSE submission[s]
    BY <2>1 DEF SP!TypeOK
  <2>4. ~SP!CreateCheck(a) /\ ~SP!CreateFindTeam(a)
    BY <1>6 DEF SP!EditWrite, SP!DisqualifyWrite, SP!CreateCheck, SP!CreateFindTeam
  <2>5. QED
    BY <1>3, <1>4, <2>1, <2>2, <2>3, <2>4 DEF SP!Saved
<1>7. CASE /\ ~SP!CreateCheck(a) /\ ~SP!CreateFindTeam(a) /\ ~SP!CreateSave(a)
           /\ ~SP!EditWrite(a) /\ ~SP!DisqualifyWrite(a)
  BY <1>3, <1>4, <1>7, SP!Writing
<1>8. QED
  BY <1>1, <1>5, <1>6, <1>7, <1>2

\* Whoever finds the event open for submissions, and has a team, has one.
LEMMA CallersAreStaffed ==
    ASSUME EP!IInv, TP!IInv
    PROVE  /\ Status[Contest] = "submissions_open" => Submittable
           /\ \A u \in Users : TeamOf[u] # None => Staffed(TeamOf[u])
<1>1. Status[Contest] = "submissions_open" => Submittable
  <2> HAVE Status[Contest] = "submissions_open"
  <2>1. Contest \in Saved /\ event[Contest].status = "submissions_open"
    BY ContestIsEvent DEF Status, Saved
  <2>2. QED
    BY <2>1 DEF Submittable, EP!IInv, EP!NoStatusSkipped, EP!Saved, Saved
<1>2. ASSUME NEW u \in Users, TeamOf[u] # None PROVE Staffed(TeamOf[u])
  <2>1. TeamOf[u] \in Membership(u)
    BY <1>2, OneMembership
  <2>2. QED
    BY <2>1 DEF Membership, Staffed
<1>3. QED
  BY <1>1, <1>2

\* Every step keeps the invariant.
LEMMA EntryInvStep ==
    ASSUME EP!IInv, EP!IInv', TP!IInv, SP!TypeOK, EntryInv, [HackathonNext]_hackathonVars
    PROVE  EntryInv'
<1>1. ASSUME UNCHANGED <<submission, entry>>, [PlatformNext]_allVars PROVE EntryInv'
  <2>1. /\ Submittable => Submittable'
        /\ \A t : Staffed(t) => Staffed(t)'
    BY <1>1, SubmittableStays
  <2>2. ASSUME NEW a \in Authors, entry'[a].pc = "save"
        PROVE  Submittable' /\ Staffed(entry[a].sub.team)'
    <3>1. PICK t : t = entry[a].sub.team /\ t = entry'[a].sub.team
      BY <1>1
    <3>2. Submittable /\ Staffed(t)
      BY <1>1, <2>2, <3>1 DEF EntryInv
    <3>3. Submittable' /\ Staffed(t)'
      BY <2>1, <3>2
    <3>4. QED
      BY <3>1, <3>3 DEF Staffed
  <2>3. ASSUME NEW s \in SubIds, submission'[s] # None
        PROVE  Submittable' /\ Staffed(submission[s].team)'
    <3>1. PICK t : t = submission[s].team /\ t = submission'[s].team
      BY <1>1
    <3>2. Submittable /\ Staffed(t)
      BY <1>1, <2>3, <3>1 DEF EntryInv
    <3>3. Submittable' /\ Staffed(t)'
      BY <2>1, <3>2
    <3>4. QED
      BY <3>1, <3>3 DEF Staffed
  <2>4. \A a \in Authors : entry'[a].pc = "team" => Submittable'
    BY <1>1, <2>1 DEF EntryInv
  <2>5. QED
    BY <2>2, <2>3, <2>4 DEF EntryInv
<1>2. CASE PlatformMoves
  BY <1>1, <1>2 DEF PlatformMoves, submissionVars
<1>3. CASE TimePasses \/ UNCHANGED hackathonVars
  BY <1>1, <1>3 DEF TimePasses, S!Tick, hackathonVars, submissionVars
<1>4. CASE AuthorMoves
  <2>1. PICK a \in Authors : SP!Step(a)
    BY <1>4, SubmissionsStep DEF AuthorMoves
  <2>2. UNCHANGED <<event, held, team, members>>
    BY <1>4 DEF AuthorMoves, allVars, vars, teamVars
  <2>3. /\ \A x \in Authors : entry'[x].pc = "team" => Submittable
        /\ \A x \in Authors : entry'[x].pc = "save" => Submittable /\ Staffed(entry'[x].sub.team)
        /\ \A s \in SubIds : submission'[s] # None => Submittable /\ Staffed(submission'[s].team)
    BY <2>1, EntriesComeFrom, CallersAreStaffed DEF EntryInv
  <2>4. QED
    BY <2>2, <2>3 DEF EntryInv, Submittable, Staffed, Saved
<1>5. QED
  BY <1>2, <1>3, <1>4 DEF HackathonNext

\* The invariant that spans the three components holds in every reachable state.
LEMMA EntriesInvariant == HackathonSpec => []EntryInv
<1>1. HackathonInit => EntryInv
  BY DEF HackathonInit, EntryInv, S!Idle
<1>2. PlatformInv /\ PlatformInv' /\ SP!IInv /\ EntryInv /\ [HackathonNext]_hackathonVars
        => EntryInv'
  BY EntryInvStep DEF PlatformInv, SP!IInv
<1>3. QED
  BY <1>1, <1>2, HackathonRefinesPlatform, PlatformInductive, SubmissionsInvariant, PTL
     DEF HackathonSpec

\* Nothing is entered for an event that never opened submissions, however long
\* ago the writer read the event.
THEOREM EntriesFollowTheirEvent == HackathonSpec => []EntriesFollowEvent
<1>1. EntryInv => EntriesFollowEvent
  BY DEF EntryInv, Submittable, EntriesFollowEvent, S!Saved
<1>2. QED
  BY <1>1, EntriesInvariant, PTL

\* Every entry is the work of a team of its event that somebody is in, and
\* nobody in it organizes the event: an entry's team has a member, members were
\* participants when they got their team, and participants do not organize.
THEOREM EntriesHaveTheirAuthors == HackathonSpec => []EntriesHaveAuthors
<1>1. ASSUME PlatformInv, EntryInv PROVE EntriesHaveAuthors
  <2> SUFFICES ASSUME NEW s \in S!Saved
               PROVE  LET t == submission[s].team
                          authors == {u \in Users : <<u, t>> \in members}
                      IN  /\ team[t] # None /\ team[t].event = Contest
                          /\ authors # {}
                          /\ \A u \in authors : ~Organizes(u, Contest)
    BY DEF EntriesHaveAuthors
  <2> DEFINE t == submission[s].team
  <2>1. Staffed(t)
    BY <1>1 DEF EntryInv, S!Saved
  <2>2. ASSUME NEW u \in Users, <<u, t>> \in members PROVE ~Organizes(u, Contest)
    <3>1. u # event[Contest].createdBy /\ Contest \in Saved
      BY <1>1, <2>1, <2>2 DEF PlatformInv, JoinInv, MembersOK, Outsider, Opened, Staffed
    <3>2. QED
      BY <1>1, <3>1, OrganizersOnly, ContestIsEvent
         DEF PlatformInv, EP!IInv, EP!OrganizerIsCreator, Organizes
  <2>3. QED
    BY <2>1, <2>2 DEF Staffed
<1>2. QED
  BY <1>1, EntriesInvariant, HackathonRefinesPlatform, PlatformInductive, PTL
=============================================================================
