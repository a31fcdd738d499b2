----------------------------- MODULE Teams_proofs ----------------------------
(* Theorems about Teams, for any number of goroutines, users and teams. *)
EXTENDS Teams, TLAPS

\* A request about to add the first member holds a team it has just saved.
HoldsItsTeam(q) ==
    q.pc = "addMember" => /\ team[q.team] # None
                          /\ team[q.team].event = q.event

RequestsHoldTheirTeams == \A w \in Workers : HoldsItsTeam(req[w])

IInv == TypeOK /\ RequestsHoldTheirTeams /\ OneTeamPerUser /\ NamesAndCodesUnique

\* The request record without a team, and with one.
Asking == [pc: {"judge", "organizer", "participant", "grant", "hasTeam", "revoke",
                "getRole", "saveTeam"}, user: Users, event: EventIds]
Adding == [pc: {"addMember"}, user: Users, event: EventIds, team: TeamIds]

---------------------------------------------------------------------------
(* Steps, by what they write *)

\* Requests come in three kinds.
LEMMA RequestKinds == Request = {Idle} \cup Asking \cup Adding
BY DEF Request, Asking, Adding

\* What a request holds before it has a team.
LEMMA AskingRequest ==
    ASSUME TypeOK, NEW w \in Workers, req[w].pc \notin {"idle", "addMember"}
    PROVE  req[w] \in Asking
BY RequestKinds DEF TypeOK, Idle, Adding

\* What a request holds once its team is saved.
LEMMA AddingRequest ==
    ASSUME TypeOK, NEW w \in Workers, req[w].pc = "addMember"
    PROVE  req[w] \in Adding
BY RequestKinds DEF TypeOK, Idle, Asking

\* Moving on keeps a request well-formed.
LEMMA GotoKeepsType ==
    ASSUME TypeOK, NEW w \in Workers, req[w] \in Asking,
           NEW pc \in {"organizer", "participant", "grant", "revoke", "saveTeam"}, Goto(w, pc)
    PROVE  /\ req' \in [Workers -> Request]
           /\ req'[w] = [req[w] EXCEPT !.pc = pc]
           /\ req'[w].pc = pc /\ req'[w].user = req[w].user /\ req'[w].event = req[w].event
           /\ \A v \in Workers \ {w} : req'[v] = req[v]
<1>1. [req[w] EXCEPT !.pc = pc] \in Asking
  BY DEF Asking
<1>2. /\ req'[w] = [req[w] EXCEPT !.pc = pc]
      /\ \A v \in Workers \ {w} : req'[v] = req[v]
  BY DEF Goto, TypeOK
<1>3. req' \in [Workers -> Request]
  BY <1>1, RequestKinds DEF Goto, TypeOK
<1>4. QED
  BY <1>2, <1>3 DEF Asking

\* So does ending it.
LEMMA DoneKeepsType ==
    ASSUME TypeOK, NEW w \in Workers, Done(w)
    PROVE  /\ req' \in [Workers -> Request]
           /\ req'[w] = Idle
           /\ \A v \in Workers \ {w} : req'[v] = req[v]
BY DEF Done, TypeOK, Request

\* So does starting one.
LEMMA AskKeepsType ==
    ASSUME TypeOK, NEW w \in Workers, NEW u \in Users, NEW e \in EventIds,
           NEW pc \in {"judge", "hasTeam", "getRole"},
           req' = [req EXCEPT ![w] = [pc |-> pc, user |-> u, event |-> e]]
    PROVE  /\ req' \in [Workers -> Request]
           /\ req'[w] = [pc |-> pc, user |-> u, event |-> e]
           /\ \A v \in Workers \ {w} : req'[v] = req[v]
<1>1. [pc |-> pc, user |-> u, event |-> e] \in Request
  BY RequestKinds DEF Asking
<1>2. QED
  BY <1>1 DEF TypeOK

\* The steps that only move a request on: they write no table, and the
\* request that moves does not end up adding a member.
Advances(w) ==
    /\ UNCHANGED <<eventVars, roles, team, members>>
    /\ req' \in [Workers -> Request]
    /\ req'[w].pc # "addMember"
    /\ \A v \in Workers \ {w} : req'[v] = req[v]

\* The steps that only read, and what they leave alone.
LEMMA Advancing ==
    ASSUME TypeOK, NEW w \in Workers,
           \/ Register(w) \/ RegisterAsk(w) \/ Unregister(w) \/ UnregisterAskTeam(w)
           \/ CreateTeam(w) \/ CreateTeamRole(w) \/ Fail(w)
    PROVE  Advances(w)
<1>1. CASE Register(w)
  <2>1. PICK u \in Users, e \in EventIds :
          req' = [req EXCEPT ![w] = [pc |-> "judge", user |-> u, event |-> e]]
    BY <1>1 DEF Register
  <2>2. /\ req' \in [Workers -> Request] /\ req'[w].pc = "judge"
        /\ \A v \in Workers \ {w} : req'[v] = req[v]
    BY <2>1, AskKeepsType
  <2>3. QED
    BY <1>1, <2>2 DEF Register, Advances
<1>2. CASE RegisterAsk(w)
  <2>1. req[w].pc \in {"judge", "organizer", "participant"}
    BY <1>2 DEF RegisterAsk, AskNext
  <2>2. AskNext[req[w].pc] \in {"organizer", "participant", "grant"}
    BY <2>1 DEF AskNext
  <2>3. QED
    BY <1>2, <2>1, <2>2, AskingRequest, GotoKeepsType DEF RegisterAsk, Advances
<1>3. CASE Unregister(w)
  <2>1. PICK u \in Users, e \in EventIds :
          req' = [req EXCEPT ![w] = [pc |-> "hasTeam", user |-> u, event |-> e]]
    BY <1>3 DEF Unregister
  <2>2. /\ req' \in [Workers -> Request] /\ req'[w].pc = "hasTeam"
        /\ \A v \in Workers \ {w} : req'[v] = req[v]
    BY <2>1, AskKeepsType
  <2>3. QED
    BY <1>3, <2>2 DEF Unregister, Advances
<1>4. CASE UnregisterAskTeam(w)
  BY <1>4, AskingRequest, GotoKeepsType DEF UnregisterAskTeam, Advances
<1>5. CASE CreateTeam(w)
  <2>1. PICK u \in Users, e \in EventIds :
          req' = [req EXCEPT ![w] = [pc |-> "getRole", user |-> u, event |-> e]]
    BY <1>5 DEF CreateTeam
  <2>2. /\ req' \in [Workers -> Request] /\ req'[w].pc = "getRole"
        /\ \A v \in Workers \ {w} : req'[v] = req[v]
    BY <2>1, AskKeepsType
  <2>3. QED
    BY <1>5, <2>2 DEF CreateTeam, Advances
<1>6. CASE CreateTeamRole(w)
  BY <1>6, AskingRequest, GotoKeepsType DEF CreateTeamRole, Advances
<1>7. CASE Fail(w)
  BY <1>7, DoneKeepsType DEF Fail, Advances, Idle
<1>8. QED
  BY <1>1, <1>2, <1>3, <1>4, <1>5, <1>6, <1>7

\* The two statements that write event_roles.
LEMMA WritingRoles ==
    ASSUME TypeOK, NEW w \in Workers, GrantParticipantRole(w) \/ RevokeParticipantRole(w)
    PROVE  /\ UNCHANGED <<eventVars, team, members>>
           /\ roles' \subseteq Users \X EventIds \X RoleNames
           /\ req' \in [Workers -> Request]
           /\ req'[w] = Idle
           /\ \A v \in Workers \ {w} : req'[v] = req[v]
<1>1. req[w].user \in Users /\ req[w].event \in EventIds
  BY AskingRequest DEF GrantParticipantRole, RevokeParticipantRole, Asking
<1>2. QED
  BY <1>1, DoneKeepsType
     DEF GrantParticipantRole, RevokeParticipantRole, TypeOK, RoleNames

\* Appoint writes nobody down as a participant, and takes no role away.
LEMMA Appointing ==
    ASSUME TypeOK, Appoint
    PROVE  /\ UNCHANGED <<eventVars, team, members, req>>
           /\ roles' \subseteq Users \X EventIds \X RoleNames
           /\ \A u \in Users, e \in EventIds :
                <<u, e, "participant">> \in roles' <=> <<u, e, "participant">> \in roles
BY DEF TypeOK, Appoint, RoleNames

\* What SaveTeam inserts and what the request then holds.
LEMMA SavingTeam ==
    ASSUME TypeOK, NEW w \in Workers, SaveTeam(w)
    PROVE  \E t \in TeamIds \ Saved, row \in TeamRow :
             /\ TeamInsertable(row)
             /\ row.event = req[w].event
             /\ team' = [team EXCEPT ![t] = row]
             /\ req' \in [Workers -> Request]
             /\ req'[w] = [pc |-> "addMember", user |-> req[w].user,
                           event |-> req[w].event, team |-> t]
             /\ \A v \in Workers \ {w} : req'[v] = req[v]
<1>1. PICK t \in TeamIds \ Saved, name \in Names, code \in Codes :
        LET row == NewTeam(req[w].event, req[w].user, name, code) IN
        /\ TeamInsertable(row)
        /\ team' = [team EXCEPT ![t] = row]
        /\ req' = [req EXCEPT ![w] = [pc |-> "addMember", user |-> req[w].user,
                                      event |-> req[w].event, team |-> t]]
  BY DEF SaveTeam, Unused
<1> DEFINE row == NewTeam(req[w].event, req[w].user, name, code)
           q == [pc |-> "addMember", user |-> req[w].user, event |-> req[w].event, team |-> t]
<1>2. req[w].user \in Users /\ req[w].event \in EventIds
  BY AskingRequest DEF SaveTeam, Asking
<1>3. row \in TeamRow /\ row.event = req[w].event
  BY <1>2 DEF TeamRow, NewTeam
<1>4. q \in Request
  BY <1>2, RequestKinds DEF Adding
<1>5. req' \in [Workers -> Request] /\ req'[w] = q /\ \A v \in Workers \ {w} : req'[v] = req[v]
  BY <1>1, <1>4 DEF TypeOK
<1>6. QED
  BY <1>1, <1>3, <1>5

\* Only goroutines are overtaken.
LEMMA OvertakenAreWorkers ==
    ASSUME TypeOK, [Next]_vars
    PROVE  overtaken' \subseteq Workers
<1>1. ASSUME NEW w \in Workers, RegisterAsk(w) \/ UnregisterAskTeam(w) \/ CreateTeamRole(w)
      PROVE  overtaken' = overtaken
  BY <1>1 DEF RegisterAsk, UnregisterAskTeam, CreateTeamRole
<1>2. QED
  BY <1>1 DEF TypeOK, Next, Step, vars, Register, GrantParticipantRole, Unregister,
         RevokeParticipantRole, CreateTeam, SaveTeam, AddMember, Fail, Organizer, Appoint, Others

---------------------------------------------------------------------------
(* The inductive invariant *)

\* The invariant holds at first.
LEMMA InductiveInit == Init => IInv
<1> SUFFICES ASSUME Init PROVE IInv
  OBVIOUS
<1>1. TypeOK
  BY KnownStatuses DEF Init, TypeOK, Request, RoleNames, Saved
<1>2. RequestsHoldTheirTeams
  BY DEF Init, RequestsHoldTheirTeams, HoldsItsTeam, Idle
<1>3. OneTeamPerUser /\ NamesAndCodesUnique
  BY DEF Init, OneTeamPerUser, NamesAndCodesUnique, Saved
<1>4. QED
  BY <1>1, <1>2, <1>3 DEF IInv

\* Every step keeps the invariant.
LEMMA InductiveStep == IInv /\ [Next]_vars => IInv'
<1> SUFFICES ASSUME IInv, [Next]_vars PROVE IInv'
  OBVIOUS
<1>1. TypeOK /\ RequestsHoldTheirTeams /\ OneTeamPerUser /\ NamesAndCodesUnique
  BY DEF IInv
<1>0. overtaken' \subseteq Workers
  BY <1>1, OvertakenAreWorkers
\* Tables of teams and members untouched: only the requests matter.
<1>2. ASSUME NEW w \in Workers, UNCHANGED <<eventVars, team, members>>,
             roles' \subseteq Users \X EventIds \X RoleNames,
             req' \in [Workers -> Request], req'[w].pc # "addMember",
             \A v \in Workers \ {w} : req'[v] = req[v]
      PROVE  IInv'
  <2>1. TypeOK'
    BY <1>0, <1>1, <1>2 DEF TypeOK, eventVars, Saved
  <2>2. RequestsHoldTheirTeams'
    BY <1>1, <1>2 DEF RequestsHoldTheirTeams, HoldsItsTeam
  <2>3. OneTeamPerUser' /\ NamesAndCodesUnique'
    BY <1>1, <1>2 DEF OneTeamPerUser, NamesAndCodesUnique, Saved
  <2>4. QED
    BY <2>1, <2>2, <2>3 DEF IInv
<1>3. ASSUME NEW w \in Workers,
             \/ Register(w) \/ RegisterAsk(w) \/ Unregister(w) \/ UnregisterAskTeam(w)
             \/ CreateTeam(w) \/ CreateTeamRole(w) \/ Fail(w)
      PROVE  IInv'
  <2>1. Advances(w)
    BY <1>1, <1>3, Advancing
  <2>2. QED
    BY <1>1, <1>2, <2>1 DEF Advances, TypeOK
<1>4. ASSUME NEW w \in Workers, GrantParticipantRole(w) \/ RevokeParticipantRole(w)
      PROVE  IInv'
  <2>1. /\ UNCHANGED <<eventVars, team, members>>
        /\ roles' \subseteq Users \X EventIds \X RoleNames
        /\ req' \in [Workers -> Request] /\ req'[w].pc # "addMember"
        /\ \A v \in Workers \ {w} : req'[v] = req[v]
    BY <1>1, <1>4, WritingRoles DEF Idle
  <2>2. QED
    BY <1>2, <2>1
<1>5. ASSUME NEW w \in Workers, SaveTeam(w) PROVE IInv'
  <2>1. PICK t \in TeamIds \ Saved, row \in TeamRow :
             /\ TeamInsertable(row)
             /\ row.event = req[w].event
             /\ team' = [team EXCEPT ![t] = row]
             /\ req' \in [Workers -> Request]
             /\ req'[w] = [pc |-> "addMember", user |-> req[w].user,
                           event |-> req[w].event, team |-> t]
             /\ \A v \in Workers \ {w} : req'[v] = req[v]
    BY <1>1, <1>5, SavingTeam
  <2>2. UNCHANGED <<eventVars, roles, members>>
    BY <1>5 DEF SaveTeam
  <2>3. /\ team' \in [TeamIds -> TeamRow \cup {None}]
        /\ team'[t] = row /\ row # None
        /\ \A s \in TeamIds \ {t} : team'[s] = team[s]
        /\ Saved' = Saved \cup {t}
    BY <1>1, <2>1, NoneIsNoTeam DEF TypeOK, Saved
  <2>4. TypeOK'
    BY <1>0, <1>1, <2>1, <2>2, <2>3 DEF TypeOK, eventVars
  <2>5. RequestsHoldTheirTeams'
    <3>1. HoldsItsTeam(req[w])'
      BY <2>1, <2>3 DEF HoldsItsTeam
    <3>2. ASSUME NEW v \in Workers \ {w} PROVE HoldsItsTeam(req[v])'
      <4>1. req'[v] = req[v] /\ HoldsItsTeam(req[v])
        BY <1>1, <2>1 DEF RequestsHoldTheirTeams
      <4>2. req[v].pc = "addMember" => req[v].team \in TeamIds \ {t}
        BY <1>1, <2>1, <4>1, AddingRequest DEF HoldsItsTeam, Adding, Saved
      <4>3. QED
        BY <2>3, <4>1, <4>2 DEF HoldsItsTeam
    <3>3. QED
      BY <3>1, <3>2 DEF RequestsHoldTheirTeams
  <2>6. OneTeamPerUser'
    <3>1. \A m \in members : m[2] \in Saved
      BY <1>1 DEF TypeOK
    <3>2. \A m \in members : team'[m[2]] = team[m[2]]
      BY <2>1, <2>3, <3>1 DEF Saved
    <3>3. QED
      BY <1>1, <2>2, <3>2 DEF OneTeamPerUser
  <2>7. NamesAndCodesUnique'
    BY <1>1, <2>1, <2>3 DEF NamesAndCodesUnique, TeamInsertable, Saved
  <2>8. QED
    BY <2>4, <2>5, <2>6, <2>7 DEF IInv
<1>6. ASSUME NEW w \in Workers, AddMember(w) PROVE IInv'
  <2> DEFINE u == req[w].user
             e == req[w].event
             t == req[w].team
  <2>1. /\ u \in Users /\ e \in EventIds /\ t \in TeamIds
        /\ team[t] # None /\ team[t].event = e
    BY <1>1, <1>6, AddingRequest
       DEF AddMember, Adding, RequestsHoldTheirTeams, HoldsItsTeam
  <2>2. /\ members' = members \cup {<<u, t>>}
        /\ UNCHANGED <<eventVars, roles, team>>
        /\ \A m \in members : ~(m[1] = u /\ team[m[2]].event = e)
    BY <1>6 DEF AddMember, MemberInsertable, HasTeamInEvent
  <2>3. /\ req' \in [Workers -> Request] /\ req'[w] = Idle
        /\ \A v \in Workers \ {w} : req'[v] = req[v]
    BY <1>1, <1>6, DoneKeepsType DEF AddMember
  <2>4. TypeOK'
    BY <1>0, <1>1, <2>1, <2>2, <2>3 DEF TypeOK, eventVars, Saved
  <2>5. RequestsHoldTheirTeams'
    BY <1>1, <2>2, <2>3 DEF RequestsHoldTheirTeams, HoldsItsTeam, Idle
  <2>6. OneTeamPerUser'
    BY <1>1, <2>1, <2>2 DEF OneTeamPerUser
  <2>7. NamesAndCodesUnique'
    BY <1>1, <2>2 DEF NamesAndCodesUnique, Saved
  <2>8. QED
    BY <2>4, <2>5, <2>6, <2>7 DEF IInv
<1>7. CASE Organizer
  <2>1. TypeOK'
    BY <1>0, <1>1, <1>7, KnownStatuses DEF Organizer, TypeOK, Saved
  <2>2. QED
    BY <1>1, <1>7, <2>1 DEF Organizer, IInv, RequestsHoldTheirTeams, HoldsItsTeam,
       OneTeamPerUser, NamesAndCodesUnique, Saved
<1>8. CASE Appoint
  <2>1. UNCHANGED <<eventVars, team, members, req>> /\ TypeOK'
    BY <1>0, <1>1, <1>8, Appointing DEF TypeOK, eventVars, Saved
  <2>2. QED
    BY <1>1, <2>1 DEF IInv, RequestsHoldTheirTeams, HoldsItsTeam,
       OneTeamPerUser, NamesAndCodesUnique, Saved
<1>9. CASE UNCHANGED vars
  BY <1>1, <1>9 DEF vars, IInv, TypeOK, RequestsHoldTheirTeams, HoldsItsTeam,
     OneTeamPerUser, NamesAndCodesUnique, Saved
<1>10. QED
  BY <1>3, <1>4, <1>5, <1>6, <1>7, <1>8, <1>9 DEF Next, Step

\* IInv holds in every reachable state, however requests interleave.
THEOREM Inductive == Spec => []IInv
BY InductiveInit, InductiveStep, PTL DEF Spec

\* Only well-formed rows reach the tables, and every member's team exists.
THEOREM TypeCorrect == Spec => []TypeOK
<1>1. IInv => TypeOK
  BY DEF IInv
<1>2. QED
  BY <1>1, Inductive, PTL

\* I1, from the unique index on (user_id, event_id): the lookup before it
\* proves nothing.
THEOREM UsersHaveOneTeam == Spec => []OneTeamPerUser
<1>1. IInv => OneTeamPerUser
  BY DEF IInv
<1>2. QED
  BY <1>1, Inductive, PTL

\* Names are unique in an event and invite codes across events.
THEOREM TeamsAreDistinct == Spec => []NamesAndCodesUnique
<1>1. IInv => NamesAndCodesUnique
  BY DEF IInv
<1>2. QED
  BY <1>1, Inductive, PTL

---------------------------------------------------------------------------
(* What a step may never undo *)

\* Teams and members are only ever added.
LEMMA TablesGrow ==
    ASSUME IInv, [Next]_vars
    PROVE  /\ members \subseteq members'
           /\ \A t \in Saved : team'[t] = team[t]
<1>1. TypeOK
  BY DEF IInv
<1>2. ASSUME NEW w \in Workers, SaveTeam(w)
      PROVE  members' = members /\ \A t \in Saved : team'[t] = team[t]
  <2>1. PICK s \in TeamIds \ Saved, row \in TeamRow : team' = [team EXCEPT ![s] = row]
    BY <1>1, <1>2, SavingTeam
  <2>2. \A t \in Saved : team'[t] = team[t]
    BY <1>1, <2>1 DEF TypeOK, Saved
  <2>3. QED
    BY <1>2, <2>2 DEF SaveTeam
<1>3. ASSUME NEW w \in Workers, AddMember(w)
      PROVE  members \subseteq members' /\ team' = team
  BY <1>3 DEF AddMember
<1>4. QED
  BY <1>1, <1>2, <1>3, Advancing, WritingRoles
     DEF Next, Step, Organizer, Appoint, Advances, vars

\* An orphan team stays empty and keeps its name and its code.
THEOREM OrphansStayEmpty == Spec => OrphanStaysEmpty
<1>1. ASSUME IInv, [Next]_vars, NEW t \in TeamIds, OrphanTeam(t)
      PROVE  OrphanTeam(t)' /\ team'[t] = team[t]
  <2>1. TypeOK /\ t \in Saved /\ team'[t] = team[t] /\ team[t] # None
    BY <1>1, TablesGrow DEF IInv, OrphanTeam, Saved
  <2>2. ASSUME NEW w \in Workers, SaveTeam(w) PROVE OrphanTeam(t)'
    <3>1. PICK s \in TeamIds \ Saved, row \in TeamRow :
             /\ req'[w] = [pc |-> "addMember", user |-> req[w].user,
                           event |-> req[w].event, team |-> s]
             /\ \A v \in Workers \ {w} : req'[v] = req[v]
      BY <2>1, <2>2, SavingTeam
    <3>2. members' = members
      BY <2>2 DEF SaveTeam
    <3>3. QED
      BY <1>1, <2>1, <3>1, <3>2 DEF OrphanTeam
  <2>3. ASSUME NEW w \in Workers, AddMember(w) PROVE OrphanTeam(t)'
    <3>1. req[w].team # t
      BY <1>1, <2>3 DEF AddMember, OrphanTeam
    <3>2. members' = members \cup {<<req[w].user, req[w].team>>}
      BY <2>3 DEF AddMember
    <3>3. req'[w] = Idle /\ \A v \in Workers \ {w} : req'[v] = req[v]
      BY <2>1, <2>3, DoneKeepsType DEF AddMember
    <3>4. QED
      BY <1>1, <2>1, <3>1, <3>2, <3>3 DEF OrphanTeam, Idle
  <2>4. ASSUME NEW w \in Workers, members' = members, req'[w].pc # "addMember",
               \A v \in Workers \ {w} : req'[v] = req[v]
        PROVE  OrphanTeam(t)'
    BY <1>1, <2>1, <2>4 DEF OrphanTeam
  <2>5. ASSUME NEW w \in Workers, GrantParticipantRole(w) \/ RevokeParticipantRole(w)
        PROVE  OrphanTeam(t)'
    BY <2>1, <2>4, <2>5, WritingRoles DEF Idle
  <2>6. ASSUME NEW w \in Workers,
             \/ Register(w) \/ RegisterAsk(w) \/ Unregister(w) \/ UnregisterAskTeam(w)
             \/ CreateTeam(w) \/ CreateTeamRole(w) \/ Fail(w)
        PROVE  OrphanTeam(t)'
    BY <2>1, <2>4, <2>6, Advancing DEF Advances
  <2>7. CASE members' = members /\ req' = req
    BY <1>1, <2>1, <2>7 DEF OrphanTeam
  <2>8. OrphanTeam(t)'
    BY <1>1, <2>2, <2>3, <2>5, <2>6, <2>7 DEF Next, Step, Organizer, Appoint, vars
  <2>9. QED
    BY <2>1, <2>8
<1>2. IInv /\ [Next]_vars =>
        [\A t \in TeamIds : OrphanTeam(t) => OrphanTeam(t)' /\ team'[t] = team[t]]_vars
  BY <1>1
<1>3. QED
  BY <1>2, Inductive, PTL DEF Spec, OrphanStaysEmpty

\* A settled member stays registered: no later unregistration gets past its
\* check for a team.
THEOREM SettledMembersStay == Spec => SettledStays
<1>1. ASSUME IInv, [Next]_vars, NEW u \in Users, NEW e \in EventIds, Settled(u, e)
      PROVE  Settled(u, e)'
  <2>1. TypeOK /\ HasTeamInEvent(u, e)
    BY <1>1 DEF IInv, Settled
  <2>2. HasTeamInEvent(u, e)'
    <3>1. PICK m \in members : m[1] = u /\ team[m[2]].event = e
      BY <2>1 DEF HasTeamInEvent
    <3>2. m \in members' /\ team'[m[2]] = team[m[2]]
      BY <1>1, <2>1, TablesGrow DEF TypeOK
    <3>3. QED
      BY <3>1, <3>2 DEF HasTeamInEvent
  <2> DEFINE Clear(q) == q.pc = "revoke" => q.user # u \/ q.event # e
  <2>3. \A v \in Workers : Clear(req[v])
    BY <1>1 DEF Settled
  <2>4. ASSUME NEW w \in Workers, Clear(req'[w]), <<u, e, "participant">> \in roles',
               \A v \in Workers \ {w} : req'[v] = req[v]
        PROVE  Settled(u, e)'
    BY <2>2, <2>3, <2>4 DEF Settled
  <2>5. <<u, e, "participant">> \in roles
    BY <1>1 DEF Settled
  <2>6. ASSUME NEW w \in Workers, GrantParticipantRole(w) PROVE Settled(u, e)'
    BY <2>1, <2>4, <2>5, <2>6, WritingRoles DEF GrantParticipantRole, Idle
  <2>7. ASSUME NEW w \in Workers, RevokeParticipantRole(w) PROVE Settled(u, e)'
    <3>1. req[w].user # u \/ req[w].event # e
      BY <2>3, <2>7 DEF RevokeParticipantRole
    <3>2. <<u, e, "participant">> \in roles'
      BY <2>5, <2>7, <3>1 DEF RevokeParticipantRole
    <3>3. QED
      BY <2>1, <2>4, <2>7, <3>2, WritingRoles DEF Idle
  <2>8. ASSUME NEW w \in Workers, SaveTeam(w) PROVE Settled(u, e)'
    <3>1. PICK s \in TeamIds \ Saved, row \in TeamRow :
             /\ req'[w] = [pc |-> "addMember", user |-> req[w].user,
                           event |-> req[w].event, team |-> s]
             /\ \A v \in Workers \ {w} : req'[v] = req[v]
      BY <2>1, <2>8, SavingTeam
    <3>2. roles' = roles
      BY <2>8 DEF SaveTeam
    <3>3. QED
      BY <2>4, <2>5, <3>1, <3>2
  <2>9. ASSUME NEW w \in Workers, AddMember(w) PROVE Settled(u, e)'
    <3>1. req'[w] = Idle /\ \A v \in Workers \ {w} : req'[v] = req[v]
      BY <2>1, <2>9, DoneKeepsType DEF AddMember
    <3>2. roles' = roles
      BY <2>9 DEF AddMember
    <3>3. QED
      BY <2>4, <2>5, <3>1, <3>2 DEF Idle
  \* The one step that could put a revocation of this user in flight is
  \* refused: the team is there to be seen.
  <2>10. ASSUME NEW w \in Workers, UnregisterAskTeam(w) PROVE Settled(u, e)'
    <3>1. req[w].user # u \/ req[w].event # e
      BY <2>1, <2>10 DEF UnregisterAskTeam, MayLeave
    <3>2. /\ req'[w].user = req[w].user /\ req'[w].event = req[w].event
          /\ \A v \in Workers \ {w} : req'[v] = req[v]
      BY <2>1, <2>10, AskingRequest, GotoKeepsType DEF UnregisterAskTeam
    <3>3. roles' = roles
      BY <2>10 DEF UnregisterAskTeam
    <3>4. QED
      BY <2>4, <2>5, <3>1, <3>2, <3>3
  <2>11. ASSUME NEW w \in Workers, \/ Register(w) \/ RegisterAsk(w) \/ Unregister(w)
                                   \/ CreateTeam(w) \/ CreateTeamRole(w) \/ Fail(w)
         PROVE  Settled(u, e)'
    <3>1. req'[w].pc # "revoke"
      <4>1. CASE RegisterAsk(w)
        <5>1. req[w].pc \in {"judge", "organizer", "participant"}
          BY <4>1 DEF RegisterAsk, AskNext
        <5>2. AskNext[req[w].pc] \in {"organizer", "participant", "grant"}
          BY <5>1 DEF AskNext
        <5>3. QED
          BY <2>1, <4>1, <5>1, <5>2, AskingRequest, GotoKeepsType DEF RegisterAsk
      <4>2. CASE CreateTeamRole(w)
        BY <2>1, <4>2, AskingRequest, GotoKeepsType DEF CreateTeamRole
      <4>3. CASE Fail(w)
        BY <2>1, <4>3, DoneKeepsType DEF Fail, Idle
      <4>4. CASE Register(w) \/ Unregister(w) \/ CreateTeam(w)
        <5>1. PICK pc \in {"judge", "hasTeam", "getRole"}, x \in Users, f \in EventIds :
                req' = [req EXCEPT ![w] = [pc |-> pc, user |-> x, event |-> f]]
          BY <4>4 DEF Register, Unregister, CreateTeam
        <5>2. QED
          BY <2>1, <5>1, AskKeepsType
      <4>5. QED
        BY <2>11, <4>1, <4>2, <4>3, <4>4
    <3>2. roles' = roles /\ \A v \in Workers \ {w} : req'[v] = req[v]
      BY <2>1, <2>11, Advancing DEF Advances
    <3>3. QED
      BY <2>4, <2>5, <3>1, <3>2
  <2>12. CASE Appoint
    BY <2>1, <2>2, <2>3, <2>5, <2>12, Appointing DEF Settled
  <2>13. CASE roles' = roles /\ req' = req
    BY <2>2, <2>3, <2>5, <2>13 DEF Settled
  <2>14. QED
    BY <1>1, <2>6, <2>7, <2>8, <2>9, <2>10, <2>11, <2>12, <2>13
       DEF Next, Step, Organizer, vars
<1>2. IInv /\ [Next]_vars =>
        [\A u \in Users, e \in EventIds : Settled(u, e) => Settled(u, e)']_vars
  BY <1>1
<1>3. QED
  BY <1>2, Inductive, PTL DEF Spec, SettledStays

---------------------------------------------------------------------------
(* How users take part, for any number of goroutines *)

Participant(u, e) == <<u, e, "participant">> \in roles

\* What a request has been told is still so.
StillTrue(q) ==
    /\ q.pc = "revoke" => ~HasTeamInEvent(q.user, q.event)
    /\ q.pc \in {"saveTeam", "addMember"} => Participant(q.user, q.event)

\* That holds of every request no other one has overtaken.
TrueUnlessOvertaken == \A w \in Workers \ overtaken : StillTrue(req[w])

\* Inserting a team gives nobody a team: no member has an unused id.
LEMMA NewTeamHasNoMembers ==
    ASSUME TypeOK, NEW w \in Workers, SaveTeam(w)
    PROVE  \A m \in members : team'[m[2]] = team[m[2]]
<1>1. PICK t \in TeamIds \ Saved, row \in TeamRow : team' = [team EXCEPT ![t] = row]
  BY SavingTeam
<1>2. \A m \in members : m[2] \in Saved
  BY DEF TypeOK
<1>3. QED
  BY <1>1, <1>2 DEF TypeOK, Saved

\* Adding a member gives one user a team in one event.
LEMMA AddingMember ==
    ASSUME IInv, NEW w \in Workers, AddMember(w), NEW x, NEW f
    PROVE  HasTeamInEvent(x, f)' <=>
               HasTeamInEvent(x, f) \/ (x = req[w].user /\ f = req[w].event)
<1> DEFINE new == <<req[w].user, req[w].team>>
           TeamOf(m) == m[1] = x /\ team[m[2]].event = f
<1>1. new[1] = req[w].user /\ team[new[2]].event = req[w].event
  BY DEF AddMember, IInv, RequestsHoldTheirTeams, HoldsItsTeam
<1>2. HasTeamInEvent(x, f)' <=> \E m \in members \cup {new} : TeamOf(m)
  BY DEF HasTeamInEvent, AddMember
<1>3. TeamOf(new) <=> x = req[w].user /\ f = req[w].event
  BY <1>1
<1>4. QED
  BY <1>2, <1>3 DEF HasTeamInEvent

\* The other requests that are not overtaken by a step keep what they know:
\* the two statements that could undo it overtake whoever relies on it.
LEMMA OthersStayTrue ==
    ASSUME IInv, TrueUnlessOvertaken, NEW w \in Workers, Step(w),
           NEW v \in Workers \ overtaken', v # w
    PROVE  StillTrue(req[v])'
<1>1. TypeOK
  BY DEF IInv
<1>2. CASE Register(w) \/ RegisterAsk(w) \/ Unregister(w) \/ UnregisterAskTeam(w)
           \/ CreateTeam(w) \/ CreateTeamRole(w) \/ Fail(w)
  <2>1. Advances(w)
    BY <1>1, <1>2, Advancing
  <2>2. overtaken \ {w} \subseteq overtaken'
    BY <1>2 DEF Register, RegisterAsk, Unregister, UnregisterAskTeam, CreateTeam,
                CreateTeamRole, Fail
  <2>3. StillTrue(req[v])
    BY <2>2 DEF TrueUnlessOvertaken
  <2>4. QED
    BY <2>1, <2>3 DEF Advances, StillTrue, HasTeamInEvent, Participant
<1>3. CASE GrantParticipantRole(w)
  <2>1. /\ team' = team /\ members' = members /\ req'[v] = req[v]
        /\ roles \subseteq roles' /\ StillTrue(req[v])
    BY <1>1, <1>3, WritingRoles DEF GrantParticipantRole, TrueUnlessOvertaken
  <2>2. QED
    BY <2>1 DEF StillTrue, HasTeamInEvent, Participant
<1>4. CASE RevokeParticipantRole(w)
  <2>1. /\ team' = team /\ members' = members /\ req'[v] = req[v]
        /\ roles' = roles \ {<<req[w].user, req[w].event, "participant">>}
        /\ StillTrue(req[v])
        /\ v \notin Others(w, {"saveTeam", "addMember"})
    BY <1>1, <1>4, WritingRoles DEF RevokeParticipantRole, TrueUnlessOvertaken
  <2>2. req[v].pc \in {"saveTeam", "addMember"} => Participant(req[v].user, req[v].event)'
    BY <2>1 DEF Others, StillTrue, Participant
  <2>3. QED
    BY <2>1, <2>2 DEF StillTrue, HasTeamInEvent
<1>5. CASE SaveTeam(w)
  <2>1. /\ roles' = roles /\ members' = members /\ req'[v] = req[v] /\ StillTrue(req[v])
    BY <1>1, <1>5, SavingTeam DEF SaveTeam, TrueUnlessOvertaken
  <2>2. QED
    BY <1>1, <1>5, <2>1, NewTeamHasNoMembers DEF StillTrue, HasTeamInEvent, Participant
<1>6. CASE AddMember(w)
  <2>1. /\ roles' = roles /\ req'[v] = req[v] /\ StillTrue(req[v])
        /\ v \notin Others(w, {"revoke"})
    BY <1>1, <1>6, DoneKeepsType DEF AddMember, TrueUnlessOvertaken
  <2>2. ASSUME req[v].pc = "revoke" PROVE ~HasTeamInEvent(req[v].user, req[v].event)'
    <3>1. ~(req[v].user = req[w].user /\ req[v].event = req[w].event)
      BY <2>1, <2>2 DEF Others
    <3>2. ~HasTeamInEvent(req[v].user, req[v].event)
      BY <2>1, <2>2 DEF StillTrue
    <3>3. ASSUME NEW x, NEW f, ~HasTeamInEvent(x, f),
                 ~(x = req[w].user /\ f = req[w].event)
          PROVE  ~HasTeamInEvent(x, f)'
      BY <1>6, <3>3, AddingMember
    <3>4. ~\E m \in members' : m[1] = req[v].user /\ team'[m[2]].event = req[v].event
      BY <3>1, <3>2, <3>3 DEF HasTeamInEvent
    <3>5. QED
      BY <2>1, <3>4 DEF HasTeamInEvent
  <2>3. QED
    BY <2>1, <2>2 DEF StillTrue, Participant
<1>7. QED
  BY <1>2, <1>3, <1>4, <1>5, <1>6 DEF Step

\* Every step keeps the requests that are not overtaken true.
LEMMA TrueStep == IInv /\ TrueUnlessOvertaken /\ [Next]_vars => TrueUnlessOvertaken'
<1> SUFFICES ASSUME IInv, TrueUnlessOvertaken, [Next]_vars PROVE TrueUnlessOvertaken'
  OBVIOUS
<1>1. TypeOK
  BY DEF IInv
<1>2. ASSUME NEW w \in Workers, req'[w].pc \notin {"revoke", "saveTeam", "addMember"}
      PROVE  StillTrue(req[w])'
  BY <1>2 DEF StillTrue
<1>3. ASSUME NEW w \in Workers, Register(w) \/ Unregister(w) \/ CreateTeam(w)
      PROVE  StillTrue(req[w])'
  <2>1. PICK pc \in {"judge", "hasTeam", "getRole"}, u \in Users, e \in EventIds :
          req' = [req EXCEPT ![w] = [pc |-> pc, user |-> u, event |-> e]]
    BY <1>3 DEF Register, Unregister, CreateTeam
  <2>2. req'[w].pc \in {"judge", "hasTeam", "getRole"}
    BY <1>1, <2>1, AskKeepsType
  <2>3. QED
    BY <1>2, <2>2
<1>4. ASSUME NEW w \in Workers, RegisterAsk(w) PROVE StillTrue(req[w])'
  <2>1. req[w].pc \in {"judge", "organizer", "participant"}
    BY <1>4 DEF RegisterAsk, AskNext
  <2>2. AskNext[req[w].pc] \in {"organizer", "participant", "grant"}
    BY <2>1 DEF AskNext
  <2>3. req'[w].pc \in {"organizer", "participant", "grant"}
    BY <1>1, <1>4, <2>1, <2>2, AskingRequest, GotoKeepsType DEF RegisterAsk
  <2>4. QED
    BY <1>2, <2>3
<1>5. ASSUME NEW w \in Workers,
             GrantParticipantRole(w) \/ RevokeParticipantRole(w) \/ AddMember(w) \/ Fail(w)
      PROVE  StillTrue(req[w])'
  <2>1. req'[w].pc = "idle"
    BY <1>1, <1>5, DoneKeepsType
       DEF GrantParticipantRole, RevokeParticipantRole, AddMember, Fail, Idle
  <2>2. QED
    BY <1>2, <2>1
<1>6. ASSUME NEW w \in Workers, UnregisterAskTeam(w) PROVE StillTrue(req[w])'
  <2>1. /\ req'[w].pc = "revoke"
        /\ req'[w].user = req[w].user /\ req'[w].event = req[w].event
    BY <1>1, <1>6, AskingRequest, GotoKeepsType DEF UnregisterAskTeam
  <2>2. ~HasTeamInEvent(req[w].user, req[w].event)
    BY <1>6 DEF UnregisterAskTeam, MayLeave
  <2>3. QED
    BY <1>6, <2>1, <2>2 DEF StillTrue, UnregisterAskTeam, HasTeamInEvent
<1>7. ASSUME NEW w \in Workers, CreateTeamRole(w) PROVE StillTrue(req[w])'
  <2>1. /\ req'[w].pc = "saveTeam"
        /\ req'[w].user = req[w].user /\ req'[w].event = req[w].event
    BY <1>1, <1>7, AskingRequest, GotoKeepsType DEF CreateTeamRole
  <2>2. Participant(req[w].user, req[w].event)
    BY <1>7 DEF CreateTeamRole, IsParticipant, Participant
  <2>3. QED
    BY <1>7, <2>1, <2>2 DEF StillTrue, CreateTeamRole, Participant
<1>8. ASSUME NEW w \in Workers, SaveTeam(w), w \notin overtaken' PROVE StillTrue(req[w])'
  <2>1. PICK t \in TeamIds : req'[w] = [pc |-> "addMember", user |-> req[w].user,
                                        event |-> req[w].event, team |-> t]
    BY <1>1, <1>8, SavingTeam
  <2>2. roles' = roles /\ Participant(req[w].user, req[w].event)
    BY <1>8 DEF SaveTeam, TrueUnlessOvertaken, StillTrue
  <2>3. QED
    BY <2>1, <2>2 DEF StillTrue, Participant
<1>9. ASSUME NEW w \in Workers, Step(w) PROVE TrueUnlessOvertaken'
  <2>1. w \notin overtaken' => StillTrue(req[w])'
    BY <1>9, <1>3, <1>4, <1>5, <1>6, <1>7, <1>8 DEF Step
  <2>2. QED
    BY <1>9, <2>1, OthersStayTrue DEF TrueUnlessOvertaken
<1>10. CASE Organizer \/ Appoint \/ UNCHANGED vars
  <2>1. UNCHANGED <<team, members, req, overtaken>> /\ roles \subseteq roles'
    BY <1>10 DEF Organizer, Appoint, vars
  <2>2. QED
    BY <2>1 DEF TrueUnlessOvertaken, StillTrue, HasTeamInEvent, Participant
<1>11. QED
  BY <1>9, <1>10 DEF Next

\* In every reachable state, the requests that are not overtaken are true.
LEMMA AlwaysTrue == Spec => []TrueUnlessOvertaken
<1>1. Init => TrueUnlessOvertaken
  BY DEF Init, TrueUnlessOvertaken, StillTrue, Idle
<1>2. QED
  BY <1>1, TrueStep, Inductive, PTL DEF Spec

\* The stage of a user follows from two facts only.
StageOf(hasTeam, registered) ==
    IF hasTeam THEN IF registered THEN "member" ELSE "stray"
               ELSE IF registered THEN "registered" ELSE "out"

\* Stage is that, user by user.
LEMMA StagesFollow ==
    /\ Stage = [u \in Users |-> [e \in EventIds |->
                   StageOf(HasTeamInEvent(u, e), Participant(u, e))]]
    /\ Stage' = [u \in Users |-> [e \in EventIds |->
                   StageOf(HasTeamInEvent(u, e)', Participant(u, e)')]]
BY DEF Stage, StageOf, Participant

\* Stage gives every user a stage in every event.
LEMMA StagesAreStages ==
    /\ Stage \in [Users -> [EventIds -> Lifecycle!Stages]]
    /\ Stage' \in [Users -> [EventIds -> Lifecycle!Stages]]
BY StagesFollow DEF StageOf, Lifecycle!Stages

\* Every step moves one user along the stages, or none, or is late.
LEMMA StepFollowsParticipation ==
    ASSUME IInv, TrueUnlessOvertaken, [Next]_vars
    PROVE  Lifecycle!Next \/ LateStatement \/ Stage' = Stage
<1>1. TypeOK
  BY DEF IInv
\* Whoever registers was out, or a stray.
<1>2. ASSUME NEW w \in Workers, GrantParticipantRole(w)
      PROVE  Lifecycle!Next
  <2>1. PICK u \in Users, e \in EventIds : u = req[w].user /\ e = req[w].event
    BY <1>1, <1>2, AskingRequest DEF GrantParticipantRole, Asking
  <2>2. /\ team' = team /\ members' = members
        /\ roles' = roles \cup {<<u, e, "participant">>}
        /\ ~Participant(u, e)
    BY <1>2, <2>1 DEF GrantParticipantRole, Participant
  <2>3. \A x \in Users, f \in EventIds : HasTeamInEvent(x, f)' = HasTeamInEvent(x, f)
    BY <2>2 DEF HasTeamInEvent
  <2>4. /\ Participant(u, e)'
        /\ \A x \in Users, f \in EventIds : x # u \/ f # e =>
               Participant(x, f)' = Participant(x, f)
    BY <2>2 DEF Participant
  <2> DEFINE s == StageOf(HasTeamInEvent(u, e)', Participant(u, e)')
  <2>5. Stage' = [Stage EXCEPT ![u][e] = s]
    <3>1. \A x \in Users, f \in EventIds :
            Stage'[x][f] = IF x = u /\ f = e THEN s ELSE Stage[x][f]
      BY <2>1, <2>3, <2>4, StagesFollow
    <3>2. QED
      BY <2>1, <3>1, StagesAreStages
  <2>6. <<Stage[u][e], s>> \in {<<"out", "registered">>, <<"stray", "member">>}
    <3>1. Stage[u][e] = StageOf(HasTeamInEvent(u, e), Participant(u, e))
      BY StagesFollow
    <3>2. CASE HasTeamInEvent(u, e)
      <4>1. Stage[u][e] = "stray" /\ s = "member"
        BY <2>1, <2>2, <2>3, <2>4, <3>1, <3>2 DEF StageOf
      <4>2. QED
        BY <4>1
    <3>3. CASE ~HasTeamInEvent(u, e)
      <4>1. Stage[u][e] = "out" /\ s = "registered"
        BY <2>1, <2>2, <2>3, <2>4, <3>1, <3>3 DEF StageOf
      <4>2. QED
        BY <4>1
    <3>4. QED
      BY <3>2, <3>3
  <2>7. s \in Lifecycle!Stages /\ Lifecycle!Move(u, e, s)
    BY <2>5, <2>6 DEF Lifecycle!Move, Lifecycle!Moves, Lifecycle!Stages
  <2>8. QED
    BY <2>1, <2>7 DEF Lifecycle!Next
\* Whoever unregisters is registered and, unless overtaken, has no team.
<1>3. ASSUME NEW w \in Workers \ overtaken, RevokeParticipantRole(w)
      PROVE  Lifecycle!Next
  <2>1. PICK u \in Users, e \in EventIds : u = req[w].user /\ e = req[w].event
    BY <1>1, <1>3, AskingRequest DEF RevokeParticipantRole, Asking
  <2>2. /\ team' = team /\ members' = members
        /\ roles' = roles \ {<<u, e, "participant">>}
        /\ Participant(u, e)
    BY <1>3, <2>1 DEF RevokeParticipantRole, Participant
  <2>3. ~HasTeamInEvent(u, e)
    BY <1>3, <2>1 DEF RevokeParticipantRole, TrueUnlessOvertaken, StillTrue
  <2>4. \A x \in Users, f \in EventIds : HasTeamInEvent(x, f)' = HasTeamInEvent(x, f)
    BY <2>2 DEF HasTeamInEvent
  <2>5. /\ ~Participant(u, e)'
        /\ \A x \in Users, f \in EventIds : x # u \/ f # e =>
               Participant(x, f)' = Participant(x, f)
    BY <2>2 DEF Participant
  <2>6. StageOf(HasTeamInEvent(u, e)', Participant(u, e)') = "out"
    BY <2>1, <2>3, <2>4, <2>5 DEF StageOf
  <2>7. Stage' = [Stage EXCEPT ![u][e] = "out"]
    <3>1. \A x \in Users, f \in EventIds :
            Stage'[x][f] = IF x = u /\ f = e THEN "out" ELSE Stage[x][f]
      BY <2>1, <2>4, <2>5, <2>6, StagesFollow
    <3>2. QED
      BY <2>1, <3>1, StagesAreStages
  <2>8. Stage[u][e] = "registered"
    BY <2>1, <2>2, <2>3, StagesFollow DEF StageOf
  <2>9. Lifecycle!Move(u, e, "out")
    BY <2>7, <2>8 DEF Lifecycle!Move, Lifecycle!Moves
  <2>10. QED
    BY <2>1, <2>9 DEF Lifecycle!Next, Lifecycle!Stages
\* Whoever gets a team has none and, unless overtaken, is registered.
<1>4. ASSUME NEW w \in Workers \ overtaken, AddMember(w)
      PROVE  Lifecycle!Next
  <2>1. PICK u \in Users, e \in EventIds : u = req[w].user /\ e = req[w].event
    BY <1>1, <1>4, AddingRequest DEF AddMember, Adding
  <2>2. roles' = roles /\ ~HasTeamInEvent(u, e)
    BY <1>4, <2>1 DEF AddMember, MemberInsertable
  <2>3. Participant(u, e)
    BY <1>4, <2>1 DEF AddMember, TrueUnlessOvertaken, StillTrue
  <2>4. /\ HasTeamInEvent(u, e)'
        /\ \A x \in Users, f \in EventIds : x # u \/ f # e =>
               HasTeamInEvent(x, f)' = HasTeamInEvent(x, f)
    <3>1. \A x \in Users, f \in EventIds :
            HasTeamInEvent(x, f) \in BOOLEAN /\ HasTeamInEvent(x, f)' \in BOOLEAN
      BY DEF HasTeamInEvent
    <3>2. ASSUME NEW x \in Users, NEW f \in EventIds
          PROVE  HasTeamInEvent(x, f)' <=> HasTeamInEvent(x, f) \/ (x = u /\ f = e)
      BY <1>4, <2>1, AddingMember
    <3>3. QED
      BY <2>1, <3>1, <3>2
  <2>5. \A x \in Users, f \in EventIds : Participant(x, f)' = Participant(x, f)
    BY <2>2 DEF Participant
  <2>6. StageOf(HasTeamInEvent(u, e)', Participant(u, e)') = "member"
    BY <2>1, <2>3, <2>4, <2>5 DEF StageOf
  <2>7. Stage' = [Stage EXCEPT ![u][e] = "member"]
    <3>1. \A x \in Users, f \in EventIds :
            Stage'[x][f] = IF x = u /\ f = e THEN "member" ELSE Stage[x][f]
      BY <2>1, <2>4, <2>5, <2>6, StagesFollow
    <3>2. QED
      BY <2>1, <3>1, StagesAreStages
  <2>8. Stage[u][e] = "registered"
    BY <2>1, <2>2, <2>3, StagesFollow DEF StageOf
  <2>9. Lifecycle!Move(u, e, "member")
    BY <2>7, <2>8 DEF Lifecycle!Move, Lifecycle!Moves
  <2>10. QED
    BY <2>1, <2>9 DEF Lifecycle!Next, Lifecycle!Stages
<1>5. ASSUME NEW w \in Workers, SaveTeam(w) PROVE Stage' = Stage
  <2>1. roles' = roles /\ members' = members
    BY <1>5 DEF SaveTeam
  <2>2. \A x \in Users, f \in EventIds : HasTeamInEvent(x, f)' = HasTeamInEvent(x, f)
    BY <1>1, <1>5, <2>1, NewTeamHasNoMembers DEF HasTeamInEvent
  <2>3. QED
    BY <2>1, <2>2 DEF Stage
<1>6. CASE UNCHANGED <<roles, team, members>>
  BY <1>6 DEF Stage, HasTeamInEvent
<1>7. CASE Appoint
  <2>1. \A x \in Users, f \in EventIds : HasTeamInEvent(x, f)' = HasTeamInEvent(x, f)
    BY <1>7 DEF Appoint, HasTeamInEvent
  <2>2. QED
    BY <1>1, <1>7, <2>1, Appointing DEF Stage
<1>8. ASSUME NEW w \in Workers, AddMember(w) \/ RevokeParticipantRole(w)
      PROVE  Lifecycle!Next \/ LateStatement
  BY <1>3, <1>4, <1>8 DEF LateStatement
<1>9. QED
  BY <1>1, <1>2, <1>5, <1>6, <1>7, <1>8, Advancing
     DEF Next, Step, Organizer, Advances, vars

\* However many requests overlap, crash or fail, each user registers, then has
\* a team, and leaves only without one.  The step that breaks this is run on a
\* check another request has undone: see the run teams_unregistered.
THEOREM UsersFollowParticipation == Spec => FollowsParticipation
<1>1. Init => Lifecycle!Init
  BY DEF Init, Lifecycle!Init, Stage, HasTeamInEvent
<1>2. IInv /\ TrueUnlessOvertaken /\ [Next]_vars => [Lifecycle!Next \/ LateStatement]_Stage
  BY StepFollowsParticipation
<1>3. QED
  BY <1>1, <1>2, AlwaysTrue, Inductive, PTL DEF Spec, FollowsParticipation
=============================================================================
