----------------------------- MODULE Submissions -----------------------------
(* The submissions of one event: create, edit, submit and disqualify, served *)
(* by concurrent goroutines against one Postgres.  Submissions of different  *)
(* events never meet in a statement, so one event is enough.                 *)
(*                                                                           *)
(* As in Events, each SQL statement commits alone.  Edit, submit and         *)
(* disqualify load the row, decide on the copy, and write the whole copy     *)
(* back (PgSubmissionRepository.Update): whatever another request wrote in   *)
(* between is lost.  The event's status and deadline are the organizer's to  *)
(* change at any moment, and time passes between any two steps.              *)
EXTENDS EventDomain, Integers

CONSTANTS
    Workers, Users, Teams,
    Admins,          \* users with is_admin
    SubIds,          \* the uuids NewDraftSubmission may draw
    Texts,           \* title, description and links, as one value
    Horizon,         \* bound: the clock stops here
    EventStatuses,   \* statuses the event goes through
    AuditInsertable, \* whether the INSERT of PgAuditLogWriter fits audit_log
    None

Times == 0..Horizon
SubStatuses == {"draft", "submitted", "disqualified"}

\* cover_image_url stays empty: the statement that would look up an upload
\* names columns table uploads does not have.
Row == [team: Teams, status: SubStatuses, text: Texts, submittedAt: Times \cup {None}]

Idle == [pc |-> "idle", user |-> None, id |-> None, sub |-> None, due |-> None]

\* "team" has found the event open and looks for the caller's team.  "edit" is
\* a draft edit or a final submit that has loaded its row, "check" has read the
\* event's deadline too, "stamp" is a final submit that has passed the check,
\* and "write" holds the row it is about to write.
Request == {Idle}
    \cup [pc: {"team"}, user: Users, id: {None}, sub: {None}, due: {None}]
    \cup [pc: {"save"}, user: Users, id: {None}, sub: Row, due: {None}]
    \cup [pc: {"check"}, user: Users, id: SubIds, sub: Row, due: Times]
    \cup [pc: {"edit", "stamp", "write", "disqualify", "audit"}, user: Users,
          id: SubIds, sub: Row, due: {None}]

ASSUME HorizonIsNat == Horizon \in Nat
ASSUME AdminsAreUsers == Admins \subseteq Users
ASSUME KnownStatuses == EventStatuses \subseteq Statuses
ASSUME AuditIsBoolean == AuditInsertable \in BOOLEAN
ASSUME NoneIsNoValue ==
    None \notin Row \cup Users \cup Teams \cup SubIds \cup Times

VARIABLES
    submission,   \* table submissions: id -> row or None
    audit,        \* submissions with a disqualification entry in audit_log
    status,       \* events.status
    deadline,     \* events.submission_deadline_at
    now,          \* the wall clock
    teamOf,       \* tables teams, team_members: each user's team in this event
    req,          \* what each goroutine holds of its request
    overtaken     \* history: goroutines whose loaded row another has updated since

vars == <<submission, audit, status, deadline, now, teamOf, req, overtaken>>
eventVars == <<status, deadline, now, teamOf>>

Saved == {s \in SubIds : submission[s] # None}

Init ==
    /\ submission = [s \in SubIds |-> None]
    /\ audit = {}
    /\ status \in EventStatuses
    /\ deadline \in Times
    /\ now = 0
    /\ teamOf = [u \in Users |-> None]
    /\ req = [w \in Workers |-> Idle]
    /\ overtaken = {}

---------------------------------------------------------------------------
(* POST /events/{slug}/submissions: CreateSubmissionService.Create           *)

NewDraftSubmission(team, text) ==
    [team |-> team, status |-> "draft", text |-> text, submittedAt |-> None]

\* Mutant: the team lookup's answer is used unchecked.
HasTeam_Unchecked(u) == u \in Users
HasTeam(u) == teamOf[u] # None

\* I9; mutant: the status is not looked at.
CheckCanCreate_Always(st) == st \in Statuses
CheckCanCreate(st) == st = "submissions_open"

\* The event is read and its status checked.
CreateCheck(w) ==
    /\ req[w].pc = "idle"
    /\ CheckCanCreate(status)
    /\ \E u \in Users :
         req' = [req EXCEPT ![w] = [Idle EXCEPT !.pc = "team", !.user = u]]
    /\ UNCHANGED <<submission, audit, eventVars, overtaken>>

\* The caller's team is looked up and the row put together.  The lookup of an
\* existing submission in between decides nothing: its error is discarded, so
\* a failed read is taken for "none yet".
CreateFindTeam(w) ==
    /\ req[w].pc = "team"
    /\ HasTeam(req[w].user)
    /\ \E text \in Texts :
         req' = [req EXCEPT ![w].pc = "save",
                     ![w].sub = NewDraftSubmission(teamOf[req[w].user], text)]
    /\ UNCHANGED <<submission, audit, eventVars, overtaken>>

\* The unique index on (team_id, event_id); mutant: not there.
TeamFree_NoIndex(team) == team \in Teams
TeamFree(team) == \A s \in Saved : submission[s].team # team

CreateSave(w) ==
    /\ req[w].pc = "save"
    /\ TeamFree(req[w].sub.team)
    /\ \E s \in SubIds \ Saved :
         submission' = [submission EXCEPT ![s] = req[w].sub]
    /\ req' = [req EXCEPT ![w] = Idle]
    /\ UNCHANGED <<audit, eventVars, overtaken>>

---------------------------------------------------------------------------
(* PATCH /submissions/{id} and POST /submissions/{id}/submit:                *)
(* UpdateSubmissionService.Update and FinalSubmitService.Submit              *)

\* The row is loaded and the caller's team looked up: one step, for whoever
\* gets their team in between might as well have had it before.
EditLoad(w) ==
    /\ req[w].pc = "idle"
    /\ \E u \in Users, s \in Saved :
         /\ teamOf[u] = submission[s].team
         /\ req' = [req EXCEPT ![w] = [Idle EXCEPT !.pc = "edit", !.user = u, !.id = s,
                                                   !.sub = submission[s]]]
    /\ UNCHANGED <<submission, audit, eventVars, overtaken>>

\* The event is read.
EditReadDeadline(w) ==
    /\ req[w].pc = "edit"
    /\ req' = [req EXCEPT ![w].pc = "check", ![w].due = deadline]
    /\ UNCHANGED <<submission, audit, eventVars, overtaken>>

\* CheckCanEdit, against the deadline that was read; mutants: each half dropped.
CanEdit_AnyStatus(sub, due) == sub \in Row /\ now <= due
CanEdit_AnyTime(sub, due) == sub.status = "draft" /\ due \in Times
CanEdit(sub, due) == sub.status = "draft" /\ now <= due

Revised(sub, text) == [sub EXCEPT !.text = text]

\* An edit of the draft is checked and applied.
EditCheck(w) ==
    /\ req[w].pc = "check"
    /\ CanEdit(req[w].sub, req[w].due)
    /\ \E text \in Texts :
         req' = [req EXCEPT ![w].pc = "write", ![w].due = None,
                            ![w].sub = Revised(req[w].sub, text)]
    /\ UNCHANGED <<submission, audit, eventVars, overtaken>>

\* Submit checks ...
SubmitCheck(w) ==
    /\ req[w].pc = "check"
    /\ CanEdit(req[w].sub, req[w].due)
    /\ req' = [req EXCEPT ![w].pc = "stamp", ![w].due = None]
    /\ UNCHANGED <<submission, audit, eventVars, overtaken>>

\* ... and reads the clock again for the time it records.
Submit(w) ==
    /\ req[w].pc = "stamp"
    /\ req' = [req EXCEPT ![w].pc = "write",
                          ![w].sub = [@ EXCEPT !.status = "submitted", !.submittedAt = now]]
    /\ UNCHANGED <<submission, audit, eventVars, overtaken>>

\* UPDATE submissions SET ...: every column but team and event; mutant:
\* submitted_at left out.
Overwrite_KeepTime(old, sub) == [sub EXCEPT !.team = old.team, !.submittedAt = old.submittedAt]
Overwrite(old, sub) == [sub EXCEPT !.team = old.team]

\* The other requests about the same row: they hold what it was.
Others(w) == {v \in Workers \ {w} : req[v].id = req[w].id}

EditWrite(w) ==
    /\ req[w].pc = "write"
    /\ req[w].id \in Saved
    /\ submission' = [submission EXCEPT ![req[w].id] = Overwrite(@, req[w].sub)]
    /\ overtaken' = (overtaken \ {w}) \cup Others(w)
    /\ req' = [req EXCEPT ![w] = Idle]
    /\ UNCHANGED <<audit, eventVars>>

---------------------------------------------------------------------------
(* POST /submissions/{id}/disqualify: DisqualifyService.Disqualify *)

DisqualifyLoad(w) ==
    /\ req[w].pc = "idle"
    /\ \E u \in Admins, s \in Saved :
         req' = [req EXCEPT ![w] = [Idle EXCEPT !.pc = "disqualify", !.user = u, !.id = s,
                     !.sub = [submission[s] EXCEPT !.status = "disqualified"]]]
    /\ UNCHANGED <<submission, audit, eventVars, overtaken>>

DisqualifyWrite(w) ==
    /\ req[w].pc = "disqualify"
    /\ req[w].id \in Saved
    /\ submission' = [submission EXCEPT ![req[w].id] = Overwrite(@, req[w].sub)]
    /\ overtaken' = (overtaken \ {w}) \cup Others(w)
    /\ req' = [req EXCEPT ![w].pc = "audit"]
    /\ UNCHANGED <<audit, eventVars>>

DisqualifyAudit(w) ==
    /\ req[w].pc = "audit"
    /\ AuditInsertable
    /\ audit' = audit \cup {req[w].id}
    /\ overtaken' = overtaken \ {w}
    /\ req' = [req EXCEPT ![w] = Idle]
    /\ UNCHANGED <<submission, eventVars>>

---------------------------------------------------------------------------
(* The world outside the handlers *)

\* The pending statement fails, a check refuses, the client hangs up, or the
\* process dies: the request ends and nothing is undone.
Fail(w) ==
    /\ req[w].pc # "idle"
    /\ overtaken' = overtaken \ {w}
    /\ req' = [req EXCEPT ![w] = Idle]
    /\ UNCHANGED <<submission, audit, eventVars>>

Tick ==
    /\ now < Horizon
    /\ now' = now + 1
    /\ UNCHANGED <<submission, audit, status, deadline, teamOf, req, overtaken>>

\* PATCH /events/{slug}, by another component: stale writes may even take the
\* status back (see Events), so any status may follow any other.
OrganizerPatch ==
    /\ status' \in EventStatuses
    /\ deadline' \in Times
    /\ UNCHANGED <<submission, audit, now, teamOf, req, overtaken>>

\* A user gets a team, by the teams component; nobody leaves one.
JoinTeam ==
    /\ \E u \in Users, team \in Teams :
         /\ teamOf[u] = None
         /\ teamOf' = [teamOf EXCEPT ![u] = team]
    /\ UNCHANGED <<submission, audit, status, deadline, now, req, overtaken>>

Step(w) ==
    \/ CreateCheck(w) \/ CreateFindTeam(w) \/ CreateSave(w)
    \/ EditLoad(w) \/ EditReadDeadline(w) \/ EditCheck(w)
    \/ SubmitCheck(w) \/ Submit(w) \/ EditWrite(w)
    \/ DisqualifyLoad(w) \/ DisqualifyWrite(w) \/ DisqualifyAudit(w)
    \/ Fail(w)

Next == (\E w \in Workers : Step(w)) \/ Tick \/ OrganizerPatch \/ JoinTeam

Spec == Init /\ [][Next]_vars

---------------------------------------------------------------------------
(* Properties *)

\* The tables and the requests hold what the code puts there.
TypeOK ==
    /\ submission \in [SubIds -> Row \cup {None}]
    /\ audit \subseteq SubIds
    /\ status \in Statuses
    /\ deadline \in Times /\ now \in Times
    /\ teamOf \in [Users -> Teams \cup {None}]
    /\ req \in [Workers -> Request]
    /\ overtaken \subseteq Workers

\* I2: one submission per team, though the check for one is not decisive and
\* two members may create at the same moment.
OneSubmissionPerTeam ==
    \A s, t \in Saved : submission[s].team = submission[t].team => s = t

\* However stale the copies that are written back, a submitted row carries
\* the time it was submitted and a draft carries none.
SubmittedAtMatchesStatus ==
    \A s \in Saved :
        /\ submission[s].status = "submitted" => submission[s].submittedAt # None
        /\ submission[s].status = "draft" => submission[s].submittedAt = None

\* A submission whose deadline has passed, and that no request may still
\* change: none has passed the check, and what a pending check will compare
\* with has passed too.
Closed(s) ==
    /\ submission[s] # None
    /\ now > deadline
    /\ \A w \in Workers : req[w].id = s =>
         /\ req[w].pc \notin {"stamp", "write"}
         /\ req[w].pc = "check" => req[w].due < now

\* I4 (I11 in the code): while the deadline stays, a closed submission stays closed
\* and only an admin changes it.  The event is read, the clock compared and
\* the row written at three different moments, and a request that passed the
\* check in time is written (and stamped with the second reading of the clock,
\* see Submit) at any time after the deadline.
DeadlineHolds ==
    [][\A s \in SubIds : Closed(s) /\ deadline' = deadline =>
         /\ Closed(s)'
         /\ submission'[s] # submission[s] =>
              \E w \in Workers : req[w].pc = "disqualify" /\ req[w].id = s]_vars

\* Once a row is no longer a draft and no request still holds a draft copy of
\* it, it is locked for good; from then on only a disqualification in flight
\* may still put an old text back.
Locked(s) ==
    /\ submission[s] # None
    /\ submission[s].status # "draft"
    /\ \A w \in Workers : req[w].id = s =>
         /\ req[w].pc \notin {"stamp", "write"}
         /\ req[w].pc \in {"edit", "check"} => req[w].sub.status # "draft"

LockedStaysLocked ==
    [][\A s \in SubIds : Locked(s) =>
         /\ Locked(s)'
         /\ submission'[s] # submission[s] =>
              \E w \in Workers : req[w].pc = "disqualify" /\ req[w].id = s]_vars

\* "submitted (locked - no edits allowed)", docs/state-machines/submission.md:
\* what was handed in does not become a draft again and keeps its text.  The
\* code does not keep it: an edit that loaded the draft before is written
\* after the submit.
SubmittedIsLocked ==
    [][\A s \in Saved : submission[s].status = "submitted" =>
         submission'[s].status # "draft" /\ submission'[s].text = submission[s].text]_vars

\* An edit or a disqualification writes the whole row back though another
\* request has written it since it was loaded.
LostUpdate == \E w \in overtaken : EditWrite(w) \/ DisqualifyWrite(w)

Column(f) == [s \in SubIds |-> IF submission[s] = None THEN None ELSE submission[s][f]]

Lifecycle == INSTANCE SubmissionLifecycle WITH status <- Column("status"), text <- Column("text")

\* However requests interleave, crash or fail, a draft is edited until it is
\* handed in or disqualified and is locked from then on; a write based on a
\* row another request has changed is the only step outside that life cycle.
FollowsLifecycle ==
    Lifecycle!Init /\ [][Lifecycle!Next \/ LostUpdate]_<<Column("status"), Column("text")>>
=============================================================================
