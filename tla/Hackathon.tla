----------------------------- MODULE Hackathon -----------------------------
(* One event from its creation to its last submission: Events, Teams and     *)
(* Submissions against one database.  Submissions takes the status and the   *)
(* deadline from the event's row and the callers' teams from team_members;   *)
(* the requests of the three components interleave freely.                   *)
EXTENDS Platform

CONSTANTS
    Authors,   \* goroutines serving the submissions component
    Contest,   \* the event whose submissions are followed
    Admins, SubIds, Texts, Horizon, AuditInsertable

ASSUME ContestIsEvent == Contest \in EventIds
ASSUME DeadlinesAreTimes == Deadlines \subseteq 0..Horizon

VARIABLES
    submission, audit, now,   \* as in Submissions
    entry,                    \* what each author's goroutine holds
    overtakenEntries          \* history, as overtaken in Submissions

\* What Submissions reads of the events table and of team_members; before there
\* is an event nobody gets as far as a deadline.
Deadline == IF event[Contest] = None THEN 0 ELSE event[Contest].submissionDeadlineAt

Membership(u) == {t \in TeamIds : team[t] # None /\ team[t].event = Contest /\ <<u, t>> \in members}

TeamOf == [u \in Users |-> IF Membership(u) = {} THEN None ELSE CHOOSE t \in Membership(u) : TRUE]

S == INSTANCE Submissions WITH
        Workers <- Authors, Teams <- TeamIds, EventStatuses <- Statuses,
        status <- Status[Contest], deadline <- Deadline, teamOf <- TeamOf, req <- entry,
        overtaken <- overtakenEntries

ASSUME HorizonIsNat == Horizon \in Nat
ASSUME AdminsAreUsers == Admins \subseteq Users
ASSUME AuditIsBoolean == AuditInsertable \in BOOLEAN
ASSUME NoneIsNoSubmission == None \notin S!Row \cup TeamIds \cup SubIds \cup S!Times

submissionVars == <<submission, audit, now, entry, overtakenEntries>>
hackathonVars == <<allVars, submissionVars>>

HackathonInit ==
    /\ PlatformInit
    /\ submission = [s \in SubIds |-> None]
    /\ audit = {}
    /\ now = 0
    /\ entry = [a \in Authors |-> S!Idle]
    /\ overtakenEntries = {}

PlatformMoves == PlatformNext /\ UNCHANGED submissionVars

AuthorMoves == UNCHANGED allVars /\ (\E a \in Authors : S!Step(a))

TimePasses == UNCHANGED allVars /\ S!Tick

HackathonNext == PlatformMoves \/ AuthorMoves \/ TimePasses

HackathonSpec == HackathonInit /\ [][HackathonNext]_hackathonVars

---------------------------------------------------------------------------
(* Properties *)

\* There are submissions only of an event that has opened them: the event is
\* read long before the submission is written, and a stale write may have
\* closed it again by then.
EntriesFollowEvent ==
    \A s \in S!Saved : "submissions_open" \in held[Contest]

\* A submission is the work of a team of its event that has a member, and no
\* member organizes the event.  Appointing, registering, joining and
\* submitting are checked by three components at different moments; it holds
\* however their requests overlap.  That a member is registered does not: see
\* MembersAreRegistered in Teams.
EntriesHaveAuthors ==
    \A s \in S!Saved :
        LET t == submission[s].team
            authors == {u \in Users : <<u, t>> \in members}
        IN  /\ team[t] # None /\ team[t].event = Contest
            /\ authors # {}
            /\ \A u \in authors : ~Organizes(u, Contest)
=============================================================================
