# Verification of the hackathon platform

The repository is a Go monolith (`src/cmd/api`, `src/internal`) over Postgres,
Redis and MinIO, with a Next.js client (`src/web`). This directory holds TLA+
models of its stateful core, the TLC runs that check them, and TLAPS proofs of
their main properties. Paths below are relative to `src/`.

1. [The system](#1-the-system): components, state, interactions, what is hard
2. [Modules and code](#2-modules-and-code)
3. [Runs](#3-runs): what each one checks, its bounds, fairness
4. [Proofs](#4-proofs)
5. [Where code and documents disagree](#5-where-code-and-documents-disagree)
6. [What is not modelled](#6-what-is-not-modelled)
7. [Plan](#7-plan)

## 1. The system

### How a request runs

Every HTTP request is served by a goroutine of its own. It passes the
middleware (rate limit, JWT, blacklist), then a handler calls one use case
(`internal/*/usecase`), which calls repositories (`internal/*/repository`).
**No use case opens a transaction**: each SQL statement commits by itself, and
rows are loaded, changed in memory and written back with
`UPDATE ... SET <every column> WHERE id = $1`, without a version check. So the
unit of interleaving is one SQL statement or one Redis command, and two things
protect the data: the constraints of the migrations (`migrations/*.sql`) and
conditional updates (`... AND revoked_at IS NULL`, `... AND is_used = false`).
A statement may fail, and the process may die between two of them; nothing is
rolled back.

### Components

| component | state it keeps | operations that change it | what makes it correct |
|---|---|---|---|
| Events (`internal/events`) | `events`, the organizer rows of `event_roles` | create, update (status, team size, dates) | status follows the life cycle (I15); a slug names one event; a published event has its organizer; team size frozen once registration is over |
| Teams (`internal/teams`) | `teams`, `team_members`, the participant rows of `event_roles` | register, unregister, create a team | one team per user and event (I1); members are registered; names and invite codes are distinct |
| Submissions (`internal/submissions`) | `submissions`, `audit_log` | create, edit, submit, disqualify | one submission per team (I2); a submitted row is locked; after the deadline nothing changes; the time of submission goes with the status |
| Uploads (`internal/submissions/usecase/upload.go`) | `uploads`, objects in MinIO, `cover_image_url` | upload | a row for every object, one cover per submission |
| Accounts (`internal/auth/usecase/register.go`, `verify_email.go`) | `users`, `email_verification_tokens` | register, register again while unverified, verify | an address has one user; verified means a mail arrived; a token works once |
| Email queue (`internal/shared/email`) | Redis list `email_queue` | push (by Accounts), pop and send (by the worker goroutine `main` starts) | a mail is sent at most once, and all are taken up |
| Sessions (`internal/auth/usecase/login.go`, `refresh.go`, `logout.go`, `internal/shared/middleware`) | `refresh_tokens`, Redis keys `revoked:{jti}` | log in, refresh, log out; the JWT middleware reads | one live refresh token per login; a logout is final; a logged-out access token is refused |
| Passkeys (`internal/auth/usecase/webauthn.go`) | `webauthn_credentials`, challenges in Redis | register and log in with a passkey | a challenge is answered once; sign counts do not go back |
| Rate limiter (`internal/shared/middleware/rate_limit.go`) | Redis sorted sets | one entry per request | at most `limit` admissions per window |
| Judging (`internal/judging`) | `rubrics`, `judge_assignments`, `scores`, `normalized_scores` | define rubrics, assign, score, normalize | arithmetic of scores; the guards of the event's transitions |
| Voting, Admin | two port files each, with a package clause | none | - |
| Platform (`cmd/api/main.go`) | wiring, migrations at start-up, the mail worker | start, shut down | what holds across components |
| Shared plumbing (`internal/shared`) | none of its own | configuration, errors, captcha | - |
| Web frontend (`web`) | access token in memory, refresh token in `sessionStorage` | silent refresh on load | the stored refresh token is the live one |

### How they interact

- Through **tables**: Teams and Submissions read `events.status` and the
  deadlines that Events writes; Events and Teams both insert into
  `event_roles` without looking at each other's checks (the key is the triple
  user, event, role); Submissions looks up the caller's team in `team_members`.
- Through **Redis**: Accounts pushes mails the worker pops; logout writes the
  blacklist every protected route reads; the rate limiter and the passkey
  challenges have keys of their own.
- There are no callbacks or messages between components otherwise. The two
  long-lived processes beside the request goroutines are the mail worker and
  the clock (deadlines, token lifetimes, Redis expiry).

### What is hard

- **Lost updates**: a row is loaded, checked and written back whole, in
  separate statements. A PATCH restores the status another PATCH moved; an edit
  takes a submitted entry back to draft.
- **Checks that do not decide**: slug, team, submission, name, code and e-mail
  lookups run before the insert; several discard their errors, so that a failed
  read passes for "not found". Only the index met later decides.
- **Partial failure**: an event without its organizer, a team without its
  owner, a disqualification without its audit entry, a spent verification token
  of an unverified account.
- **Retry and duplication**: two refreshes present one token, two verifications
  one link, a logout meets a refresh half-way, an authenticator's answer is sent
  twice.
- **Time**: deadlines and lifetimes are compared at one step and relied on at
  a later one; the rate limiter scores a request by a clock it read before its
  transaction.
- **Delivery**: the worker takes a mail off the list before it sends it.

`PROJECT.json` lists each of these hazards at its line with the properties that
cover it.

## 2. Modules and code

A request is a record `req[w]` of the goroutine `w` serving it: `pc` names the
statement it runs next, the other fields are what it has read so far. Each
action runs one statement (with the in-memory work up to the next one). `Fail`
ends a request at any pending statement: a check that refuses, a constraint, a
lost connection, a client that hangs up and a dead process look the same to
the tables. Requests that are refused before their first write leave no trace,
so guards are written on the path that goes on.

Reads that cannot change what happens are left out, with a comment saying why
(for instance the lookup of an existing submission: its error is discarded and
the index decides). Uuids are drawn from a finite set of unused ones.
Definitions that carry a suffix (`Insertable_NoIndex`) are mutants: the same
operator with a plausible bug, kept beside it, used by no specification.

### EventDomain, EventLifecycle, Events

`EventDomain` is the vocabulary: the statuses and `allowedTransitions` of
`internal/events/domain/event.go` and the roles of migration 004.
`Events` models `CreateEventService.Create` (`CreateCheckSlug`, `CreateSave`,
`CreateGrant`: the slug lookup, INSERT of the event, INSERT of the role) and
`UpdateEventService.Update` (`UpdateLoad`, `UpdateAuthorize`, `UpdateWrite`:
SELECT, role lookup with all in-memory checks, UPDATE). `Insertable` and
`SizeInRange` are the unique index and the CHECK of migration 002. A row keeps
slug, creator, status, team size and one deadline; the deadline stands for the
fields `Update` copies without looking at them. Two history variables:
`held` are the statuses an event has ever had, `overtaken` the goroutines whose
loaded row another update has written since.
`EventLifecycle` is the abstract promise: a draft is created, then moves along
edges only. `FollowsLifecycle` says how much of it the code keeps, whatever
overlaps: every step of `Events` is a step of `EventLifecycle` or a stutter, but
for the UPDATE of a request that another one overtook (`LostUpdate`).

### Participation, Teams

`Teams` models `RegisterService.Register` (event and deadline, then the roles
"judge", "organizer" and "participant" asked for one by one, then the grant with
`ON CONFLICT DO NOTHING`), `UnregisterService.Unregister` (role, team, delete)
and `CreateTeamService.Create` (event, role, INSERT of the team, INSERT of the
member). The caller's team, the name and the three tries at a free invite code
are looked up in between, but decide nothing: the unique indexes of migrations
005 and 006 do, as `TeamInsertable` and `MemberInsertable`. What other
components do is `Organizer` (to the event: any status, deadline passed or not)
and `Appoint` (to the roles: `POST /events` makes its caller an organizer, at any
time); judges are given at the start.
`Participation` is the abstract promise to one user: out, registered, member.
`overtaken` (history) are the goroutines about to add a member whose
registration was revoked after their check, and those about to revoke a
registration whose user has got a team after theirs. `FollowsParticipation`:
every step is one of `Participation` but for theirs (`LateStatement`), after
which a user may be a `stray`, a member who is not registered.

### SubmissionLifecycle, Submissions

`Submissions` models creating (`CreateCheck`, `CreateFindTeam`, `CreateSave`: the
event, the caller's team, the INSERT), editing, handing in and disqualifying, for
one event (no statement relates submissions of two events). Editing and handing in
begin with the same statements: `EditLoad` (the row and the caller's team) and
`EditReadDeadline` (the event, kept as `due`). Then `EditCheck` compares the
clock with `due` and changes the copy; `SubmitCheck` compares, and `Submit`
reads the clock a second time for `submitted_at` (`submission.go:75` and `:86`;
the clock may tick in between). `EditWrite` is the UPDATE of both. The organizer
moves status and deadline at will, users join teams at any time (`JoinTeam`;
`teamOf` is what the lookup in `team_members` answers), and the clock ticks
between any two steps. `overtaken` (history) are the goroutines whose loaded row
another request has written since. Two facts of the schema are parameters or
absent on purpose:

- `AuditInsertable`: the INSERT of `PgAuditLogWriter` names columns the
  `audit_log` of the migrations does not have, so with that schema it always
  fails and `AuditInsertable = FALSE`. The runs set it TRUE (the schema
  repaired): that is what the code means to do, and it has more behaviours, for
  `Fail` covers the failing INSERT.
- The deadline is never null: the column is NOT NULL.

`SubmissionLifecycle` is the abstract promise about one row: draft, submitted,
disqualified, with the text fixed once it leaves draft. `FollowsLifecycle`: every
step is one of it or a stutter, but for the UPDATE of an overtaken request
(`LostUpdate`).

### Platform, Hackathon

`Platform` puts Events and Teams on one database: the status Teams reads is the
one Events writes (`T == INSTANCE Teams WITH status <- Status`), `event_roles`
is one variable both write, and their requests interleave freely. It replaces
the nondeterministic `Organizer` and `Appoint` of Teams by the real thing. An
event without a row reads as a draft: a visitor's request for it is refused
either way.
`Hackathon` adds Submissions for one event of them (`Contest`): its status and
deadline are columns of the event's row (deadline 0 before there is one: no
submission gets that far without an event) and `TeamOf` is computed from
`team_members`, in place of the `OrganizerPatch` and `JoinTeam` of Submissions.
The three components' requests interleave statement by statement; `PlatformMoves`
is any step of Events or Teams, `AuthorMoves` any of Submissions.

### Accounts

`RegisterService.Register` on a new address (`RegisterInsert`,
`RegisterSaveToken`, `RegisterPush`), on an address registered but not verified
(`RegisterResend` instead of the insert: UPDATE of every column of the row
loaded before), `VerifyEmailService.Verify` (`Verify`, `VerifyFindUser`,
`VerifyMarkUsed`, `VerifyUpdate`), and the mail worker `RunWorker` (`PopMail`,
then `DeliverMail` or `LoseMail`). `expired` holds the tokens whose 24 hours
are over; a token may expire at any step. `inbox` holds the tokens that reached
their address: a client knows no other. The branch of `Register` that answers
tokens at once is dead code under `main`'s wiring and left out.

### Sessions

`LoginService.Login`, `RefreshService.Refresh` and `LogoutService.Logout`
against `refresh_tokens`, and `JWTMiddleware` against the blacklist. A refresh
token is a function of user and second (`IssueRefreshToken` signs `sub`, `iat`
and `exp` and nothing else), which the model keeps: `Token == [user, iat]`.
`blacklist[j]` is the time the Redis key expires. `began`, `ended` and
`loggedOut` are history variables: the login a token descends from, the logins
a logout ended, the access tokens whose logout was answered.
Below the resolution of this model: the clock ticks in whole seconds and a tick
never falls between the two readings of it that give one token its `iat` and
its `exp`; Redis keeps a lifetime in milliseconds; the application's and
Redis's clocks agree.

### Browser

One tab of the web client over Sessions (`web/src/context/AuthContext.tsx`,
`web/src/lib/api.ts`): the access token `bearer` lives in memory and is lost on
`Reload`, the refresh token `held` is in `sessionStorage` and survives it. The
tab has at most one request under way, which the server runs by the actions of
Sessions (`Begins`, `Continues`, `Answered`, `LoggedOut`); an answer may be lost.

### Passkeys

`WebAuthnService` (`internal/auth/usecase/webauthn.go`) with its Redis
challenges and `webauthn_credentials`. The two `begin` requests are one step
each: what they read before the SET only gets older and keys are never removed.
A `finish` is the sequence `FinishLoad` (user and keys), `GetSession`,
`DeleteSession` (whose error is discarded), `StoreKey` or `UpdateKey` (the
library's verification and the write), `IssueTokens`. The library go-webauthn
and the authenticators are external: `BegunBy`, `Counted` and `Sign` are what
this code relies on. Answers stay available in `answers` and may be sent at any
time, again and by whoever is signed in. `accepted` is a history variable.

### RateLimiter

`RateLimiter` is `middleware/rate_limit.go`: `Arrive` reads the clock, `Execute`
is the MULTI/EXEC (trim, add, count, expire) and what the handler makes of its
reply, `Fail` is a Redis that is not reached. Transactions reach Redis in any
order and any time after the clock was read; the reply may be lost after the
transaction ran. A member of the sorted set is a nanosecond, so requests of one
instant may share one (`member`). `counted` is a history variable.

### The instances

`MCEvents`, `MCTeams`, `MCSubmissions`, `MCPlatform`, `MCSessions`,
`MCPasskeys` and `MCRateLimiter` add what the configurations need: names of
model values and symmetry sets. `Accounts`, `Hackathon` and `Browser` need
nothing and are checked directly.

## 3. Runs

Every run checks deadlock: an idle goroutine can always take a request, or a
busy one fail, or the clock stay where it is.

| run | instance | distinct states | what it shows |
|---|---|---|---|
| `platform_race` | two goroutines for events, one for teams, two users, updates up to `judging`, sizes 0 and 4 | 636 671 | Events and Teams over one database: types; slugs name one event; a published event has its organizer; no status is skipped even when stale writes go back; an ownerless event stays a draft; only an overtaken update leaves the life cycle or changes a frozen team size; an organizer never takes part in their own event; only events that opened have participants and teams |
| `teams_race` | two goroutines, two users, two teams, two names, two codes | 82 012 | one team per user; names and codes distinct; a settled member stays; an ownerless team stays empty; only a statement whose check was undone leaves the stages of participation |
| `submissions_race` | two goroutines, one team and an admin, deadline 0..2 | 941 304 | one submission per team; status and time of a row agree; a row whose deadline has passed and that no request is past its check for stays closed; a locked row no draft copy is held of stays locked; only an overtaken write leaves the life cycle |
| `hackathon_shared` | two goroutines for teams, one each for events and submissions, one event, two users | 1 872 252 | there are submissions only of an event that has opened them; a submission belongs to a team of its event with a member, and no member organizes the event |
| `accounts_race` | two goroutines and the worker, two addresses, two tokens, two passwords | 1 152 801 | one user per address; verified only by a mail that arrived; a token verifies once; a verified account no stale copy threatens stays as it is; every queued mail is taken up |
| `sessions_race` | two goroutines, one user, three access tokens, clock 0..2 | 1 891 265 | one live refresh token per login; a logout is final; the blacklist outlasts the token and the middleware respects it |
| `passkeys_race` | two goroutines, two users, one key, three challenges, counts up to 2 | 998 188 | tokens go to the owner of challenge and key; a spent challenge is never accepted again; count and warning, once the row and every copy carry them, are not lost |
| `rate_limit` | four requests, two keys, limit 2, window 2, clock 0..4 | 2 752 128 | nobody is let through beyond the limit of the window that ends now; nobody is refused for requests outside the window |
| `events_regression` | two goroutines, one event | violation | two PATCHes overlap and a published event is a draft again (I15) |
| `teams_unregistered` | two goroutines, one user | violation | a member who is not registered |
| `submissions_unlocked` | two goroutines, one submission | violation | an edit overlaps the final submit and the submitted entry is a draft again |
| `browser_reload` | one tab, one user | violation | after one reload the next one signs the user out |

**Bounds.** Two goroutines show every hazard listed, for each is one request
overtaking another; the proofs cover any number. `hackathon_shared` has two
goroutines for teams, so that unregistrations overlap the teams' creation, and
one each for events and submissions, which keeps the product of three components
checkable; what two of those do to each other is checked in `platform_race` and
`submissions_race`, and the theorems about Hackathon hold for any number of each.
Two ids of each row give a race something to collide with (two teams of one
user, two submissions of one team, two tokens of one user). `TeamSizes` has a
valid value and 0, which creation replaces by 5 and an update hands to the
CHECK. `Requested` (the statuses asked for) leaves out the end of the life cycle
in `platform_race`: three edges pass the statuses that admit resizing or
registration and the first ones that do not; nothing the two components check
tells the later ones apart, and the proofs have all of them; `events_regression`
has all seven.
`Horizon` bounds the clock: 2 puts a deadline in the past, now and ahead; in
Sessions it lets tokens of three seconds exist, and with `RefreshTTL = 1` a refresh token expires while another is live.
`Jtis` bounds the access tokens answered, so that at most three logins or
refreshes succeed: a login, its refresh and a second login, or a login
refreshed twice. Three challenges are a registration and two overlapping logins
with its key, and `MaxCount = 2` lets these sign with different counts. Four
requests exceed a limit of two within one window and leave one to meet the next;
a clock to 4 makes two windows. `EventStatuses` of Teams and Submissions keeps a
status in which requests are admitted and one in which they are not; the
components tell no others apart.

**Symmetry** is used where no property tells the values apart and no liveness
property is checked (Teams, Platform, Sessions, Passkeys, RateLimiter).

**Fairness.** Only `Accounts!FairSpec` has any, for `MailIsTakenUp`: weak
fairness of `PopMail` and of `SendMail`. The worker is a goroutine of its own
that `main` starts and that loops until its context ends; a popped mail ends in
delivery or loss, assuming that the SMTP call returns. Nothing is assumed of
clients: they may leave any request unsent, and a request under way may stay
where it is.

## 4. Proofs

Each `*_proofs` module proves, for every value of the constants (any number of
goroutines, users, rows, any lifetimes), what the runs check on small instances.

| module | theorems |
|---|---|
| `Events_proofs` | `TypeCorrect`, `Inductive`, `SlugsAreUnique`, `PublishedEventsHaveOrganizers`, `StatusesAreNeverSkipped`, `OrphansStayDrafts`, `UpdatesFollowLifecycle`, `SizesAreFrozen` |
| `Teams_proofs` | `TypeCorrect`, `Inductive`, `UsersHaveOneTeam`, `TeamsAreDistinct`, `SettledMembersStay`, `OrphansStayEmpty`, `UsersFollowParticipation` |
| `Submissions_proofs` | `TypeCorrect`, `Inductive`, `TeamsSubmitOnce`, `StatusAndTimeAgree`, `DeadlinesHold`, `LockedRowsStayLocked`, `RequestsFollowLifecycle` |
| `Accounts_proofs` | `TypeCorrect`, `Inductive`, `AddressesHaveOneUser`, `VerificationNeedsMail`, `TokensAreClaimedOnce`, `VerifiedAccountsSettle` |
| `Sessions_proofs` | `TypeCorrect`, `Inductive`, `SessionsHaveOneToken`, `EndedSessionsStayEnded`, `LogoutsAreRecorded`, `LogoutsAreRespected` |
| `Passkeys_proofs` | `TypeCorrect`, `Inductive`, `TokensGoToOwners`, `SpentChallengesStaySpent`, `CountsSettle`, `WarningsSettle` |
| `RateLimiter_proofs` | `TypeCorrect`, `Inductive`, `AdmissionsAreLimited`, `RefusalsAreDue` |
| `Hackathon_proofs`, about Platform | `PlatformRefinesEvents`, `PlatformRefinesTeams`, and by them `PlatformTypeCorrect`, `SharedSlugsAreUnique`, `SharedEventsHaveOrganizers`, `SharedStatusesAreNotSkipped`, `SharedOrphansStayDrafts`, `SharedUpdatesFollowLifecycle`, `SharedSizesAreFrozen`, `SharedUsersHaveOneTeam`, `SharedSettledMembersStay`, `SharedRequestsFollowParticipation`; its own `PlatformInductive`, `OrganizersNeverTakePart`, `OnlyOpenedEventsJoined` |
| `Hackathon_proofs`, about Hackathon | `HackathonRefinesPlatform`, `HackathonRefinesSubmissions`, and by them `SharedTeamsSubmitOnce`, `SharedLockedRowsStayLocked`, `SharedDeadlinesHold`, `SharedEntriesFollowLifecycle`; its own `EntriesFollowTheirEvent`, `EntriesHaveTheirAuthors` |

**Assumptions.** The named `ASSUME`s of the modules only: constants have the
types the code gives them and `None` is no value of any of them. They are
evaluated by TLC on every run. No theorem bounds the number of goroutines.

**Composition.** A theorem about Teams says something of the system only if the
system does to Teams no more than Teams expects. `Hackathon_proofs` proves that,
once per component, as a refinement (`EP`, `TP` and `SP` are the components'
proof modules over the shared tables):

- *Events* sees of `event_roles` the organizers' rows (`OrganizerRoles`); a
  visitor's request writes participants only and is a stutter.
- *Teams* expects `Organizer` and `Appoint` of its surroundings: creating and
  updating an event are the first, the organizer's role the second.
- *Platform* inside Hackathon: an author's request touches no table of it.
- *Submissions* expects `OrganizerPatch` and `JoinTeam`: a step of Events moves
  at most the status and deadline of `Contest`, one of Teams at most adds a
  member. That a user keeps the team they joined needs `OneTeamPerUser` and that
  members are only added, so this refinement rests on the invariant of Teams.

The `Shared...` theorems then follow from the components' own. What spans the
components (an organizer taking part, an entry without an author) follows from
none of them and has invariants of its own, `JoinInv` and `EntryInv` below.

**The inductive invariants.** The properties are about tables, and what can
break them is a copy a request carries. So each `IInv` adds to the tables'
properties what every request in flight relies on, stated so that it survives
the steps of the others:

- *Events*: the status a pending write carries is one the event has had, or an
  edge away from one it has had; whoever is about to write a role or an update
  is the creator of the row. `held` only grows and roles are only added, which
  is why stale copies stay harmless in that sense.
- *Teams*: a request about to add its member holds a team that exists, of its
  own event. Uniqueness needs only the constraints.
- *Submissions*: the copies obey what the rows obey (a time if submitted, none
  in a draft).
- *Events, Teams, Submissions*, for the life cycles: what a request that was not
  overtaken has read is still in the tables (`FreshUnlessOvertaken`,
  `TrueUnlessOvertaken`). For Events and Submissions the copy is then the row, so
  its write is an edge or a stutter; for Teams a user about to be unregistered
  has no team and one about to get a team is registered.
- *Platform* (`JoinInv`): whoever is past the first statement of a registration
  or a team's creation looks at an event that has been open; an event that has been open
  has its organizer's row, and the organizer is the creator; a request past the
  question "organizer?", or the one for the participant's role, is not the
  creator's (`Outsider`), nor is any participant or member (`MembersOK`).
- *Hackathon* (`EntryInv`): every entry, saved or about to be, is of a team of
  `Contest` that has a member, and the event has been open for submissions; for
  a request that looks for its team, the event has. The author reads the event and
  the team in two statements and writes in a third;
  nothing the others do in between takes any of that back, for `held` and
  `team_members` only grow. With `MembersOK` it gives `EntriesHaveAuthors`: an
  unregistration may take an author's registration, not the membership, and
  does not make an organizer of them.
- *Accounts*: rows are only added, keep address and owner, and a used token
  stays used; so what a request knew when it read still holds when it writes,
  the verified flag of its copy excepted, and that flag is only ever stale
  towards "unverified".
- *Sessions*: two independent arguments. Tables: a session has one live token
  or one exchange under way, never two of either, and an ended session has
  neither. Cache: the blacklist entry of a logged-out token, or the time left
  carried by the request about to write it, reaches its expiry.
- *Passkeys*: a key keeps its owner, a challenge its user. A finish that has
  loaded a row owns that key, and one about to be answered with tokens began its
  challenge as well. Counts and warnings have no such invariant, for every
  update overwrites them: a step keeps what the row and all copies agree on.
- *RateLimiter*: a counted request of the window that ends now is in the sorted
  set of its key, and the set does not expire before the request leaves the
  window; whatever is in the set is a counted request of that key. So the
  cardinality the transaction reads bounds the window from either side, whatever
  order the transactions run in.

The action properties (`OrphanStaysDraft`, `SizeFrozenAfterRegistration`,
`SettledStays`, `OrphanStaysEmpty`, `DeadlineHolds`, `LockedStaysLocked`,
`VerifiedSettles`, `LoggedOutIsRefused`, `SpentStaysSpent`, `CountSettles`, `WarningSettles`,
`AdmittedWithinLimit`, `RefusedAtLimit`) follow from the same invariants, step by step.

`DeadlineHolds` speaks of a row whose deadline has passed while no request is
past its check: the event is read, the clock compared and the row written at
three different moments, so a request that passed the check in time is written
at any time after. That is all the code promises, and all that is claimed.

**Only model-checked**: `MailIsTakenUp` (liveness under fairness is out of the
prover's reach), and Browser, whose one run is a violation.
**Only proved**: the type invariants of Sessions, Passkeys and RateLimiter,
which the runs leave out.

## 5. Where code and documents disagree

Four disagreements are runs that end in a violation:

- `events_regression`: `docs/state-machines/event.md:44` forbids every
  transition that is no edge (I15). Of two overlapping PATCHes of a draft one
  publishes it; the other asks for no status, and its UPDATE writes the loaded
  one back: the event is a draft again.
- `submissions_unlocked`: `docs/state-machines/submission.md:18` has submitted
  entries locked. An edit loaded before the final submit is written after it
  and makes the entry a draft again.
- `teams_unregistered`: `docs/state-machines/team.md:29` wants members
  registered. A user who unregisters while their team is being created ends up
  a member who is not.
- `browser_reload`: `web/src/context/AuthContext.tsx` attempts a "silent refresh
  on mount to restore session" and drops the rotated refresh token it is
  answered with. The next reload presents the revoked one and signs the user
  out.

Seen while modelling, and not turned into runs yet:

- The guards `docs/state-machines/event.md:37-42` lists for transitions (dates,
  normalization, assignments) are not in the code.
- An edit that passed its check may be written after the deadline, or after the
  event went on to judging (I4).
- The public gallery query (`internal/submissions/repository/pg_submission.go:196`)
  does not exclude disqualified entries (I11).
- With the migrations' `audit_log` no disqualification is ever audited, though
  the row is disqualified and the request reports failure.
- `internal/events/usecase/update.go` refuses a new team size after registration
  unconditionally; a PATCH that loaded the event before another one moved it on
  still writes its size. `SizeFrozenAfterRegistration` says that no other update
  does.
- `submitted_at` is a second reading of the clock, after the one compared with
  the deadline, so it may be later than every deadline
  (`internal/submissions/domain/submission.go:75` and `:86`).
- An event whose role insert failed, and a team whose member insert failed,
  stay for ever and keep their slug, name and code (proved, as
  `OrphansStayDrafts` and `OrphansStayEmpty`).
- A registration repeated while the owner verifies may make the account
  unverified again (`internal/auth/usecase/register.go:85`). `VerifiedSettles`
  is what is left: no later registration does, and the state is final once no
  stale copy is in flight.
- `internal/auth/usecase/webauthn.go:168` deletes the challenge "to prevent
  replay attacks". Fetching and deleting are two commands and the error of the
  second is discarded, so two overlapping finishes may both be accepted.
- The clone warning is stored and nothing acts on it. A late answer raises it
  without a clone, and of two overlapping logins the later write may put the
  older count, or no warning, back.
- `cmd/api/main.go` speaks of "5 requests per 15 minutes per IP"; the key
  contains the path too. Refused requests are added to the set and prolong the
  refusal, and requests of one nanosecond count once.
- The documents let teams form while submissions are open; the code only while
  registration is. Joining, leaving and locking a team and reinstating a
  submission are documented and not implemented.
- Statements of judging and uploads name columns the migrations do not create.

## 6. What is not modelled

- **Uploads**: every statement of `pg_upload.go` fails on the schema of the
  migrations; a cover upload therefore ends before it changes anything and an
  attachment leaves an object without a row. `cover_image_url` stays empty,
  which is why Submissions has no such field.
- **Judging**: no statement of the component that writes fits the migrations.
  Its arithmetic is worth a reference check (plan).
- **Web client** beyond the session of one tab: pages and forms that show what
  the server answers. Two tabs have two `sessionStorage`s and share nothing.
- **Start-up and shutdown** (`cmd/api/main.go`): migrations run before the first
  request; the process is killed, which `Fail` covers for each request.
- **Voting, Admin**: no code.
- **Plumbing**: configuration, connection pools, captcha, error mapping, JSON,
  pagination: no state that a request changes. Signatures, hashes and uuids are
  taken to be what they are meant to be.
- Input validation (lengths, formats) refuses a request before its first
  statement; the inputs of the models are those that pass.

## 7. Plan

Done, in this order: Events with its life cycle, Teams, Submissions, Platform
over Events and Teams, Accounts with the mail worker, Sessions, Hackathon over
all three components of an event, Browser over Sessions, Passkeys, RateLimiter;
proofs of each but Browser; the life cycles
stated for overlapping requests. Left:

1. **Judging arithmetic** (weighted scores, z-score normalization) against a
   reference definition over small scores.
2. **Uploads** with the schema as a parameter, as `AuditInsertable` is.
