------------------------------ MODULE Accounts ------------------------------
(* Accounts in the auth component: registering an address, mailing a         *)
(* verification token through the Redis queue, and verifying the address.    *)
(*                                                                           *)
(* As in Events, each SQL statement or Redis command is one step and a       *)
(* request is the sequence of its steps.  Requests whose input is refused    *)
(* before the first statement change nothing and are left out, and so are    *)
(* the columns nothing here changes (is_active, is_admin) and the display    *)
(* name, which is written where the password is.                             *)
EXTENDS Naturals, Sequences

CONSTANTS
    Workers, UserIds,
    Emails,          \* addresses as NewUser stores them, trimmed and lower-case
    Passwords, TokenIds,
    None

UserRow == [email: Emails, password: Passwords, verified: BOOLEAN]
TokenRow == [user: UserIds, used: BOOLEAN]

ASSUME NoneIsNoRow == None \notin UserRow /\ None \notin TokenRow

Idle == [pc |-> "idle"]

Request == {Idle}
    \cup [pc: {"insert"}, row: UserRow]
    \cup [pc: {"resend"}, user: UserIds, row: UserRow]
    \cup [pc: {"saveToken"}, user: UserIds]
    \cup [pc: {"push", "findUser"}, token: TokenIds]
    \cup [pc: {"markUsed", "verify"}, token: TokenIds, user: UserIds, row: UserRow]

\* The email worker waits for a mail, or sends the one it took.
Looping == [pc |-> "loop"]
Stopped == [pc |-> "stopped"]
MailWorker == {Looping, Stopped} \cup [pc: {"send"}, token: TokenIds]

VARIABLES
    users,     \* table users: id -> row or None
    tokens,    \* table email_verification_tokens: id -> row or None
    expired,   \* tokens whose 24 hours are over
    queue,     \* the Redis list of mails to send
    sender,    \* the goroutine that sends them
    inbox,     \* tokens that reached their address
    req

mail == <<queue, sender, inbox>>
vars == <<users, tokens, expired, mail, req>>

Init ==
    /\ users = [u \in UserIds |-> None]
    /\ tokens = [t \in TokenIds |-> None]
    /\ expired = {} /\ queue = <<>> /\ sender = Looping /\ inbox = {}
    /\ req = [w \in Workers |-> Idle]

Known == {u \in UserIds : users[u] # None}

Goto(w, r) == req' = [req EXCEPT ![w] = r]

Done(w) == Goto(w, Idle)

---------------------------------------------------------------------------
(* POST /auth/register: RegisterService.Register *)

\* Mutant: a verified address may be registered again too.
CanResend_Verified(u, e) == users[u].email = e
CanResend(u, e) == users[u].email = e /\ ~users[u].verified

\* Mutant: the address counts as verified from the start.
NewUser_Verified(e, p) == [email |-> e, password |-> p, verified |-> TRUE]
NewUser(e, p) == [email |-> e, password |-> p, verified |-> FALSE]

\* Any error of FindByEmail reads as "no such user": a failing database, and
\* also an address spelled in other letters than the stored one.
Register(w) ==
    /\ req[w].pc = "idle"
    /\ \E e \in Emails, p \in Passwords :
         \/ \E u \in Known :
              /\ CanResend(u, e)
              /\ Goto(w, [pc |-> "resend", user |-> u,
                          row |-> [users[u] EXCEPT !.password = p]])
         \/ Goto(w, [pc |-> "insert", row |-> NewUser(e, p)])
    /\ UNCHANGED <<users, tokens, expired, mail>>

\* users_email_unique.  Mutant: without it.
Insertable_NoIndex(row) == row \in UserRow
Insertable(row) == \A u \in Known : users[u].email # row.email

RegisterInsert(w) ==
    /\ req[w].pc = "insert"
    /\ Insertable(req[w].row)
    /\ \E u \in UserIds \ Known :
         /\ users' = [users EXCEPT ![u] = req[w].row]
         /\ Goto(w, [pc |-> "saveToken", user |-> u])
    /\ UNCHANGED <<tokens, expired, mail>>

\* users.Update writes every column of the row loaded before.
RegisterResend(w) ==
    /\ req[w].pc = "resend"
    /\ users' = [users EXCEPT ![req[w].user] = req[w].row]
    /\ Goto(w, [pc |-> "saveToken", user |-> req[w].user])
    /\ UNCHANGED <<tokens, expired, mail>>

\* Mutant: the row does not say whose it is.
NewToken_NoUser(u) == [user |-> None, used |-> FALSE]
NewToken(u) == [user |-> u, used |-> FALSE]

RegisterSaveToken(w) ==
    /\ req[w].pc = "saveToken"
    /\ \E t \in TokenIds :
         /\ tokens[t] = None
         /\ tokens' = [tokens EXCEPT ![t] = NewToken(req[w].user)]
         /\ Goto(w, [pc |-> "push", token |-> t])
    /\ UNCHANGED <<users, expired, mail>>

\* LPUSH.  An error is only reported (Fail): no mail leaves.
RegisterPush(w) ==
    /\ req[w].pc = "push"
    /\ queue' = Append(queue, req[w].token)
    /\ Done(w)
    /\ UNCHANGED <<users, tokens, expired, sender, inbox>>

---------------------------------------------------------------------------
(* The email worker: RunWorker *)

\* BRPOP takes the mail off the list before it is sent.
PopMail ==
    /\ sender = Looping /\ queue # <<>>
    /\ sender' = [pc |-> "send", token |-> Head(queue)]
    /\ queue' = Tail(queue)
    /\ UNCHANGED <<users, tokens, expired, inbox, req>>

DeliverMail ==
    /\ sender.pc = "send"
    /\ inbox' = inbox \cup {sender.token}
    /\ sender' = Looping
    /\ UNCHANGED <<users, tokens, expired, queue, req>>

\* A mail the SMTP server refuses, or that the process dies with, is gone.
\* Mutant: the worker returns on the error.
AfterFailure_Return == Stopped
AfterFailure == Looping

LoseMail ==
    /\ sender.pc = "send"
    /\ sender' = AfterFailure
    /\ UNCHANGED <<users, tokens, expired, queue, inbox, req>>

---------------------------------------------------------------------------
(* POST /auth/verify-email: VerifyEmailService.Verify *)

Usable(t) == ~tokens[t].used /\ t \notin expired

\* Only a mail tells a user a token.
Verify(w) ==
    /\ req[w].pc = "idle"
    /\ \E t \in inbox :
         /\ Usable(t)
         /\ Goto(w, [pc |-> "findUser", token |-> t])
    /\ UNCHANGED <<users, tokens, expired, mail>>

VerifyFindUser(w) ==
    /\ req[w].pc = "findUser"
    /\ LET u == tokens[req[w].token].user
       IN Goto(w, [pc |-> "markUsed", token |-> req[w].token, user |-> u,
                   row |-> [users[u] EXCEPT !.verified = TRUE]])
    /\ UNCHANGED <<users, tokens, expired, mail>>

\* WHERE id = $1 AND is_used = false.  Mutant: without the second condition.
MarkUsed_Again(t) == tokens' = [tokens EXCEPT ![t].used = TRUE]
MarkUsed(t) ==
    /\ ~tokens[t].used
    /\ tokens' = [tokens EXCEPT ![t].used = TRUE]

VerifyMarkUsed(w) ==
    /\ req[w].pc = "markUsed"
    /\ MarkUsed(req[w].token)
    /\ req' = [req EXCEPT ![w].pc = "verify"]
    /\ UNCHANGED <<users, expired, mail>>

VerifyUpdate(w) ==
    /\ req[w].pc = "verify"
    /\ users' = [users EXCEPT ![req[w].user] = req[w].row]
    /\ Done(w)
    /\ UNCHANGED <<tokens, expired, mail>>

---------------------------------------------------------------------------

\* A request that is refused, whose statement fails or whose process dies
\* leaves what its earlier statements wrote.
Fail(w) ==
    /\ req[w].pc # "idle"
    /\ Done(w)
    /\ UNCHANGED <<users, tokens, expired, mail>>

Expire(t) ==
    /\ tokens[t] # None /\ t \notin expired
    /\ expired' = expired \cup {t}
    /\ UNCHANGED <<users, tokens, mail, req>>

Serve(w) ==
    \/ Register(w) \/ RegisterInsert(w) \/ RegisterResend(w)
    \/ RegisterSaveToken(w) \/ RegisterPush(w)
    \/ Verify(w) \/ VerifyFindUser(w) \/ VerifyMarkUsed(w) \/ VerifyUpdate(w)
    \/ Fail(w)

SendMail == DeliverMail \/ LoseMail

Next ==
    \/ \E w \in Workers : Serve(w)
    \/ PopMail \/ SendMail
    \/ \E t \in TokenIds : Expire(t)

Spec == Init /\ [][Next]_vars

\* The worker is a goroutine of its own that main starts and nothing stops; a
\* send is assumed to return.  Nothing is assumed of the clients.
FairSpec == Spec /\ WF_vars(PopMail) /\ WF_vars(SendMail)

---------------------------------------------------------------------------
(* Properties *)

TypeOK ==
    /\ users \in [UserIds -> UserRow \cup {None}]
    /\ tokens \in [TokenIds -> TokenRow \cup {None}]
    /\ expired \subseteq TokenIds /\ inbox \subseteq TokenIds
    /\ queue \in Seq(TokenIds)
    /\ sender \in MailWorker
    /\ req \in [Workers -> Request]

\* Two overlapping registrations of an address leave one user, though both
\* found none.
EmailsAreUnique ==
    \A u, v \in Known : users[u].email = users[v].email => u = v

\* A verified user proved their address: a token of theirs reached it and was
\* used, once.
VerifiedByMail ==
    \A u \in Known :
        users[u].verified =>
            \E t \in inbox : tokens[t] # None /\ tokens[t].user = u /\ tokens[t].used

\* Of the requests presenting one token, one gets to write the user back.
TokensVerifyOnce ==
    \A v, w \in Workers :
        /\ req[v].pc = "verify" /\ req[w].pc = "verify"
        /\ req[v].token = req[w].token
        => v = w

\* A stale copy may take a verified user's verification or new password back
\* (both requests that write a user write all of it).  But once every copy in
\* flight agrees with the verified row, nobody changes it again.
Copy(w, u) == req[w].pc \in {"resend", "markUsed", "verify"} /\ req[w].user = u

Settled(u) ==
    /\ users[u] # None /\ users[u].verified
    /\ \A w \in Workers : Copy(w, u) => req[w].row = users[u]

VerifiedSettles ==
    [][\A u \in UserIds : Settled(u) => Settled(u)' /\ users'[u] = users[u]]_vars

\* Every mail on the list is taken up, whatever became of those before it.
MailIsTakenUp ==
    \A t \in TokenIds :
        (\E i \in DOMAIN queue : queue[i] = t) ~> (\A i \in DOMAIN queue : queue[i] # t)
=============================================================================
