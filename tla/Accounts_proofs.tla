--------------------------- MODULE Accounts_proofs ---------------------------
(* Theorems about Accounts, for any number of requests, users and tokens.    *)
(*                                                                           *)
(* The argument: rows are only ever added, a user keeps their address and a  *)
(* token its user, and a used token stays used (Grows).  So what a request   *)
(* knew of the tables when it read them (Consistent) still holds when it     *)
(* writes, the verified flag of its copy excepted.                           *)
EXTENDS Accounts, TLAPS

\* A token that is stored, and whose it is.
Belongs(t, u, ts) == ts[t] # None /\ ts[t].user = u

\* The copy of a row held for user u: only the address is sure to be current.
CopyOf(row, u, us) == us[u] # None /\ row.email = us[u].email

\* What a request may rely on, given the tables and the mails delivered.
Consistent(r, us, ts, in) ==
    /\ r.pc = "insert" => ~r.row.verified
    /\ r.pc = "resend" => CopyOf(r.row, r.user, us) /\ ~r.row.verified
    /\ r.pc = "saveToken" => us[r.user] # None
    /\ r.pc = "push" => ts[r.token] # None
    /\ r.pc = "findUser" => ts[r.token] # None /\ r.token \in in
    /\ r.pc \in {"markUsed", "verify"} =>
          /\ Belongs(r.token, r.user, ts) /\ r.token \in in
          /\ CopyOf(r.row, r.user, us)
    /\ r.pc = "verify" => ts[r.token].used

\* How the tables and the mails delivered evolve.
Grows(us, us2, ts, ts2, in, in2) ==
    /\ \A u \in UserIds : us[u] # None => us2[u] # None /\ us2[u].email = us[u].email
    /\ \A t \in TokenIds : ts[t] # None =>
          /\ ts2[t] # None /\ ts2[t].user = ts[t].user
          /\ ts[t].used => ts2[t].used
    /\ in \subseteq in2

\* Every token in circulation is stored, and so is its user.
Stored ==
    /\ \A t \in TokenIds : tokens[t] # None => users[tokens[t].user] # None
    /\ \A t \in inbox : tokens[t] # None
    /\ \A i \in DOMAIN queue : tokens[queue[i]] # None
    /\ sender.pc = "send" => tokens[sender.token] # None

RequestsConsistent == \A w \in Workers : Consistent(req[w], users, tokens, inbox)

IInv ==
    /\ TypeOK
    /\ EmailsAreUnique /\ VerifiedByMail /\ TokensVerifyOnce
    /\ Stored /\ RequestsConsistent

---------------------------------------------------------------------------
(* Requests *)

\* What a request holds at each step.
LEMMA RequestShape ==
    ASSUME TypeOK, NEW w \in Workers
    PROVE  /\ req[w] \in Request
           /\ req[w].pc = "insert" => req[w].row \in UserRow
           /\ req[w].pc = "resend" => req[w].user \in UserIds /\ req[w].row \in UserRow
           /\ req[w].pc = "saveToken" => req[w].user \in UserIds
           /\ req[w].pc \in {"push", "findUser"} => req[w].token \in TokenIds
           /\ req[w].pc \in {"markUsed", "verify"} =>
                 /\ req[w].token \in TokenIds /\ req[w].user \in UserIds
                 /\ req[w].row \in UserRow
                 /\ req[w] = [pc |-> req[w].pc, token |-> req[w].token,
                              user |-> req[w].user, row |-> req[w].row]
<1>1. req[w] \in Request
  BY DEF TypeOK
<1>2. QED
  BY <1>1 DEF Request, Idle

\* The requests the handlers make.
LEMMA RequestKinds ==
    ASSUME NEW t \in TokenIds, NEW u \in UserIds, NEW row \in UserRow
    PROVE  /\ Idle \in Request
           /\ [pc |-> "insert", row |-> row] \in Request
           /\ [pc |-> "resend", user |-> u, row |-> row] \in Request
           /\ [pc |-> "saveToken", user |-> u] \in Request
           /\ [pc |-> "push", token |-> t] \in Request
           /\ [pc |-> "findUser", token |-> t] \in Request
           /\ [pc |-> "markUsed", token |-> t, user |-> u, row |-> row] \in Request
           /\ [pc |-> "verify", token |-> t, user |-> u, row |-> row] \in Request
BY DEF Request

\* Moving a request on changes that one request.
LEMMA GotoMoves ==
    ASSUME TypeOK, NEW w \in Workers, NEW r \in Request, Goto(w, r)
    PROVE  /\ req' \in [Workers -> Request]
           /\ req'[w] = r
           /\ \A v \in Workers \ {w} : req'[v] = req[v]
BY DEF TypeOK, Goto

\* What a request relies on survives the growth of the tables.
LEMMA ConsistentGrows ==
    ASSUME NEW r \in Request, NEW us, NEW us2, NEW ts, NEW ts2, NEW in, NEW in2,
           Grows(us, us2, ts, ts2, in, in2), Consistent(r, us, ts, in)
    PROVE  Consistent(r, us2, ts2, in2)
<1>1. r.pc = "insert" => ~r.row.verified
  BY DEF Consistent
<1>2. r.pc = "resend" => CopyOf(r.row, r.user, us2) /\ ~r.row.verified
  <2>1. r.pc = "resend" => r.user \in UserIds
    BY DEF Request, Idle
  <2>2. QED
    BY <2>1 DEF Consistent, Grows, CopyOf
<1>3. r.pc = "saveToken" => us2[r.user] # None
  <2>1. r.pc = "saveToken" => r.user \in UserIds
    BY DEF Request, Idle
  <2>2. QED
    BY <2>1 DEF Consistent, Grows
<1>4. /\ r.pc = "push" => ts2[r.token] # None
      /\ r.pc = "findUser" => ts2[r.token] # None /\ r.token \in in2
  <2>1. r.pc \in {"push", "findUser"} => r.token \in TokenIds
    BY DEF Request, Idle
  <2>2. QED
    BY <2>1 DEF Consistent, Grows
<1>5. /\ r.pc \in {"markUsed", "verify"} =>
            /\ Belongs(r.token, r.user, ts2) /\ r.token \in in2
            /\ CopyOf(r.row, r.user, us2)
      /\ r.pc = "verify" => ts2[r.token].used
  <2>1. r.pc \in {"markUsed", "verify"} => r.token \in TokenIds /\ r.user \in UserIds
    BY DEF Request, Idle
  <2>2. QED
    BY <2>1 DEF Consistent, Grows, Belongs, CopyOf
<1>6. QED
  BY <1>1, <1>2, <1>3, <1>4, <1>5 DEF Consistent

\* So when one request moves on to something consistent, all are.
LEMMA RequestsStayConsistent ==
    ASSUME IInv, NEW w \in Workers, NEW r \in Request, Goto(w, r),
           Grows(users, users', tokens, tokens', inbox, inbox'),
           Consistent(r, users', tokens', inbox')
    PROVE  RequestsConsistent'
<1>1. SUFFICES ASSUME NEW v \in Workers
               PROVE  Consistent(req'[v], users', tokens', inbox')
  BY DEF RequestsConsistent
<1>2. CASE v = w
  BY <1>2, GotoMoves DEF IInv
<1>3. CASE v # w
  <2>1. req'[v] = req[v] /\ req[v] \in Request
    BY <1>3, GotoMoves, RequestShape DEF IInv
  <2>2. Consistent(req[v], users, tokens, inbox)
    BY DEF IInv, RequestsConsistent
  <2>3. QED
    BY <2>1, <2>2, ConsistentGrows
<1>4. QED
  BY <1>2, <1>3

\* Nothing changed is a way to grow.
LEMMA GrowsByNothing ==
    ASSUME NEW us, NEW ts, NEW in
    PROVE  Grows(us, us, ts, ts, in, in)
BY DEF Grows

---------------------------------------------------------------------------
(* The steps of a request that only read *)

\* A request that ends or only reads leaves the tables to the others.
LEMMA ReadingKeepsInvariant ==
    ASSUME IInv, NEW w \in Workers, NEW r \in Request, Goto(w, r),
           UNCHANGED <<users, tokens, expired, mail>>,
           Consistent(r, users, tokens, inbox), r.pc # "verify"
    PROVE  IInv'
<1>1. TypeOK'
  BY GotoMoves DEF IInv, TypeOK, mail
<1>2. EmailsAreUnique' /\ VerifiedByMail' /\ Stored'
  BY DEF IInv, EmailsAreUnique, VerifiedByMail, Stored, Known, mail
<1>3. TokensVerifyOnce'
  BY GotoMoves DEF IInv, TokensVerifyOnce
<1>4. RequestsConsistent'
  BY RequestsStayConsistent, GrowsByNothing DEF mail
<1>5. QED
  BY <1>1, <1>2, <1>3, <1>4 DEF IInv

\* An idle request relies on nothing.
LEMMA IdleConsistent ==
    ASSUME NEW us, NEW ts, NEW in
    PROVE  Consistent(Idle, us, ts, in)
BY DEF Consistent, Idle

\* POST /auth/register reads the user, or finds none.
LEMMA RegisterKeepsInvariant ==
    ASSUME IInv, NEW w \in Workers, Register(w)
    PROVE  IInv'
<1>1. PICK e \in Emails, p \in Passwords :
        \/ \E u \in Known :
             /\ CanResend(u, e)
             /\ Goto(w, [pc |-> "resend", user |-> u,
                         row |-> [users[u] EXCEPT !.password = p]])
        \/ Goto(w, [pc |-> "insert", row |-> NewUser(e, p)])
  BY DEF Register
<1>2. CASE Goto(w, [pc |-> "insert", row |-> NewUser(e, p)])
  <2>1. [pc |-> "insert", row |-> NewUser(e, p)] \in Request
    BY DEF Request, NewUser, UserRow
  <2>2. Consistent([pc |-> "insert", row |-> NewUser(e, p)], users, tokens, inbox)
    BY DEF Consistent, NewUser
  <2>3. QED
    BY <1>2, <2>1, <2>2, ReadingKeepsInvariant DEF Register
<1>3. ASSUME NEW u \in Known, CanResend(u, e),
             Goto(w, [pc |-> "resend", user |-> u,
                      row |-> [users[u] EXCEPT !.password = p]])
      PROVE  IInv'
  <2>1. u \in UserIds /\ users[u] \in UserRow /\ users[u] # None
    BY <1>3 DEF IInv, TypeOK, Known
  <2>2. /\ [users[u] EXCEPT !.password = p] \in UserRow
        /\ [users[u] EXCEPT !.password = p].email = users[u].email
        /\ ~[users[u] EXCEPT !.password = p].verified
    BY <1>3, <2>1 DEF UserRow, CanResend
  <2>3. [pc |-> "resend", user |-> u, row |-> [users[u] EXCEPT !.password = p]] \in Request
    BY <2>1, <2>2 DEF Request
  <2>4. Consistent([pc |-> "resend", user |-> u,
                    row |-> [users[u] EXCEPT !.password = p]], users, tokens, inbox)
    BY <2>1, <2>2 DEF Consistent, CopyOf
  <2>5. QED
    BY <1>3, <2>3, <2>4, ReadingKeepsInvariant DEF Register
<1>4. QED
  BY <1>1, <1>2, <1>3

\* POST /auth/verify-email reads the token, then its user.
LEMMA VerifyReadsKeepInvariant ==
    ASSUME IInv, NEW w \in Workers, Verify(w) \/ VerifyFindUser(w)
    PROVE  IInv'
<1>1. CASE Verify(w)
  <2>1. PICK t \in inbox : Goto(w, [pc |-> "findUser", token |-> t])
    BY <1>1 DEF Verify
  <2>2. t \in TokenIds /\ tokens[t] # None
    BY DEF IInv, TypeOK, Stored
  <2>3. /\ [pc |-> "findUser", token |-> t] \in Request
        /\ Consistent([pc |-> "findUser", token |-> t], users, tokens, inbox)
    BY <2>2 DEF Request, Consistent
  <2>4. QED
    BY <1>1, <2>1, <2>3, ReadingKeepsInvariant DEF Verify
<1>2. CASE VerifyFindUser(w)
  <2> DEFINE t == req[w].token
             u == tokens[t].user
             row == [users[u] EXCEPT !.verified = TRUE]
             r == [pc |-> "markUsed", token |-> t, user |-> u, row |-> row]
  <2>1. t \in TokenIds /\ tokens[t] # None /\ t \in inbox
    BY <1>2, RequestShape DEF IInv, RequestsConsistent, Consistent, VerifyFindUser
  <2>2. tokens[t] \in TokenRow /\ u \in UserIds
    BY <2>1 DEF IInv, TypeOK, TokenRow
  <2>3. users[u] \in UserRow /\ users[u] # None
    BY <2>1, <2>2 DEF IInv, TypeOK, Stored
  <2>4. row \in UserRow /\ row.email = users[u].email
    BY <2>3 DEF UserRow
  <2>5. r \in Request
    BY <2>1, <2>2, <2>4 DEF Request
  <2>6. Consistent(r, users, tokens, inbox)
    BY <2>1, <2>3, <2>4 DEF Consistent, CopyOf, Belongs
  <2>7. Goto(w, r) /\ UNCHANGED <<users, tokens, expired, mail>>
    BY <1>2 DEF VerifyFindUser
  <2>8. QED
    BY <2>5, <2>6, <2>7, ReadingKeepsInvariant
<1>3. QED
  BY <1>1, <1>2

\* A request that fails ends.
LEMMA FailKeepsInvariant ==
    ASSUME IInv, NEW w \in Workers, Fail(w)
    PROVE  IInv'
<1>1. Idle \in Request /\ Idle.pc # "verify"
  BY DEF Request, Idle
<1>2. QED
  BY <1>1, IdleConsistent, ReadingKeepsInvariant DEF Fail, Done

---------------------------------------------------------------------------
(* The steps of a request that write *)

\* A row inserted or written over keeps the table typed, addresses unique and
\* users verified by mail, if the address stays and the flag is earned.
LEMMA WritingUserKeepsTables ==
    ASSUME IInv, NEW u \in UserIds, NEW row \in UserRow,
           users' = [users EXCEPT ![u] = row],
           \A v \in Known \ {u} : users[v].email # row.email,
           users[u] # None => row.email = users[u].email,
           row.verified => \E t \in inbox : Belongs(t, u, tokens) /\ tokens[t].used,
           UNCHANGED <<tokens, inbox>>
    PROVE  /\ users' \in [UserIds -> UserRow \cup {None}]
           /\ Grows(users, users', tokens, tokens', inbox, inbox')
           /\ EmailsAreUnique' /\ VerifiedByMail'
           /\ \A v \in UserIds : users[v] # None => users'[v] # None
           /\ users'[u] = row /\ row # None
<1>1. users \in [UserIds -> UserRow \cup {None}]
  BY DEF IInv, TypeOK
<1>2. row # None
  BY NoneIsNoRow
<1>3. users'[u] = row /\ \A v \in UserIds \ {u} : users'[v] = users[v]
  BY <1>1
<1>4. users' \in [UserIds -> UserRow \cup {None}]
  BY <1>1
<1>5. Grows(users, users', tokens, tokens', inbox, inbox')
  BY <1>2, <1>3 DEF Grows
<1>6. EmailsAreUnique'
  BY <1>3 DEF IInv, EmailsAreUnique, Known
<1>7. VerifiedByMail'
  BY <1>3 DEF IInv, VerifiedByMail, Known, Belongs
<1>8. QED
  BY <1>2, <1>3, <1>4, <1>5, <1>6, <1>7

\* The step of a request that writes the user: what is left to show is what
\* it wrote and where it goes.
LEMMA UserWriteKeepsInvariant ==
    ASSUME IInv, NEW w \in Workers, NEW r \in Request, Goto(w, r), r.pc # "verify",
           NEW u \in UserIds, NEW row \in UserRow,
           users' = [users EXCEPT ![u] = row],
           \A v \in Known \ {u} : users[v].email # row.email,
           users[u] # None => row.email = users[u].email,
           row.verified => \E t \in inbox : Belongs(t, u, tokens) /\ tokens[t].used,
           UNCHANGED <<tokens, expired, mail>>,
           Consistent(r, users', tokens', inbox')
    PROVE  IInv'
<1>1. UNCHANGED <<tokens, inbox>>
  BY DEF mail
<1>2. /\ users' \in [UserIds -> UserRow \cup {None}]
      /\ Grows(users, users', tokens, tokens', inbox, inbox')
      /\ EmailsAreUnique' /\ VerifiedByMail'
      /\ \A v \in UserIds : users[v] # None => users'[v] # None
  BY <1>1, WritingUserKeepsTables
<1>3. TypeOK'
  BY <1>2, GotoMoves DEF IInv, TypeOK, mail
<1>4. Stored'
  <2>1. \A t \in TokenIds : tokens[t] # None => tokens[t].user \in UserIds
    BY DEF IInv, TypeOK, TokenRow
  <2>2. QED
    BY <1>2, <2>1 DEF IInv, Stored, mail
<1>5. TokensVerifyOnce'
  BY GotoMoves DEF IInv, TokensVerifyOnce
<1>6. RequestsConsistent'
  BY <1>2, RequestsStayConsistent
<1>7. QED
  BY <1>2, <1>3, <1>4, <1>5, <1>6 DEF IInv

\* Inserting the user, or writing a copy back before the mail.
LEMMA RegisterWritesKeepInvariant ==
    ASSUME IInv, NEW w \in Workers, RegisterInsert(w) \/ RegisterResend(w)
    PROVE  IInv'
<1>1. CASE RegisterInsert(w)
  <2>1. PICK u \in UserIds \ Known :
          /\ users' = [users EXCEPT ![u] = req[w].row]
          /\ Goto(w, [pc |-> "saveToken", user |-> u])
    BY <1>1 DEF RegisterInsert
  <2>2. req[w].row \in UserRow /\ ~req[w].row.verified
    BY <1>1, RequestShape DEF IInv, RequestsConsistent, Consistent, RegisterInsert
  <2>3. users[u] = None /\ \A v \in Known : users[v].email # req[w].row.email
    BY <1>1, <2>1 DEF RegisterInsert, Insertable, Known
  <2>4. [pc |-> "saveToken", user |-> u] \in Request
    BY <2>1, RequestKinds DEF Request
  <2>5. users'[u] # None
    BY <2>1, <2>2, NoneIsNoRow DEF IInv, TypeOK
  <2>6. Consistent([pc |-> "saveToken", user |-> u], users', tokens', inbox')
    BY <2>5 DEF Consistent
  <2>7. QED
    BY <1>1, <2>1, <2>2, <2>3, <2>4, <2>6, UserWriteKeepsInvariant DEF RegisterInsert
<1>2. CASE RegisterResend(w)
  <2> DEFINE u == req[w].user
             row == req[w].row
             r == [pc |-> "saveToken", user |-> u]
  <2>1. u \in UserIds /\ row \in UserRow /\ ~row.verified
        /\ users[u] # None /\ row.email = users[u].email
    BY <1>2, RequestShape DEF IInv, RequestsConsistent, Consistent, CopyOf, RegisterResend
  <2>2. \A v \in Known \ {u} : users[v].email # row.email
    BY <2>1 DEF IInv, EmailsAreUnique, Known
  <2>3. r \in Request
    BY <2>1 DEF Request
  <2>4. users' = [users EXCEPT ![u] = row] /\ Goto(w, r)
        /\ UNCHANGED <<tokens, expired, mail>>
    BY <1>2 DEF RegisterResend
  <2>5. users'[u] # None
    BY <2>1, <2>4, NoneIsNoRow DEF IInv, TypeOK
  <2>6. Consistent(r, users', tokens', inbox')
    BY <2>5 DEF Consistent
  <2>7. QED
    BY <2>1, <2>2, <2>3, <2>4, <2>6, UserWriteKeepsInvariant
<1>3. QED
  BY <1>1, <1>2

\* Writing the verified user back, the token claimed before.
LEMMA VerifyUpdateKeepsInvariant ==
    ASSUME IInv, NEW w \in Workers, VerifyUpdate(w)
    PROVE  IInv'
<1> DEFINE u == req[w].user
           row == req[w].row
<1>1. /\ u \in UserIds /\ row \in UserRow /\ users[u] # None /\ row.email = users[u].email
      /\ Belongs(req[w].token, u, tokens) /\ req[w].token \in inbox
      /\ tokens[req[w].token].used
  BY RequestShape DEF IInv, RequestsConsistent, Consistent, CopyOf, VerifyUpdate
<1>2. \A v \in Known \ {u} : users[v].email # row.email
  BY <1>1 DEF IInv, EmailsAreUnique, Known
<1>3. Idle \in Request /\ Idle.pc # "verify"
  BY DEF Request, Idle
<1>4. users' = [users EXCEPT ![u] = row] /\ Goto(w, Idle)
      /\ UNCHANGED <<tokens, expired, mail>>
  BY DEF VerifyUpdate, Done
<1>5. \E t \in inbox : Belongs(t, u, tokens) /\ tokens[t].used
  BY <1>1
<1>6. Consistent(Idle, users', tokens', inbox')
  BY IdleConsistent
<1>7. QED
  BY <1>1, <1>2, <1>3, <1>4, <1>5, <1>6, UserWriteKeepsInvariant

\* Storing the token to be mailed.
LEMMA SaveTokenKeepsInvariant ==
    ASSUME IInv, NEW w \in Workers, RegisterSaveToken(w)
    PROVE  IInv'
<1>1. PICK t \in TokenIds :
        /\ tokens[t] = None
        /\ tokens' = [tokens EXCEPT ![t] = NewToken(req[w].user)]
        /\ Goto(w, [pc |-> "push", token |-> t])
  BY DEF RegisterSaveToken
<1>2. req[w].user \in UserIds /\ users[req[w].user] # None
  BY RequestShape DEF IInv, RequestsConsistent, Consistent, RegisterSaveToken
<1>3. /\ NewToken(req[w].user) \in TokenRow /\ NewToken(req[w].user) # None
      /\ NewToken(req[w].user).user = req[w].user
  <2>1. NewToken(req[w].user) \in TokenRow
    BY <1>2 DEF NewToken, TokenRow
  <2>2. NewToken(req[w].user) # None
    BY <2>1, NoneIsNoRow
  <2>3. QED
    BY <2>1, <2>2 DEF NewToken
<1>4. UNCHANGED <<users, expired, mail, queue, sender, inbox>>
  BY DEF RegisterSaveToken, mail
<1>5. /\ tokens \in [TokenIds -> TokenRow \cup {None}]
      /\ tokens' \in [TokenIds -> TokenRow \cup {None}]
      /\ tokens'[t] = NewToken(req[w].user)
      /\ \A s \in TokenIds \ {t} : tokens'[s] = tokens[s]
  BY <1>1, <1>3 DEF IInv, TypeOK
<1>6. /\ [pc |-> "push", token |-> t] \in Request
      /\ Consistent([pc |-> "push", token |-> t], users', tokens', inbox')
  BY <1>3, <1>5 DEF Request, Consistent
<1>7. Grows(users, users', tokens, tokens', inbox, inbox')
  BY <1>1, <1>4, <1>5 DEF Grows
<1>8. TypeOK'
  BY <1>1, <1>4, <1>5, <1>6, GotoMoves DEF IInv, TypeOK
<1>9. EmailsAreUnique'
  BY <1>4 DEF IInv, EmailsAreUnique, Known
<1>10. VerifiedByMail'
  BY <1>1, <1>4, <1>5 DEF IInv, TypeOK, VerifiedByMail, Known
<1>11. TokensVerifyOnce'
  BY <1>1, <1>6, GotoMoves DEF IInv, TokensVerifyOnce
<1>12. Stored'
  <2>1. \A s \in TokenIds : tokens'[s] # None => users'[tokens'[s].user] # None
    BY <1>2, <1>3, <1>4, <1>5 DEF IInv, Stored
  <2>2. \A s \in TokenIds : tokens[s] # None => tokens'[s] # None
    BY <1>3, <1>5
  <2>3. \A i \in DOMAIN queue : queue[i] \in TokenIds
    BY DEF IInv, TypeOK
  <2>4. sender.pc = "send" => sender.token \in TokenIds
    BY DEF IInv, TypeOK, MailWorker, Looping, Stopped
  <2>5. QED
    BY <1>4, <2>1, <2>2, <2>3, <2>4 DEF IInv, TypeOK, Stored
<1>13. RequestsConsistent'
  BY <1>1, <1>6, <1>7, RequestsStayConsistent
<1>14. QED
  BY <1>8, <1>9, <1>10, <1>11, <1>12, <1>13 DEF IInv

\* Claiming the token: whoever else holds it claimed cannot be.
LEMMA MarkUsedKeepsInvariant ==
    ASSUME IInv, NEW w \in Workers, VerifyMarkUsed(w)
    PROVE  IInv'
<1> DEFINE t == req[w].token
           r == [pc |-> "verify", token |-> t, user |-> req[w].user, row |-> req[w].row]
<1>1. /\ t \in TokenIds /\ req[w].user \in UserIds /\ req[w].row \in UserRow
      /\ req[w] = [pc |-> "markUsed", token |-> t, user |-> req[w].user, row |-> req[w].row]
  BY RequestShape DEF IInv, VerifyMarkUsed
<1>2. /\ Belongs(t, req[w].user, tokens) /\ t \in inbox
      /\ CopyOf(req[w].row, req[w].user, users)
  BY DEF IInv, RequestsConsistent, Consistent, VerifyMarkUsed
<1>3. r \in Request
  BY <1>1 DEF Request
<1>4. Goto(w, r)
  <2>1. [req[w] EXCEPT !.pc = "verify"] = r
    BY <1>1
  <2>2. req' = [req EXCEPT ![w] = [req[w] EXCEPT !.pc = "verify"]]
    BY DEF VerifyMarkUsed
  <2>3. QED
    BY <2>1, <2>2 DEF Goto
<1>5. /\ ~tokens[t].used /\ tokens' = [tokens EXCEPT ![t].used = TRUE]
      /\ UNCHANGED <<users, expired, mail, queue, sender, inbox>>
  BY DEF VerifyMarkUsed, MarkUsed, mail
<1>6. tokens[t] \in TokenRow
  BY <1>1, <1>2 DEF IInv, TypeOK, Belongs
<1>7. /\ tokens' \in [TokenIds -> TokenRow \cup {None}]
      /\ tokens'[t] \in TokenRow /\ tokens'[t].used /\ tokens'[t].user = tokens[t].user
      /\ \A s \in TokenIds \ {t} : tokens'[s] = tokens[s]
  BY <1>1, <1>5, <1>6 DEF IInv, TypeOK, TokenRow
<1>8. tokens'[t] # None
  BY <1>7, NoneIsNoRow
<1>9. Grows(users, users', tokens, tokens', inbox, inbox')
  BY <1>5, <1>7, <1>8 DEF Grows
<1>10. Consistent(r, users', tokens', inbox')
  BY <1>1, <1>2, <1>5, <1>7, <1>8 DEF Consistent, Belongs, CopyOf
<1>11. TypeOK'
  BY <1>3, <1>4, <1>5, <1>7, GotoMoves DEF IInv, TypeOK
<1>12. EmailsAreUnique'
  BY <1>5 DEF IInv, EmailsAreUnique, Known
<1>13. VerifiedByMail'
  <2>1. \A s \in TokenIds : tokens[s] # None /\ tokens[s].used =>
            tokens'[s] # None /\ tokens'[s].used /\ tokens'[s].user = tokens[s].user
    BY <1>5, <1>7
  <2>2. QED
    BY <1>5, <2>1 DEF IInv, TypeOK, VerifiedByMail, Known
<1>14. TokensVerifyOnce'
  <2>1. \A v \in Workers \ {w} : req[v].pc = "verify" => req[v].token # t
    BY <1>5 DEF IInv, RequestsConsistent, Consistent
  <2>2. req'[w] = r /\ \A v \in Workers \ {w} : req'[v] = req[v]
    BY <1>3, <1>4, GotoMoves DEF IInv
  <2>3. QED
    BY <2>1, <2>2 DEF IInv, TokensVerifyOnce
<1>15. Stored'
  <2>1. \A s \in TokenIds : /\ tokens'[s] # None <=> tokens[s] # None
                            /\ tokens[s] # None => tokens'[s].user = tokens[s].user
    BY <1>2, <1>7, <1>8 DEF Belongs
  <2>2. \A i \in DOMAIN queue : queue[i] \in TokenIds
    BY DEF IInv, TypeOK
  <2>3. sender.pc = "send" => sender.token \in TokenIds
    BY DEF IInv, TypeOK, MailWorker, Looping, Stopped
  <2>4. QED
    BY <1>5, <2>1, <2>2, <2>3 DEF IInv, TypeOK, Stored
<1>16. RequestsConsistent'
  BY <1>3, <1>4, <1>9, <1>10, RequestsStayConsistent
<1>17. QED
  BY <1>11, <1>12, <1>13, <1>14, <1>15, <1>16 DEF IInv

\* Handing the mail to the queue.
LEMMA PushKeepsInvariant ==
    ASSUME IInv, NEW w \in Workers, RegisterPush(w)
    PROVE  IInv'
<1>1. req[w].token \in TokenIds /\ tokens[req[w].token] # None
  BY RequestShape DEF IInv, RequestsConsistent, Consistent, RegisterPush
<1>2. Idle \in Request /\ Idle.pc # "verify" /\ Goto(w, Idle)
  BY DEF Request, Idle, RegisterPush, Done
<1>3. queue \in Seq(TokenIds) /\ queue' = Append(queue, req[w].token)
      /\ UNCHANGED <<users, tokens, expired, sender, inbox>>
  BY DEF IInv, TypeOK, RegisterPush
<1>4. queue' \in Seq(TokenIds)
      /\ \A i \in DOMAIN queue' : (i \in DOMAIN queue /\ queue'[i] = queue[i])
                                 \/ queue'[i] = req[w].token
  BY <1>1, <1>3
<1>5. TypeOK'
  BY <1>2, <1>3, <1>4, GotoMoves DEF IInv, TypeOK
<1>6. EmailsAreUnique' /\ VerifiedByMail'
  BY <1>3 DEF IInv, EmailsAreUnique, VerifiedByMail, Known
<1>7. TokensVerifyOnce'
  BY <1>2, GotoMoves DEF IInv, TokensVerifyOnce
<1>8. Stored'
  BY <1>1, <1>3, <1>4 DEF IInv, Stored
<1>9. RequestsConsistent'
  BY <1>2, <1>3, IdleConsistent, GrowsByNothing, RequestsStayConsistent
<1>10. QED
  BY <1>5, <1>6, <1>7, <1>8, <1>9 DEF IInv

---------------------------------------------------------------------------
(* The mail worker, the clock, and the theorems *)

\* When no table changes and no mail is lost from an inbox, all requests keep
\* what they rely on.
LEMMA RequestsRest ==
    ASSUME IInv, UNCHANGED <<users, tokens, req>>, inbox \subseteq inbox'
    PROVE  RequestsConsistent'
<1>1. Grows(users, users', tokens, tokens', inbox, inbox')
  BY DEF Grows
<1>2. SUFFICES ASSUME NEW v \in Workers
               PROVE  Consistent(req[v], users', tokens', inbox')
  BY DEF RequestsConsistent
<1>3. req[v] \in Request /\ Consistent(req[v], users, tokens, inbox)
  BY RequestShape DEF IInv, RequestsConsistent
<1>4. QED
  BY <1>1, <1>3, ConsistentGrows

\* Moving a mail from the list to its inbox, or losing it.
LEMMA MailKeepsInvariant ==
    ASSUME IInv, PopMail \/ SendMail
    PROVE  IInv'
<1>1. UNCHANGED <<users, tokens, expired, req>> /\ inbox \subseteq inbox'
  BY DEF PopMail, SendMail, DeliverMail, LoseMail
<1>2. /\ sender.pc = "send" => sender.token \in TokenIds
      /\ Looping \in MailWorker /\ Looping.pc # "send"
  BY DEF IInv, TypeOK, MailWorker, Looping, Stopped
<1>3. /\ inbox' \subseteq TokenIds /\ queue' \in Seq(TokenIds) /\ sender' \in MailWorker
      /\ \A t \in inbox' : tokens[t] # None
      /\ \A i \in DOMAIN queue' : tokens[queue'[i]] # None
      /\ sender'.pc = "send" => tokens[sender'.token] # None
  <2>1. CASE PopMail
    <3>1. /\ queue \in Seq(TokenIds) /\ queue # <<>>
          /\ sender' = [pc |-> "send", token |-> Head(queue)]
          /\ queue' = Tail(queue) /\ inbox' = inbox
      BY <2>1 DEF PopMail, IInv, TypeOK
    <3>2. /\ Head(queue) \in TokenIds /\ Head(queue) = queue[1] /\ 1 \in DOMAIN queue
          /\ Tail(queue) \in Seq(TokenIds)
          /\ \A i \in DOMAIN Tail(queue) : i + 1 \in DOMAIN queue /\ Tail(queue)[i] = queue[i + 1]
      BY <3>1
    <3>3. QED
      BY <3>1, <3>2 DEF IInv, TypeOK, Stored, MailWorker
  <2>2. CASE DeliverMail
    BY <1>2, <2>2 DEF DeliverMail, IInv, TypeOK, Stored
  <2>3. CASE LoseMail
    BY <1>2, <2>3 DEF LoseMail, AfterFailure, IInv, TypeOK, Stored
  <2>4. QED
    BY <2>1, <2>2, <2>3 DEF SendMail
<1>4. TypeOK'
  BY <1>1, <1>3 DEF IInv, TypeOK
<1>5. EmailsAreUnique' /\ VerifiedByMail' /\ TokensVerifyOnce'
  BY <1>1 DEF IInv, EmailsAreUnique, VerifiedByMail, TokensVerifyOnce, Known
<1>6. Stored'
  BY <1>1, <1>3 DEF IInv, Stored
<1>7. RequestsConsistent'
  BY <1>1, RequestsRest
<1>8. QED
  BY <1>4, <1>5, <1>6, <1>7 DEF IInv

\* A token's 24 hours pass.
LEMMA ExpireKeepsInvariant ==
    ASSUME IInv, NEW t \in TokenIds, Expire(t)
    PROVE  IInv'
<1>1. UNCHANGED <<users, tokens, req, queue, sender, inbox>> /\ expired' = expired \cup {t}
  BY DEF Expire, mail
<1>2. TypeOK'
  BY <1>1 DEF IInv, TypeOK
<1>3. EmailsAreUnique' /\ VerifiedByMail' /\ TokensVerifyOnce' /\ Stored'
  BY <1>1 DEF IInv, EmailsAreUnique, VerifiedByMail, TokensVerifyOnce, Stored, Known
<1>4. RequestsConsistent'
  BY <1>1, RequestsRest
<1>5. QED
  BY <1>2, <1>3, <1>4 DEF IInv

\* The invariant holds at first.
LEMMA InitInvariant == Init => IInv
<1> SUFFICES ASSUME Init PROVE IInv
  OBVIOUS
<1>1. Idle \in Request /\ Looping \in MailWorker /\ Looping.pc # "send" /\ Idle.pc # "verify"
  BY DEF Request, MailWorker, Idle, Looping
<1>2. TypeOK
  BY <1>1 DEF Init, TypeOK
<1>3. EmailsAreUnique /\ VerifiedByMail /\ TokensVerifyOnce /\ Stored
  BY <1>1 DEF Init, EmailsAreUnique, VerifiedByMail, TokensVerifyOnce, Stored, Known
<1>4. RequestsConsistent
  BY IdleConsistent DEF Init, RequestsConsistent
<1>5. QED
  BY <1>2, <1>3, <1>4 DEF IInv

\* Every step keeps it.
LEMMA NextInvariant == IInv /\ [Next]_vars => IInv'
<1> SUFFICES ASSUME IInv, [Next]_vars PROVE IInv'
  OBVIOUS
<1>1. ASSUME NEW w \in Workers, Serve(w) PROVE IInv'
  BY <1>1, RegisterKeepsInvariant, RegisterWritesKeepInvariant, SaveTokenKeepsInvariant,
     PushKeepsInvariant, VerifyReadsKeepInvariant, MarkUsedKeepsInvariant,
     VerifyUpdateKeepsInvariant, FailKeepsInvariant DEF Serve
<1>2. CASE UNCHANGED vars
  <2>1. UNCHANGED <<users, tokens, expired, queue, sender, inbox, req>>
    BY <1>2 DEF vars, mail
  <2>2. TypeOK'
    BY <2>1 DEF IInv, TypeOK
  <2>3. EmailsAreUnique' /\ VerifiedByMail' /\ TokensVerifyOnce' /\ Stored'
    BY <2>1 DEF IInv, EmailsAreUnique, VerifiedByMail, TokensVerifyOnce, Stored, Known
  <2>4. QED
    BY <2>1, <2>2, <2>3, RequestsRest DEF IInv
<1>3. QED
  BY <1>1, <1>2, MailKeepsInvariant, ExpireKeepsInvariant DEF Next

\* The inductive invariant: the three safety invariants together with what is
\* stored and what every request in flight may rely on.
THEOREM Inductive == Spec => []IInv
BY InitInvariant, NextInvariant, PTL DEF Spec

\* Rows, requests and the mail queue keep their types.
THEOREM TypeCorrect == Spec => []TypeOK
<1>1. IInv => TypeOK
  BY DEF IInv
<1>2. QED
  BY <1>1, Inductive, PTL

\* However many registrations of an address overlap, it has one user.
THEOREM AddressesHaveOneUser == Spec => []EmailsAreUnique
<1>1. IInv => EmailsAreUnique
  BY DEF IInv
<1>2. QED
  BY <1>1, Inductive, PTL

\* No user is verified but by a token that reached their address.
THEOREM VerificationNeedsMail == Spec => []VerifiedByMail
<1>1. IInv => VerifiedByMail
  BY DEF IInv
<1>2. QED
  BY <1>1, Inductive, PTL

\* Of any number of requests presenting one token, one gets to verify.
THEOREM TokensAreClaimedOnce == Spec => []TokensVerifyOnce
<1>1. IInv => TokensVerifyOnce
  BY DEF IInv
<1>2. QED
  BY <1>1, Inductive, PTL

---------------------------------------------------------------------------
(* Settled accounts *)

\* A request holds no copy of u's row, or one that agrees with it.
Agrees(r, u, row) ==
    r.pc \in {"resend", "markUsed", "verify"} /\ r.user = u => r.row = row

\* One request moves on, to something that agrees, and the row stays.
LEMMA SettledByMove ==
    ASSUME TypeOK, NEW u \in UserIds, Settled(u), NEW w \in Workers, NEW r,
           req' = [req EXCEPT ![w] = r], users'[u] = users[u], Agrees(r, u, users[u])
    PROVE  Settled(u)' /\ users'[u] = users[u]
<1>1. \A v \in Workers : req'[v] = IF v = w THEN r ELSE req[v]
  BY DEF TypeOK
<1>2. \A v \in Workers : Agrees(req[v], u, users[u])
  BY DEF Settled, Copy, Agrees
<1>3. \A v \in Workers : Agrees(req'[v], u, users'[u])
  BY <1>1, <1>2
<1>4. QED
  BY <1>3 DEF Settled, Copy, Agrees

\* Registering again never takes a verified row, and a registration that
\* inserts takes an unused one.
LEMMA RegisterKeepsSettled ==
    ASSUME TypeOK, NEW u \in UserIds, Settled(u), NEW w \in Workers,
           Register(w) \/ RegisterInsert(w)
    PROVE  Settled(u)' /\ users'[u] = users[u]
<1>1. CASE Register(w)
  <2>1. PICK e \in Emails, p \in Passwords :
          \/ \E v \in Known :
               /\ CanResend(v, e)
               /\ Goto(w, [pc |-> "resend", user |-> v,
                           row |-> [users[v] EXCEPT !.password = p]])
          \/ Goto(w, [pc |-> "insert", row |-> NewUser(e, p)])
    BY <1>1 DEF Register
  <2>2. users'[u] = users[u]
    BY <1>1 DEF Register
  <2>3. ASSUME NEW v \in Known, CanResend(v, e),
               Goto(w, [pc |-> "resend", user |-> v,
                        row |-> [users[v] EXCEPT !.password = p]])
        PROVE  Settled(u)' /\ users'[u] = users[u]
    <3>1. v # u
      BY <2>3 DEF CanResend, Settled
    <3>2. Agrees([pc |-> "resend", user |-> v,
                  row |-> [users[v] EXCEPT !.password = p]], u, users[u])
      BY <3>1 DEF Agrees
    <3>3. QED
      BY <2>2, <2>3, <3>2, SettledByMove DEF Goto
  <2>4. CASE Goto(w, [pc |-> "insert", row |-> NewUser(e, p)])
    <3>1. Agrees([pc |-> "insert", row |-> NewUser(e, p)], u, users[u])
      BY DEF Agrees
    <3>2. QED
      BY <2>2, <2>4, <3>1, SettledByMove DEF Goto
  <2>5. QED
    BY <2>1, <2>3, <2>4
<1>2. CASE RegisterInsert(w)
  <2>1. PICK v \in UserIds \ Known :
          /\ users' = [users EXCEPT ![v] = req[w].row]
          /\ Goto(w, [pc |-> "saveToken", user |-> v])
    BY <1>2 DEF RegisterInsert
  <2>2. v # u /\ users'[u] = users[u]
    BY <2>1 DEF Settled, Known, TypeOK
  <2>3. Agrees([pc |-> "saveToken", user |-> v], u, users[u])
    BY DEF Agrees
  <2>4. QED
    BY <2>1, <2>2, <2>3, SettledByMove DEF Goto
<1>3. QED
  BY <1>1, <1>2

\* A request that writes a whole row back writes one that agrees.
LEMMA WritesKeepSettled ==
    ASSUME TypeOK, NEW u \in UserIds, Settled(u), NEW w \in Workers,
           RegisterResend(w) \/ VerifyUpdate(w)
    PROVE  Settled(u)' /\ users'[u] = users[u]
<1>1. /\ req[w].pc \in {"resend", "verify"}
      /\ users' = [users EXCEPT ![req[w].user] = req[w].row]
  BY DEF RegisterResend, VerifyUpdate
<1>2. Copy(w, u) => req[w].row = users[u]
  BY DEF Settled
<1>3. users'[u] = users[u]
  BY <1>1, <1>2 DEF Copy, TypeOK
<1>4. PICK r \in {Idle, [pc |-> "saveToken", user |-> req[w].user]} :
        req' = [req EXCEPT ![w] = r]
  BY DEF RegisterResend, VerifyUpdate, Done, Goto
<1>5. Agrees(r, u, users[u])
  BY DEF Agrees, Idle
<1>6. QED
  BY <1>3, <1>4, <1>5, SettledByMove

\* A verification that loads the row leaves it verified, as it was.
LEMMA VerifyKeepsSettled ==
    ASSUME TypeOK, NEW u \in UserIds, Settled(u), NEW w \in Workers,
           VerifyFindUser(w) \/ VerifyMarkUsed(w)
    PROVE  Settled(u)' /\ users'[u] = users[u]
<1>1. users'[u] = users[u]
  BY DEF VerifyFindUser, VerifyMarkUsed
<1>2. CASE VerifyFindUser(w)
  <2> DEFINE v == tokens[req[w].token].user
             row == [users[v] EXCEPT !.verified = TRUE]
             r == [pc |-> "markUsed", token |-> req[w].token, user |-> v, row |-> row]
  <2>1. req' = [req EXCEPT ![w] = r]
    BY <1>2 DEF VerifyFindUser, Goto
  <2>2. users[u] \in UserRow /\ users[u].verified = TRUE
    BY DEF TypeOK, Settled, UserRow
  <2>3. v = u => row = users[u]
    BY <2>2 DEF UserRow
  <2>4. Agrees(r, u, users[u])
    BY <2>3 DEF Agrees
  <2>5. QED
    BY <1>1, <2>1, <2>4, SettledByMove
<1>3. CASE VerifyMarkUsed(w)
  <2> DEFINE r == [req[w] EXCEPT !.pc = "verify"]
  <2>1. req' = [req EXCEPT ![w] = r]
    BY <1>3 DEF VerifyMarkUsed
  <2>2. req[w].pc = "markUsed" /\ Agrees(req[w], u, users[u])
    BY <1>3 DEF VerifyMarkUsed, Settled, Copy, Agrees
  <2>3. /\ req[w] = [pc |-> req[w].pc, token |-> req[w].token,
                     user |-> req[w].user, row |-> req[w].row]
    BY <2>2, RequestShape
  <2>4. r.user = req[w].user /\ r.row = req[w].row
    BY <2>3
  <2>5. Agrees(r, u, users[u])
    BY <2>2, <2>4 DEF Agrees
  <2>6. QED
    BY <1>1, <2>1, <2>5, SettledByMove
<1>4. QED
  BY <1>2, <1>3

\* The other steps write no user and hold no copy of one.
LEMMA OthersKeepSettled ==
    ASSUME TypeOK, NEW u \in UserIds, Settled(u), NEW w \in Workers,
           RegisterSaveToken(w) \/ RegisterPush(w) \/ Verify(w) \/ Fail(w)
    PROVE  Settled(u)' /\ users'[u] = users[u]
<1>1. users'[u] = users[u]
  BY DEF RegisterSaveToken, RegisterPush, Verify, Fail
<1>2. CASE RegisterSaveToken(w)
  <2>1. PICK t \in TokenIds : Goto(w, [pc |-> "push", token |-> t])
    BY <1>2 DEF RegisterSaveToken
  <2>2. Agrees([pc |-> "push", token |-> t], u, users[u])
    BY DEF Agrees
  <2>3. QED
    BY <1>1, <2>1, <2>2, SettledByMove DEF Goto
<1>3. CASE Verify(w)
  <2>1. PICK t \in inbox : Goto(w, [pc |-> "findUser", token |-> t])
    BY <1>3 DEF Verify
  <2>2. Agrees([pc |-> "findUser", token |-> t], u, users[u])
    BY DEF Agrees
  <2>3. QED
    BY <1>1, <2>1, <2>2, SettledByMove DEF Goto
<1>4. CASE RegisterPush(w) \/ Fail(w)
  <2>1. Goto(w, Idle)
    BY <1>4 DEF RegisterPush, Fail, Done
  <2>2. Agrees(Idle, u, users[u])
    BY DEF Agrees, Idle
  <2>3. QED
    BY <1>1, <2>1, <2>2, SettledByMove DEF Goto
<1>5. QED
  BY <1>2, <1>3, <1>4

LEMMA SettledStep ==
    ASSUME IInv, [Next]_vars, NEW u \in UserIds, Settled(u)
    PROVE  Settled(u)' /\ users'[u] = users[u]
<1>1. TypeOK
  BY DEF IInv
<1>2. ASSUME NEW w \in Workers, Serve(w) PROVE Settled(u)' /\ users'[u] = users[u]
  BY <1>1, <1>2, RegisterKeepsSettled, WritesKeepSettled, VerifyKeepsSettled,
     OthersKeepSettled DEF Serve
<1>3. CASE UNCHANGED <<users, req>>
  BY <1>3 DEF Settled, Copy
<1>4. QED
  BY <1>2, <1>3 DEF Next, PopMail, SendMail, DeliverMail, LoseMail, Expire, vars

\* Once every copy in flight agrees with a verified row, no registration and
\* no verification changes it again.
THEOREM VerifiedAccountsSettle == Spec => VerifiedSettles
<1>1. IInv /\ [Next]_vars =>
        [\A u \in UserIds : Settled(u) => Settled(u)' /\ users'[u] = users[u]]_vars
  BY SettledStep
<1>2. QED
  BY <1>1, Inductive, PTL DEF Spec, VerifiedSettles
=============================================================================
