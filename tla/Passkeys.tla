------------------------------ MODULE Passkeys ------------------------------
(* Registering a passkey and logging in with one (auth/usecase/webauthn.go). *)
(*                                                                           *)
(* Each ceremony has two requests.  "begin" leaves a challenge in Redis for  *)
(* five minutes; the authenticator answers it; "finish" loads the caller and *)
(* the caller's keys, fetches the challenge, deletes it, lets the library    *)
(* verify the answer, and writes the key's row back from the copy it loaded  *)
(* first.  Answers may reach the server more than once, late, and in any     *)
(* order.                                                                    *)
(*                                                                           *)
(* The library (go-webauthn) and the authenticators are outside the source:  *)
(* they are modelled by what this code relies on.                            *)
EXTENDS Integers

CONSTANTS
    Workers,
    Users,       \* verified users
    Keys,        \* credentials authenticators may make
    SessionIds,  \* the uuids a begin may draw
    MaxCount,    \* bound: an authenticator signs this often
    None

Counts == 0..MaxCount

\* SessionData, as stored in Redis.
Ceremony == [kind: {"create", "get"}, user: Users, allowed: SUBSET Keys]

\* What an authenticator signs: a challenge, with one of its keys, at a count.
Answer == [session: SessionIds, key: Keys, count: Counts]

Row == [user: Users, signCount: Counts, cloneWarning: BOOLEAN]

Idle == [pc |-> "idle"]

\* A finish about to GET the challenge, to DEL it, to verify the answer and
\* write the key, to save the refresh token; cred is its copy of the key's
\* row, None if that is not among the caller's keys.
Request == {Idle}
    \cup [pc: {"get", "delete", "verify", "token"}, user: Users, answer: Answer,
          cred: Row \cup {None}]

ASSUME MaxCountIsNat == MaxCount \in Nat
ASSUME NoneIsNoValue == None \notin Row \cup Ceremony \cup Counts

VARIABLES
    session,   \* every challenge there has been: id -> SessionData or None
    cache,     \* those Redis still has
    counter,   \* each authenticator's own count, None if it keeps none
    answers,   \* the answers given; any may be sent, at any time
    key,       \* table webauthn_credentials: credential -> row or None
    req,       \* what each goroutine holds of its finish request
    accepted   \* history: [session, user, key] of the finishes answered with tokens

vars == <<session, cache, counter, answers, key, req, accepted>>
clientVars == <<counter, answers>>

Init ==
    /\ session = [s \in SessionIds |-> None]
    /\ cache = {}
    /\ counter \in [Keys -> {0, None}]
    /\ answers = {}
    /\ key = [k \in Keys |-> None]
    /\ req = [w \in Workers |-> Idle]
    /\ accepted = {}

KeysOf(u) == {k \in Keys : key[k] # None /\ key[k].user = u}

---------------------------------------------------------------------------
(* POST /auth/webauthn/register/begin and login/begin.  One step: what is    *)
(* read before the SET only gets older, and keys are never removed.          *)

Begin(ceremony) ==
    /\ \E s \in SessionIds :
         /\ session[s] = None
         /\ session' = [session EXCEPT ![s] = ceremony]
         /\ cache' = cache \cup {s}
    /\ UNCHANGED <<clientVars, key, req, accepted>>

RegisterBegin ==
    \E u \in Users : Begin([kind |-> "create", user |-> u, allowed |-> {}])

\* BeginLogin refuses a user without keys.
LoginBegin ==
    \E u \in Users :
        /\ KeysOf(u) # {}
        /\ Begin([kind |-> "get", user |-> u, allowed |-> KeysOf(u)])

---------------------------------------------------------------------------
(* The authenticators *)

Asked(s, kind) == session[s] # None /\ session[s].kind = kind

CreateKey ==
    /\ \E s \in SessionIds, k \in Keys :
         /\ Asked(s, "create")
         /\ \A a \in answers : a.key # k
         /\ answers' = answers \cup {[session |-> s, key |-> k, count |-> 0]}
    /\ UNCHANGED <<session, cache, counter, key, req, accepted>>

Sign ==
    /\ \E s \in SessionIds, k \in Keys :
         LET n == IF counter[k] = None THEN 0 ELSE counter[k] + 1 IN
         /\ Asked(s, "get") /\ k \in session[s].allowed
         /\ n <= MaxCount
         /\ counter' = [counter EXCEPT ![k] = IF @ = None THEN None ELSE n]
         /\ answers' = answers \cup {[session |-> s, key |-> k, count |-> n]}
    /\ UNCHANGED <<session, cache, key, req, accepted>>

---------------------------------------------------------------------------
(* POST /auth/webauthn/register/finish and login/finish *)

\* The copy of a row among the caller's keys.
Loaded(u, k) == IF k \in KeysOf(u) THEN key[k] ELSE None

\* Whoever is signed in sends the answer: not always who began the ceremony.
FinishLoad(w) ==
    /\ req[w].pc = "idle"
    /\ \E u \in Users, a \in answers :
         req' = [req EXCEPT ![w] = [pc |-> "get", user |-> u, answer |-> a,
                                    cred |-> Loaded(u, a.key)]]
    /\ UNCHANGED <<session, cache, clientVars, key, accepted>>

\* RedisCache.Get answers a miss with no bytes and no error, which only
\* json.Unmarshal then refuses; mutant: a miss passes.
Found_Always(s) == s \in SessionIds
Found(s) == s \in cache

GetSession(w) ==
    /\ req[w].pc = "get"
    /\ Found(req[w].answer.session)
    /\ req' = [req EXCEPT ![w].pc = "delete"]
    /\ UNCHANGED <<session, cache, clientVars, key, accepted>>

\* The error of the DEL is discarded.
DeleteSession(w) ==
    /\ req[w].pc = "delete"
    /\ cache' \in {cache \ {req[w].answer.session}, cache}
    /\ req' = [req EXCEPT ![w].pc = "verify"]
    /\ UNCHANGED <<session, clientVars, key, accepted>>

\* CreateCredential and ValidateLogin; mutant: for whom the challenge was
\* issued is not compared.
BegunBy_Anyone(s, u) == session[s].user \in Users /\ u \in Users
BegunBy(s, u) == session[s].user = u

NewKey(u, a) == [user |-> u, signCount |-> a.count, cloneWarning |-> FALSE]

\* The unique index on credential_id; mutant: an upsert.
KeyFree_Upsert(k) == k \in Keys
KeyFree(k) == key[k] = None

StoreKey(w) ==
    LET a == req[w].answer IN
    /\ req[w].pc = "verify"
    /\ Asked(a.session, "create") /\ BegunBy(a.session, req[w].user)
    /\ KeyFree(a.key)
    /\ key' = [key EXCEPT ![a.key] = NewKey(req[w].user, a)]
    /\ req' = [req EXCEPT ![w].pc = "token"]
    /\ UNCHANGED <<session, cache, clientVars, accepted>>

\* The copy the library gets to work on; mutant: the warning is not carried.
AdaptedKey_NoWarning(row) == [row EXCEPT !.cloneWarning = FALSE]
AdaptedKey(row) == row

\* Authenticator.UpdateCounter: a count that does not grow leaves a warning.
Counted(row, n) ==
    IF n > row.signCount \/ (n = 0 /\ row.signCount = 0)
    THEN [row EXCEPT !.signCount = n]
    ELSE [row EXCEPT !.cloneWarning = TRUE]

\* UPDATE ... WHERE id: whatever the row says by now is overwritten, except
\* whose it is.
Overwrite(old, row) == [row EXCEPT !.user = old.user]

UpdateKey(w) ==
    LET a == req[w].answer IN
    /\ req[w].pc = "verify"
    /\ Asked(a.session, "get") /\ BegunBy(a.session, req[w].user)
    /\ a.key \in session[a.session].allowed
    /\ req[w].cred # None
    /\ key' = [key EXCEPT ![a.key] = Overwrite(@, Counted(AdaptedKey(req[w].cred), a.count))]
    /\ req' = [req EXCEPT ![w].pc = "token"]
    /\ UNCHANGED <<session, cache, clientVars, accepted>>

\* The refresh token is saved and the answer sent.
IssueTokens(w) ==
    /\ req[w].pc = "token"
    /\ accepted' = accepted \cup {[session |-> req[w].answer.session,
                                   user |-> req[w].user, key |-> req[w].answer.key]}
    /\ req' = [req EXCEPT ![w] = Idle]
    /\ UNCHANGED <<session, cache, clientVars, key>>

---------------------------------------------------------------------------
(* The world *)

\* A command or statement fails, a check refuses, the process dies.
Fail(w) ==
    /\ req[w].pc # "idle"
    /\ req' = [req EXCEPT ![w] = Idle]
    /\ UNCHANGED <<session, cache, clientVars, key, accepted>>

\* Five minutes are over.
Expire ==
    /\ \E s \in cache : cache' = cache \ {s}
    /\ UNCHANGED <<session, clientVars, key, req, accepted>>

Step(w) ==
    \/ FinishLoad(w) \/ GetSession(w) \/ DeleteSession(w)
    \/ StoreKey(w) \/ UpdateKey(w) \/ IssueTokens(w)
    \/ Fail(w)

Next ==
    \/ RegisterBegin \/ LoginBegin
    \/ CreateKey \/ Sign
    \/ \E w \in Workers : Step(w)
    \/ Expire

Spec == Init /\ [][Next]_vars

---------------------------------------------------------------------------
(* Properties *)

\* Redis, the table and the requests hold what the code puts there.
TypeOK ==
    /\ session \in [SessionIds -> Ceremony \cup {None}]
    /\ cache \subseteq SessionIds
    /\ counter \in [Keys -> Counts \cup {None}]
    /\ answers \subseteq Answer
    /\ key \in [Keys -> Row \cup {None}]
    /\ req \in [Workers -> Request]
    /\ accepted \subseteq [session: SessionIds, user: Users, key: Keys]

\* Tokens are only issued to the user whose ceremony was answered and who owns
\* the key it was answered with, though the session id, the user and the key
\* of a finish come from three places and the key is read before the session.
AcceptedIsOwned ==
    \A x \in accepted :
        session[x.session].user = x.user /\ key[x.key] # None /\ key[x.key].user = x.user

\* A challenge Redis no longer has, and that no finish has fetched before, is
\* over: however often its answer is sent again, it is not accepted.
Spent(s) ==
    /\ session[s] # None /\ s \notin cache
    /\ \A w \in Workers :
         req[w].pc \in {"delete", "verify", "token"} => req[w].answer.session # s

Acceptances(s) == {x \in accepted : x.session = s}

SpentStaysSpent ==
    [][\A s \in SessionIds : Spent(s) => Spent(s)' /\ Acceptances(s)' = Acceptances(s)]_vars

\* What the row of a key and every copy of it in flight agree on: the count
\* is n at least, or there was a warning.  A stale copy may take a row back,
\* but never behind what all of them say; a registration sent twice resets
\* nothing.
InFlight(k, w) ==
    req[w].pc \in {"get", "delete", "verify"} /\ req[w].answer.key = k /\ req[w].cred # None

AtLeast(k, n) ==
    /\ key[k] # None /\ key[k].signCount >= n
    /\ \A w \in Workers : InFlight(k, w) => req[w].cred.signCount >= n

CountSettles ==
    [][\A k \in Keys, n \in Counts : AtLeast(k, n) => AtLeast(k, n)']_vars

Warned(k) ==
    /\ key[k] # None /\ key[k].cloneWarning
    /\ \A w \in Workers : InFlight(k, w) => req[w].cred.cloneWarning

WarningSettles == [][\A k \in Keys : Warned(k) => Warned(k)']_vars
=============================================================================
