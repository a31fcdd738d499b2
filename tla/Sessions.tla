------------------------------ MODULE Sessions ------------------------------
(* Sessions in the auth component: logging in, exchanging a refresh token    *)
(* for a new pair, admitting a request by its access token, logging out.     *)
(*                                                                           *)
(* Refresh tokens live in a Postgres table, the blacklist of access tokens   *)
(* in Redis under keys that expire.  Each statement or Redis command is one  *)
(* step; a request is the sequence of its steps.  Users are the verified and *)
(* active ones who know their password: every other login ends without       *)
(* effect, and nothing in the code disables a user again.                    *)
EXTENDS Integers

CONSTANTS
    Workers, Users,
    Jtis,         \* identities of access tokens
    Horizon,      \* the clock, in seconds, stops here
    AccessTTL, RefreshTTL,
    None

\* IssueRefreshToken signs sub, iat and exp and nothing else: a raw token, and
\* so its hash, is told by its user and the second it was issued.
Token == [user: Users, iat: 0..Horizon]

ASSUME Lifetimes == {Horizon, AccessTTL, RefreshTTL} \subseteq Nat
ASSUME NoneIsNothing == None \notin Token

Access == [user: Users, exp: Nat]

ASSUME NoneIsNoAccess == None \notin Access

Idle == [pc |-> "idle"]

Request == {Idle}
    \cup [pc: {"revoke", "issue"}, from: Token]
    \cup [pc: {"save"}, token: Token, from: Token \cup {None}]
    \cup [pc: {"authorize", "serve"}, jti: Jtis]
    \cup [pc: {"blacklist"}, jti: Jtis, ttl: Int, raw: Token \cup {None}]
    \cup [pc: {"logout"}, jti: Jtis, raw: Token \cup {None}]

VARIABLES
    now,
    saved,       \* table refresh_tokens: the rows, by their hash
    revoked,     \* the rows with a revoked_at
    access,      \* access tokens answered to clients: jti -> claims or None
    blacklist,   \* Redis, revoked:{jti}: the time the key expires, 0 if never set
    req,
    began,       \* history: the token of the login a row descends from
    ended,       \* history: logins whose token a logout revoked
    loggedOut    \* history: access tokens whose logout was answered

tables == <<saved, revoked, began, ended>>
cache == <<access, blacklist, loggedOut>>
vars == <<now, tables, cache, req>>

Init ==
    /\ now = 0
    /\ saved = {} /\ revoked = {} /\ ended = {}
    /\ began = [t \in Token |-> None]
    /\ access = [j \in Jtis |-> None]
    /\ blacklist = [j \in Jtis |-> 0]
    /\ loggedOut = {}
    /\ req = [w \in Workers |-> Idle]

Live == saved \ revoked

Goto(w, r) == req' = [req EXCEPT ![w] = r]

Done(w) == Goto(w, Idle)

IssueRefreshToken(u) == [user |-> u, iat |-> now]

---------------------------------------------------------------------------
(* POST /auth/login: LoginService.Login *)

Login(w) ==
    /\ req[w].pc = "idle"
    /\ \E u \in Users :
         Goto(w, [pc |-> "save", token |-> IssueRefreshToken(u), from |-> None])
    /\ UNCHANGED <<now, tables, cache>>

Storable(t) == t \notin saved

\* The INSERT, whose unique index refuses a second token of the same user and
\* second (Fail then); the answer carries an access token of the same age.
Save(w) ==
    /\ req[w].pc = "save"
    /\ LET t == req[w].token
           from == req[w].from
       IN /\ Storable(t)
          /\ saved' = saved \cup {t}
          /\ began' = [began EXCEPT ![t] = IF from = None THEN t ELSE began[from]]
          /\ \E j \in Jtis :
               /\ access[j] = None
               /\ access' = [access EXCEPT ![j] =
                               [user |-> t.user, exp |-> t.iat + AccessTTL]]
    /\ Done(w)
    /\ UNCHANGED <<now, revoked, ended, blacklist, loggedOut>>

---------------------------------------------------------------------------
(* POST /auth/refresh: RefreshService.Refresh *)

IsExpired(t) == now > t.iat + RefreshTTL

RefreshFind(w) ==
    /\ req[w].pc = "idle"
    /\ \E t \in Live :
         /\ ~IsExpired(t)
         /\ Goto(w, [pc |-> "revoke", from |-> t])
    /\ UNCHANGED <<now, tables, cache>>

\* WHERE id = $1 AND revoked_at IS NULL.  Mutant: without the second condition.
Revoke_Again(t) == revoked' = revoked \cup {t}
Revoke(t) ==
    /\ t \notin revoked
    /\ revoked' = revoked \cup {t}

RefreshRevoke(w) ==
    /\ req[w].pc = "revoke"
    /\ Revoke(req[w].from)
    /\ Goto(w, [pc |-> "issue", from |-> req[w].from])
    /\ UNCHANGED <<now, saved, began, ended, cache>>

RefreshIssue(w) ==
    /\ req[w].pc = "issue"
    /\ Goto(w, [pc |-> "save", from |-> req[w].from,
                token |-> IssueRefreshToken(req[w].from.user)])
    /\ UNCHANGED <<now, tables, cache>>

---------------------------------------------------------------------------
(* A protected route: JWTMiddleware, then the handler *)

CheckToken(w) ==
    /\ req[w].pc = "idle"
    /\ \E j \in Jtis :
         /\ access[j] # None
         /\ now < access[j].exp
         /\ Goto(w, [pc |-> "authorize", jti |-> j])
    /\ UNCHANGED <<now, tables, cache>>

\* GET revoked:{jti}; an error refuses the request.  Mutant: it admits it.
NotBlacklisted_FailOpen(j) == access[j] # None
NotBlacklisted(j) == blacklist[j] =< now

Authorize(w) ==
    /\ req[w].pc = "authorize"
    /\ NotBlacklisted(req[w].jti)
    /\ Goto(w, [pc |-> "serve", jti |-> req[w].jti])
    /\ UNCHANGED <<now, tables, cache>>

---------------------------------------------------------------------------
(* POST /auth/logout: LogoutService.Logout *)

\* time.Until(cmd.ExpiresAt).  Mutant: the last second is lost to rounding.
TimeLeft_Truncated(j) == access[j].exp - now - 1
TimeLeft(j) == access[j].exp - now

\* The refresh token is optional and any client may send any it holds.
Logout(w) ==
    /\ req[w].pc = "serve"
    /\ LET j == req[w].jti
       IN \E raw \in saved \cup {None} :
            IF TimeLeft(j) > 0
            THEN Goto(w, [pc |-> "blacklist", jti |-> j, ttl |-> TimeLeft(j), raw |-> raw])
            ELSE Goto(w, [pc |-> "logout", jti |-> j, raw |-> raw])
    /\ UNCHANGED <<now, tables, cache>>

Blacklist(w) ==
    /\ req[w].pc = "blacklist"
    /\ blacklist' = [blacklist EXCEPT ![req[w].jti] = now + req[w].ttl]
    /\ Goto(w, [pc |-> "logout", jti |-> req[w].jti, raw |-> req[w].raw])
    /\ UNCHANGED <<now, tables, access, loggedOut>>

\* Whatever becomes of the refresh token, the logout is answered with 200.
LogoutRevoke(w) ==
    /\ req[w].pc = "logout"
    /\ LET raw == req[w].raw
       IN \/ /\ raw # None
             /\ Revoke(raw)
             /\ ended' = ended \cup {began[raw]}
          \/ UNCHANGED <<revoked, ended>>
    /\ loggedOut' = loggedOut \cup {req[w].jti}
    /\ Done(w)
    /\ UNCHANGED <<now, saved, began, access, blacklist>>

---------------------------------------------------------------------------

\* A request that is refused, whose statement fails or whose process dies
\* leaves what its earlier statements wrote; any other handler just answers.
Fail(w) ==
    /\ req[w].pc # "idle"
    /\ Done(w)
    /\ UNCHANGED <<now, tables, cache>>

Tick ==
    /\ now < Horizon
    /\ now' = now + 1
    /\ UNCHANGED <<tables, cache, req>>

Serve(w) ==
    \/ Login(w) \/ Save(w)
    \/ RefreshFind(w) \/ RefreshRevoke(w) \/ RefreshIssue(w)
    \/ CheckToken(w) \/ Authorize(w)
    \/ Logout(w) \/ Blacklist(w) \/ LogoutRevoke(w)
    \/ Fail(w)

Next == Tick \/ \E w \in Workers : Serve(w)

Spec == Init /\ [][Next]_vars

---------------------------------------------------------------------------
(* Properties *)

TypeOK ==
    /\ now \in 0..Horizon
    /\ saved \subseteq Token /\ revoked \subseteq saved /\ ended \subseteq saved
    /\ began \in [Token -> Token \cup {None}]
    /\ access \in [Jtis -> Access \cup {None}]
    /\ blacklist \in [Jtis -> Int]
    /\ loggedOut \subseteq Jtis
    /\ req \in [Workers -> Request]

\* Rotation: of the tokens one login led to, a live one is the newest, so that
\* a login never has two that work, however refreshes and retries overlap.
LiveIsNewest ==
    \A t \in Live, s \in saved :
        began[s] = began[t] => s = t \/ s.iat < t.iat

\* A session whose token a logout revoked is over: a refresh already under way
\* does not bring it back.
EndedStaysEnded == \A t \in Live : began[t] \notin ended

\* Once a logout has been answered, the blacklist holds the access token for
\* as long as the token itself would be accepted.
LoggedOutIsBlacklisted ==
    \A j \in loggedOut : now < access[j].exp => now < blacklist[j]

\* The middleware admits no request with an access token logged out before,
\* even one whose signature and expiry it checked before the logout.
LoggedOutIsRefused ==
    [][\A w \in Workers :
         req[w].pc = "authorize" /\ req'[w].pc = "serve" =>
            req[w].jti \notin loggedOut \/ now >= access[req[w].jti].exp]_vars
=============================================================================
