------------------------------ MODULE Browser ------------------------------
(* One tab of the web client on top of Sessions: the access token is kept in *)
(* memory, the refresh token in sessionStorage, which survives a reload      *)
(* (web/src/context/AuthContext.tsx).  The tab has one request under way at  *)
(* most; the server runs it by the steps of Sessions.                        *)
EXTENDS Sessions

VARIABLES
    held,    \* sessionStorage: the refresh token or None
    page,    \* what the user sees: "loading", "in" or "out"
    asking,  \* the request under way: "login", "refresh", "logout" or None
    bearer   \* the access token in memory or None

tabVars == <<held, page, asking, bearer>>
browserVars == <<vars, tabVars>>

BrowserInit ==
    /\ Init
    /\ held = None /\ page = "out" /\ asking = None /\ bearer = None

\* AuthProvider mounts: with a stored token it refreshes silently.  A request
\* of the old page is abandoned; the server may still be at it.
Reload ==
    /\ bearer' = None
    /\ IF held = None
       THEN page' = "out" /\ asking' = None
       ELSE page' = "loading" /\ asking' = "refresh"
    /\ UNCHANGED <<vars, held>>

\* The user acts once the page has settled.
Ask(kind) ==
    /\ asking = None
    /\ page = IF kind = "login" THEN "out" ELSE "in"
    /\ asking' = kind
    /\ UNCHANGED <<vars, held, page, bearer>>

\* The request reaches a handler.
Begins(w) ==
    \/ asking = "login" /\ Login(w)
    \/ asking = "refresh" /\ RefreshFind(w) /\ req'[w].from = held
    \/ asking = "logout" /\ CheckToken(w) /\ req'[w].jti = bearer

\* The handler goes on, and sends the stored token along to a logout.
Continues(w) ==
    \/ RefreshRevoke(w) \/ RefreshIssue(w) \/ Authorize(w) \/ Blacklist(w)
    \/ Logout(w) /\ req'[w].raw = held
    \/ Fail(w)

ServerStep == (\E w \in Workers : Begins(w) \/ Continues(w)) /\ UNCHANGED tabVars

\* What a login and a refresh do with the tokens of the answer: only a login
\* stores the refresh token.
Stores(kind, token) == IF kind = "login" THEN token ELSE held

\* The answer with a pair of tokens arrives, or is lost with an abandoned
\* request.
Answered ==
    \E w \in Workers :
        /\ Save(w)
        /\ \/ /\ asking = IF req[w].from = None THEN "login" ELSE "refresh"
              /\ held' = Stores(asking, req[w].token)
              /\ bearer' = CHOOSE j \in Jtis : access'[j] # access[j]
              /\ page' = "in" /\ asking' = None
           \/ UNCHANGED tabVars

\* Logging out ends in the tab whatever the server said.
LoggedOut ==
    /\ asking = "logout"
    /\ \/ \E w \in Workers : LogoutRevoke(w)
       \/ UNCHANGED vars
    /\ held' = None /\ page' = "out" /\ asking' = None /\ bearer' = None

\* An error answer, or none: a failed refresh drops the stored token.
Refused ==
    /\ asking \in {"login", "refresh"}
    /\ held' = IF asking = "refresh" THEN None ELSE held
    /\ page' = "out" /\ asking' = None
    /\ UNCHANGED <<vars, bearer>>

BrowserNext ==
    \/ Reload \/ Ask("login") \/ Ask("logout")
    \/ ServerStep \/ Answered \/ LoggedOut \/ Refused
    \/ Tick /\ UNCHANGED tabVars

BrowserSpec == BrowserInit /\ [][BrowserNext]_browserVars

---------------------------------------------------------------------------
(* Properties *)

\* "Attempt silent refresh on mount to restore session": while the user is
\* signed in, the token a reload would present still works, until it expires.
\* The refresh that restores the session drops the token it is given, so the
\* next reload presents a revoked one and signs the user out.
ReloadRestoresSession ==
    page = "in" /\ asking = None /\ held # None /\ ~IsExpired(held) => held \in Live
=============================================================================
