--------------------------- MODULE Sessions_proofs ---------------------------
(* Theorems about Sessions, for any number of requests, users and access     *)
(* tokens, any lifetimes and any horizon of the clock.                       *)
(*                                                                           *)
(* Two arguments that meet nowhere: a session has one live refresh token or  *)
(* one exchange under way, never two of either (TablesInv), and a logged-out *)
(* access token is covered by the blacklist until it expires (CacheInv).     *)
EXTENDS Sessions, TLAPS

\* A request that revoked a token and has yet to store the next one.
Exchanging(r) == r.pc = "issue" \/ (r.pc = "save" /\ r.from # None)

\* What a login or a refresh relies on at time n.
Renewing(r, sv, bg, n) ==
    /\ r.pc \in {"revoke", "issue"} => r.from \in sv
    /\ r.pc = "save" => r.token.iat =< n
    /\ r.pc = "save" /\ r.from # None =>
          /\ r.from \in sv /\ r.token.user = r.from.user
          /\ \A s \in sv : bg[s] = bg[r.from] => s.iat =< r.token.iat

\* Where a token comes from.
Origins ==
    \A t \in saved : began[t] \in saved /\ began[t].user = t.user /\ t.iat =< now

\* A session with an exchange under way has no live token, no second exchange,
\* and was not ended.
Exclusive ==
    \A w \in Workers : Exchanging(req[w]) =>
        /\ \A t \in Live : began[t] # began[req[w].from]
        /\ began[req[w].from] \notin ended
        /\ \A v \in Workers :
             Exchanging(req[v]) /\ began[req[v].from] = began[req[w].from] => v = w

TablesInv ==
    /\ Origins /\ LiveIsNewest /\ EndedStaysEnded /\ Exclusive
    /\ \A w \in Workers : Renewing(req[w], saved, began, now)

\* The blacklist holds access token j while the token itself is in date.
Covered(j, ac, bl, n) == ac[j] # None /\ (n < ac[j].exp => ac[j].exp =< bl[j])

\* What a request with an access token relies on at time n.
LoggingOut(r, sv, ac, bl, n) ==
    /\ r.pc \in {"authorize", "serve", "blacklist", "logout"} => ac[r.jti] # None
    /\ r.pc \in {"blacklist", "logout"} => r.raw \in sv \cup {None}
    /\ r.pc = "blacklist" => ac[r.jti].exp =< n + r.ttl
    /\ r.pc = "logout" => Covered(r.jti, ac, bl, n)

CacheInv ==
    /\ \A j \in loggedOut : Covered(j, access, blacklist, now)
    /\ \A w \in Workers : LoggingOut(req[w], saved, access, blacklist, now)

IInv == TypeOK /\ TablesInv /\ CacheInv

---------------------------------------------------------------------------
(* Requests and tokens *)

\* The clock and the lifetimes count in integers.
LEMMA IntegerClock == 0..Horizon \subseteq Int /\ {Horizon, AccessTTL, RefreshTTL} \subseteq Int
BY Lifetimes

\* What a request holds at each step.
LEMMA RequestShape ==
    ASSUME NEW r \in Request
    PROVE  /\ r.pc \in {"revoke", "issue"} => r.from \in Token
           /\ r.pc = "save" => r.token \in Token /\ r.from \in Token \cup {None}
           /\ r.pc \in {"authorize", "serve", "blacklist", "logout"} => r.jti \in Jtis
           /\ r.pc \in {"blacklist", "logout"} => r.raw \in Token \cup {None}
           /\ r.pc = "blacklist" => r.ttl \in Int
           /\ Exchanging(r) => r.from \in Token /\ r.from # None
BY NoneIsNothing DEF Request, Idle, Exchanging

\* Moving a request on changes that one request.
LEMMA GotoMoves ==
    ASSUME TypeOK, NEW w \in Workers, NEW r \in Request, Goto(w, r)
    PROVE  /\ req' \in [Workers -> Request]
           /\ req[w] \in Request
           /\ req'[w] = r
           /\ \A v \in Workers \ {w} : req'[v] = req[v] /\ req[v] \in Request
BY DEF TypeOK, Goto

\* A new token has the age of the clock.
LEMMA IssuedToken ==
    ASSUME NEW u \in Users, now \in 0..Horizon
    PROVE  /\ IssueRefreshToken(u) \in Token
           /\ IssueRefreshToken(u).user = u
           /\ IssueRefreshToken(u).iat = now
BY DEF IssueRefreshToken, Token

\* A token is its user and its second.
LEMMA TokensDiffer ==
    ASSUME NEW s \in Token, NEW t \in Token, s.user = t.user, s.iat = t.iat
    PROVE  s = t
BY DEF Token

\* An idle request relies on nothing and exchanges nothing.
LEMMA IdleRelies ==
    ASSUME NEW sv, NEW bg, NEW ac, NEW bl, NEW n
    PROVE  /\ Idle \in Request /\ ~Exchanging(Idle)
           /\ Renewing(Idle, sv, bg, n) /\ LoggingOut(Idle, sv, ac, bl, n)
BY DEF Idle, Request, Exchanging, Renewing, LoggingOut

---------------------------------------------------------------------------
(* What a step leaves to the other requests *)

\* Access tokens keep their claims, keys only get to expire later, rows stay
\* and the clock does not run back.
CacheGrows(sv, sv2, ac, ac2, bl, bl2, n, n2) ==
    /\ sv \subseteq sv2 /\ n =< n2
    /\ \A j \in Jtis : ac[j] # None =>
          ac2[j] = ac[j] /\ (ac[j].exp =< bl[j] => ac[j].exp =< bl2[j])

\* So what a request with an access token relies on stays true.
LEMMA LoggingOutGrows ==
    ASSUME NEW r \in Request, NEW sv, NEW sv2, NEW ac, NEW bl, NEW bl2,
           NEW ac2, NEW n \in Int, NEW n2 \in Int,
           ac \in [Jtis -> Access \cup {None}],
           CacheGrows(sv, sv2, ac, ac2, bl, bl2, n, n2), LoggingOut(r, sv, ac, bl, n)
    PROVE  LoggingOut(r, sv2, ac2, bl2, n2)
<1>1. r.pc \in {"authorize", "serve", "blacklist", "logout"} =>
         ac2[r.jti] # None /\ ac2[r.jti] = ac[r.jti]
  BY RequestShape DEF LoggingOut, CacheGrows
<1>2. r.pc \in {"blacklist", "logout"} => r.raw \in sv2 \cup {None}
  BY DEF LoggingOut, CacheGrows
<1>3. r.pc = "blacklist" => ac2[r.jti].exp =< n2 + r.ttl
  <2>1. ASSUME r.pc = "blacklist"
        PROVE  ac2[r.jti].exp =< n2 + r.ttl
    <3>1. ac[r.jti] \in Access /\ r.ttl \in Int /\ ac[r.jti].exp =< n + r.ttl /\ n =< n2
      BY <2>1, RequestShape DEF LoggingOut, CacheGrows
    <3>2. ac[r.jti].exp \in Int
      BY <3>1 DEF Access
    <3>3. QED
      BY <1>1, <2>1, <3>1, <3>2
  <2>2. QED
    BY <2>1
<1>4. r.pc = "logout" => Covered(r.jti, ac2, bl2, n2)
  <2>1. ASSUME r.pc = "logout"
        PROVE  Covered(r.jti, ac2, bl2, n2)
    <3>1. ac[r.jti] \in Access /\ r.jti \in Jtis /\ Covered(r.jti, ac, bl, n) /\ n =< n2
      BY <2>1, RequestShape DEF LoggingOut, CacheGrows
    <3>2. ac[r.jti].exp \in Int
      BY <3>1 DEF Access
    <3>3. QED
      BY <1>1, <2>1, <3>1, <3>2 DEF Covered, CacheGrows
  <2>2. QED
    BY <2>1
<1>5. QED
  BY <1>1, <1>2, <1>3, <1>4 DEF LoggingOut

\* A step of one request that lets the cache grow keeps CacheInv, if what it
\* goes on to rely on and what it says it logged out hold.
LEMMA CacheStep ==
    ASSUME IInv, NEW w \in Workers, NEW r \in Request, Goto(w, r), now' = now,
           CacheGrows(saved, saved', access, access', blacklist, blacklist', now, now'),
           LoggingOut(r, saved', access', blacklist', now'),
           \A j \in loggedOut' \ loggedOut : Covered(j, access', blacklist', now')
    PROVE  CacheInv'
<1>1. now \in Int /\ access \in [Jtis -> Access \cup {None}] /\ loggedOut \subseteq Jtis
  BY IntegerClock DEF IInv, TypeOK
<1>2. ASSUME NEW j \in loggedOut
      PROVE  Covered(j, access', blacklist', now')
  <2>1. j \in Jtis /\ Covered(j, access, blacklist, now)
    BY <1>1 DEF IInv, CacheInv
  <2>2. QED
    BY <2>1 DEF Covered, CacheGrows
<1>3. ASSUME NEW v \in Workers \ {w}
      PROVE  LoggingOut(req'[v], saved', access', blacklist', now')
  <2>1. req'[v] = req[v] /\ req[v] \in Request
    BY GotoMoves DEF IInv
  <2>2. LoggingOut(req[v], saved, access, blacklist, now)
    BY DEF IInv, CacheInv
  <2>3. QED
    BY <1>1, <2>1, <2>2, LoggingOutGrows
<1>4. req'[w] = r
  BY GotoMoves DEF IInv
<1>5. QED
  BY <1>2, <1>3, <1>4 DEF CacheInv

\* Nothing changed is a way to grow.
LEMMA CacheGrowsByNothing ==
    ASSUME NEW sv, NEW ac, NEW bl, NEW n \in Int
    PROVE  CacheGrows(sv, sv, ac, ac, bl, bl, n, n)
BY DEF CacheGrows

\* A step that only moves one request on keeps TablesInv, if the request
\* begins no exchange.
LEMMA TablesStep ==
    ASSUME IInv, NEW w \in Workers, NEW r \in Request, Goto(w, r),
           UNCHANGED <<now, saved, revoked, began, ended>>,
           Renewing(r, saved, began, now),
           Exchanging(r) => Exchanging(req[w]) /\ r.from = req[w].from
    PROVE  TablesInv'
<1>1. Origins' /\ LiveIsNewest' /\ EndedStaysEnded'
  BY DEF IInv, TablesInv, Origins, LiveIsNewest, EndedStaysEnded, Live
<1>2. \A v \in Workers : Exchanging(req'[v]) =>
         Exchanging(req[v]) /\ req'[v].from = req[v].from
  BY GotoMoves DEF IInv
<1>3. Exclusive'
  BY <1>2 DEF IInv, TablesInv, Exclusive, Live
<1>4. \A v \in Workers : Renewing(req'[v], saved', began', now')
  BY GotoMoves DEF IInv, TablesInv
<1>5. QED
  BY <1>1, <1>3, <1>4 DEF TablesInv

\* So a step that only moves one request on keeps the whole invariant.
LEMMA MovingKeepsInvariant ==
    ASSUME IInv, NEW w \in Workers, NEW r \in Request, Goto(w, r),
           UNCHANGED <<now, tables, cache>>,
           Renewing(r, saved, began, now),
           Exchanging(r) => Exchanging(req[w]) /\ r.from = req[w].from,
           LoggingOut(r, saved, access, blacklist, now)
    PROVE  IInv'
<1>1. UNCHANGED <<now, saved, revoked, began, ended, access, blacklist, loggedOut>>
  BY DEF tables, cache
<1>2. TypeOK'
  BY <1>1, GotoMoves DEF IInv, TypeOK
<1>3. TablesInv'
  BY <1>1, TablesStep
<1>4. now \in Int
  BY IntegerClock DEF IInv, TypeOK
<1>5. CacheInv'
  BY <1>1, <1>4, CacheStep, CacheGrowsByNothing
<1>6. QED
  BY <1>2, <1>3, <1>5 DEF IInv

---------------------------------------------------------------------------
(* The steps that only move a request on *)

\* A login, and a refresh up to its revocation.
LEMMA RenewingReadsKeepInvariant ==
    ASSUME IInv, NEW w \in Workers, Login(w) \/ RefreshFind(w) \/ RefreshIssue(w)
    PROVE  IInv'
<1> now \in 0..Horizon /\ now \in Int
  BY IntegerClock DEF IInv, TypeOK
<1>1. CASE Login(w)
  <2>1. PICK u \in Users :
          Goto(w, [pc |-> "save", token |-> IssueRefreshToken(u), from |-> None])
    BY <1>1 DEF Login
  <2> DEFINE r == [pc |-> "save", token |-> IssueRefreshToken(u), from |-> None]
  <2>2. r \in Request
    BY IssuedToken DEF Request
  <2>3. /\ Renewing(r, saved, began, now) /\ ~Exchanging(r)
        /\ LoggingOut(r, saved, access, blacklist, now)
    BY IssuedToken DEF Renewing, Exchanging, LoggingOut
  <2>4. QED
    BY <1>1, <2>1, <2>2, <2>3, MovingKeepsInvariant DEF Login
<1>2. CASE RefreshFind(w)
  <2>1. PICK t \in Live : Goto(w, [pc |-> "revoke", from |-> t])
    BY <1>2 DEF RefreshFind
  <2> DEFINE r == [pc |-> "revoke", from |-> t]
  <2>2. t \in saved /\ t \in Token
    BY DEF Live, IInv, TypeOK
  <2>3. r \in Request
    BY <2>2 DEF Request
  <2>4. /\ Renewing(r, saved, began, now) /\ ~Exchanging(r)
        /\ LoggingOut(r, saved, access, blacklist, now)
    BY <2>2 DEF Renewing, Exchanging, LoggingOut
  <2>5. QED
    BY <1>2, <2>1, <2>3, <2>4, MovingKeepsInvariant DEF RefreshFind
<1>3. CASE RefreshIssue(w)
  <2> DEFINE f == req[w].from
             t == IssueRefreshToken(f.user)
             r == [pc |-> "save", from |-> f, token |-> t]
  <2>1. f \in saved /\ f \in Token /\ f # None
    BY <1>3, NoneIsNothing DEF RefreshIssue, IInv, TypeOK, TablesInv, Renewing
  <2>2. t \in Token /\ t.user = f.user /\ t.iat = now
    BY <2>1, IssuedToken DEF Token
  <2>3. r \in Request
    BY <2>1, <2>2 DEF Request
  <2>4. \A s \in saved : s.iat =< now
    BY DEF IInv, TablesInv, Origins
  <2>5. Renewing(r, saved, began, now)
    BY <2>1, <2>2, <2>4 DEF Renewing
  <2>6. Exchanging(req[w]) /\ LoggingOut(r, saved, access, blacklist, now)
    BY <1>3 DEF Exchanging, LoggingOut, RefreshIssue
  <2>7. Goto(w, r) /\ UNCHANGED <<now, tables, cache>>
    BY <1>3 DEF RefreshIssue
  <2>8. QED
    BY <2>3, <2>5, <2>6, <2>7, MovingKeepsInvariant
<1>4. QED
  BY <1>1, <1>2, <1>3

\* A request on its way through the middleware, and into the logout handler.
LEMMA AdmissionKeepsInvariant ==
    ASSUME IInv, NEW w \in Workers, CheckToken(w) \/ Authorize(w) \/ Logout(w)
    PROVE  IInv'
<1> now \in Int /\ access \in [Jtis -> Access \cup {None}]
  BY IntegerClock DEF IInv, TypeOK
<1>1. CASE CheckToken(w)
  <2>1. PICK j \in Jtis : access[j] # None /\ Goto(w, [pc |-> "authorize", jti |-> j])
    BY <1>1 DEF CheckToken
  <2> DEFINE r == [pc |-> "authorize", jti |-> j]
  <2>2. /\ r \in Request /\ ~Exchanging(r) /\ Renewing(r, saved, began, now)
        /\ LoggingOut(r, saved, access, blacklist, now)
    BY <2>1 DEF Request, Exchanging, Renewing, LoggingOut
  <2>3. QED
    BY <1>1, <2>1, <2>2, MovingKeepsInvariant DEF CheckToken
<1>2. CASE Authorize(w)
  <2> DEFINE r == [pc |-> "serve", jti |-> req[w].jti]
  <2>1. req[w].jti \in Jtis /\ access[req[w].jti] # None
    BY <1>2, RequestShape DEF Authorize, IInv, TypeOK, CacheInv, LoggingOut
  <2>2. /\ r \in Request /\ ~Exchanging(r) /\ Renewing(r, saved, began, now)
        /\ LoggingOut(r, saved, access, blacklist, now)
    BY <2>1 DEF Request, Exchanging, Renewing, LoggingOut
  <2>3. QED
    BY <1>2, <2>2, MovingKeepsInvariant DEF Authorize
<1>3. CASE Logout(w)
  <2> DEFINE j == req[w].jti
  <2>1. j \in Jtis /\ access[j] \in Access /\ access[j] # None /\ access[j].exp \in Int
    BY <1>3, RequestShape DEF Logout, IInv, TypeOK, CacheInv, LoggingOut, Access
  <2>2. TimeLeft(j) \in Int /\ access[j].exp =< now + TimeLeft(j)
    BY <2>1 DEF TimeLeft
  <2>3. PICK raw \in saved \cup {None} :
          IF TimeLeft(j) > 0
          THEN Goto(w, [pc |-> "blacklist", jti |-> j, ttl |-> TimeLeft(j), raw |-> raw])
          ELSE Goto(w, [pc |-> "logout", jti |-> j, raw |-> raw])
    BY <1>3 DEF Logout
  <2>4. raw \in Token \cup {None} /\ UNCHANGED <<now, tables, cache>>
    BY <1>3 DEF Logout, IInv, TypeOK
  <2>5. CASE TimeLeft(j) > 0
    <3> DEFINE r == [pc |-> "blacklist", jti |-> j, ttl |-> TimeLeft(j), raw |-> raw]
    <3>1. r \in Request
      BY <2>1, <2>2, <2>4 DEF Request
    <3>2. /\ ~Exchanging(r) /\ Renewing(r, saved, began, now)
          /\ LoggingOut(r, saved, access, blacklist, now)
      BY <2>1, <2>2, <2>3 DEF Exchanging, Renewing, LoggingOut
    <3>3. QED
      BY <2>3, <2>4, <2>5, <3>1, <3>2, MovingKeepsInvariant
  <2>6. CASE ~(TimeLeft(j) > 0)
    <3> DEFINE r == [pc |-> "logout", jti |-> j, raw |-> raw]
    <3>1. r \in Request
      BY <2>1, <2>4 DEF Request
    <3>2. Covered(j, access, blacklist, now)
      BY <2>1, <2>6 DEF Covered, TimeLeft
    <3>3. /\ ~Exchanging(r) /\ Renewing(r, saved, began, now)
          /\ LoggingOut(r, saved, access, blacklist, now)
      BY <2>1, <2>3, <3>2 DEF Exchanging, Renewing, LoggingOut
    <3>4. QED
      BY <2>3, <2>4, <2>6, <3>1, <3>3, MovingKeepsInvariant
  <2>7. QED
    BY <2>5, <2>6
<1>4. QED
  BY <1>1, <1>2, <1>3

\* A request that fails ends.
LEMMA FailKeepsInvariant ==
    ASSUME IInv, NEW w \in Workers, Fail(w)
    PROVE  IInv'
BY IdleRelies, MovingKeepsInvariant DEF Fail, Done

---------------------------------------------------------------------------
(* Revoking a token *)

\* Two live tokens of one session would each have to be the newer.
LEMMA LiveAreAlone ==
    ASSUME IInv, NEW t \in Live, NEW s \in Live, began[s] = began[t]
    PROVE  s = t
<1>1. s \in saved /\ t \in saved /\ s \in Token /\ t \in Token
  BY DEF Live, IInv, TypeOK
<1>2. s.iat \in Int /\ t.iat \in Int
  BY <1>1, IntegerClock DEF Token
<1>3. (s = t \/ s.iat < t.iat) /\ (t = s \/ t.iat < s.iat)
  BY <1>1 DEF IInv, TablesInv, LiveIsNewest
<1>4. QED
  BY <1>2, <1>3

\* Revoking a live token leaves its session without one, and with no exchange
\* under way that had not been there.
LEMMA RevokeEmptiesSession ==
    ASSUME IInv, NEW t \in saved, Revoke(t), UNCHANGED <<saved, began>>
    PROVE  /\ t \in Live /\ Live' = Live \ {t}
           /\ \A s \in Live' : began[s] # began[t]
           /\ \A v \in Workers : Exchanging(req[v]) => began[req[v].from] # began[t]
           /\ began[t] \notin ended /\ began[t] \in saved
<1>1. t \in Live /\ Live' = Live \ {t}
  BY DEF Revoke, Live
<1>2. \A s \in Live' : began[s] # began[t]
  BY <1>1, LiveAreAlone
<1>3. \A v \in Workers : Exchanging(req[v]) => began[req[v].from] # began[t]
  BY <1>1 DEF IInv, TablesInv, Exclusive
<1>4. began[t] \notin ended /\ began[t] \in saved
  BY <1>1 DEF IInv, TablesInv, EndedStaysEnded, Origins
<1>5. QED
  BY <1>1, <1>2, <1>3, <1>4

\* The exchange of a token begins with its revocation.
LEMMA RefreshRevokeKeepsInvariant ==
    ASSUME IInv, NEW w \in Workers, RefreshRevoke(w)
    PROVE  IInv'
<1> DEFINE f == req[w].from
           r == [pc |-> "issue", from |-> f]
<1>1. f \in saved /\ f \in Token /\ f # None /\ ~Exchanging(req[w])
  BY NoneIsNothing DEF RefreshRevoke, IInv, TypeOK, TablesInv, Renewing, Exchanging
<1>2. /\ Revoke(f) /\ Goto(w, r)
      /\ UNCHANGED <<now, saved, began, ended, access, blacklist, loggedOut>>
  BY DEF RefreshRevoke, cache
<1>3. r \in Request
  BY <1>1 DEF Request
<1>4. /\ f \in Live /\ Live' = Live \ {f}
      /\ \A s \in Live' : began[s] # began[f]
      /\ \A v \in Workers : Exchanging(req[v]) => began[req[v].from] # began[f]
      /\ began[f] \notin ended
  BY <1>1, <1>2, RevokeEmptiesSession
<1>5. req'[w] = r /\ \A v \in Workers \ {w} : req'[v] = req[v]
  BY <1>2, <1>3, GotoMoves DEF IInv
<1>6. TypeOK'
  BY <1>1, <1>2, <1>3, GotoMoves DEF IInv, TypeOK, Revoke
<1>7. Origins' /\ LiveIsNewest' /\ EndedStaysEnded'
  BY <1>2, <1>4 DEF IInv, TablesInv, Origins, LiveIsNewest, EndedStaysEnded
<1>8. Exclusive'
  <2>1. ASSUME NEW v \in Workers, Exchanging(req'[v])
        PROVE  /\ \A t \in Live' : began[t] # began[req'[v].from]
               /\ began[req'[v].from] \notin ended
               /\ \A u \in Workers : Exchanging(req'[u])
                     /\ began[req'[u].from] = began[req'[v].from] => u = v
    <3>1. CASE v = w
      BY <1>4, <1>5, <3>1
    <3>2. CASE v # w
      <4>1. Exchanging(req[v]) /\ req'[v].from = req[v].from
        BY <1>5, <2>1, <3>2
      <4>2. QED
        BY <1>4, <1>5, <4>1 DEF IInv, TablesInv, Exclusive
    <3>3. QED
      BY <3>1, <3>2
  <2>2. QED
    BY <1>2, <2>1 DEF Exclusive
<1>9. \A v \in Workers : Renewing(req'[v], saved', began', now')
  <2>1. Renewing(r, saved, began, now)
    BY <1>1 DEF Renewing
  <2>2. QED
    BY <1>2, <1>5, <2>1 DEF IInv, TablesInv
<1>10. CacheInv'
  <2>1. LoggingOut(r, saved, access, blacklist, now)
    BY DEF LoggingOut
  <2>2. now \in Int
    BY IntegerClock DEF IInv, TypeOK
  <2>3. QED
    BY <1>2, <1>3, <2>1, <2>2, CacheStep, CacheGrowsByNothing
<1>11. QED
  BY <1>6, <1>7, <1>8, <1>9, <1>10 DEF IInv, TablesInv

\* A logout ends the session of a live token, or none.
LEMMA LogoutRevokeKeepsInvariant ==
    ASSUME IInv, NEW w \in Workers, LogoutRevoke(w)
    PROVE  IInv'
<1> DEFINE raw == req[w].raw
           j == req[w].jti
<1>1. /\ Goto(w, Idle) /\ loggedOut' = loggedOut \cup {j}
      /\ UNCHANGED <<now, saved, began, access, blacklist>>
  BY DEF LogoutRevoke, Done
<1>2. /\ j \in Jtis /\ raw \in saved \cup {None}
      /\ Covered(j, access, blacklist, now)
      /\ ~Exchanging(req[w])
  BY RequestShape DEF LogoutRevoke, IInv, TypeOK, CacheInv, LoggingOut, Exchanging
<1>3. /\ Idle \in Request /\ ~Exchanging(Idle) /\ Renewing(Idle, saved, began, now)
      /\ LoggingOut(Idle, saved, access, blacklist, now)
  BY IdleRelies
<1>4. req'[w] = Idle /\ \A v \in Workers \ {w} : req'[v] = req[v]
  BY <1>1, <1>3, GotoMoves DEF IInv
<1>5. CacheInv'
  <2>1. now \in Int
    BY IntegerClock DEF IInv, TypeOK
  <2>2. QED
    BY <1>1, <1>2, <1>3, <2>1, CacheStep, CacheGrowsByNothing
<1>6. CASE UNCHANGED <<revoked, ended>>
  <2>1. TypeOK'
    BY <1>1, <1>2, <1>3, <1>6, GotoMoves DEF IInv, TypeOK
  <2>2. TablesInv'
    BY <1>1, <1>3, <1>6, TablesStep
  <2>3. QED
    BY <1>5, <2>1, <2>2 DEF IInv
<1>7. CASE raw # None /\ Revoke(raw) /\ ended' = ended \cup {began[raw]}
  <2>1. /\ raw \in Live /\ Live' = Live \ {raw}
        /\ \A s \in Live' : began[s] # began[raw]
        /\ \A v \in Workers : Exchanging(req[v]) => began[req[v].from] # began[raw]
        /\ began[raw] \in saved
    BY <1>1, <1>2, <1>7, RevokeEmptiesSession
  <2>2. TypeOK'
    BY <1>1, <1>2, <1>3, <1>7, <2>1, GotoMoves DEF IInv, TypeOK, Revoke
  <2>3. Origins' /\ LiveIsNewest' /\ EndedStaysEnded'
    BY <1>1, <1>7, <2>1 DEF IInv, TablesInv, Origins, LiveIsNewest, EndedStaysEnded
  <2>4. \A v \in Workers : Exchanging(req'[v]) => Exchanging(req[v]) /\ req'[v] = req[v]
    BY <1>3, <1>4
  <2>5. Exclusive'
    BY <1>1, <1>7, <2>1, <2>4 DEF IInv, TablesInv, Exclusive
  <2>6. \A v \in Workers : Renewing(req'[v], saved', began', now')
    BY <1>1, <1>3, <1>4 DEF IInv, TablesInv
  <2>7. QED
    BY <1>5, <2>2, <2>3, <2>5, <2>6 DEF IInv, TablesInv
<1>8. QED
  BY <1>6, <1>7 DEF LogoutRevoke

---------------------------------------------------------------------------
(* Storing a token, blacklisting one, and the clock *)

\* The stored token begins a session or continues the one its request alone
\* was renewing.
LEMMA SaveKeepsInvariant ==
    ASSUME IInv, NEW w \in Workers, Save(w)
    PROVE  IInv'
<1> DEFINE t == req[w].token
           f == req[w].from
           b == IF f = None THEN t ELSE began[f]
<1>1. PICK j \in Jtis :
        /\ access[j] = None
        /\ access' = [access EXCEPT ![j] = [user |-> t.user, exp |-> t.iat + AccessTTL]]
  BY DEF Save
<1>2. /\ t \notin saved /\ saved' = saved \cup {t}
      /\ began' = [began EXCEPT ![t] = b]
      /\ Goto(w, Idle)
      /\ UNCHANGED <<now, revoked, ended, blacklist, loggedOut>>
  BY DEF Save, Storable, Done
<1>3. t \in Token /\ f \in Token \cup {None} /\ t.iat =< now
  BY RequestShape DEF Save, IInv, TypeOK, TablesInv, Renewing
<1>4. now \in Int /\ t.iat \in Int /\ t.iat + AccessTTL \in Nat /\ t.user \in Users
  BY <1>3, Lifetimes, IntegerClock DEF IInv, TypeOK, Token
<1>5. /\ f # None => /\ f \in saved /\ t.user = f.user
                     /\ \A s \in saved : began[s] = began[f] => s.iat =< t.iat
                     /\ Exchanging(req[w])
      /\ f = None => ~Exchanging(req[w])
  BY DEF Save, IInv, TablesInv, Renewing, Exchanging
<1>6. began' \in [Token -> Token \cup {None}] /\ began'[t] = b
      /\ \A s \in saved : began'[s] = began[s] /\ s # t /\ s \in Token
  BY <1>2, <1>3, <1>5 DEF IInv, TypeOK
<1>7. /\ Idle \in Request /\ ~Exchanging(Idle) /\ Renewing(Idle, saved', began', now')
      /\ LoggingOut(Idle, saved', access', blacklist', now')
  BY IdleRelies
<1>8. req'[w] = Idle /\ \A v \in Workers \ {w} : req'[v] = req[v] /\ req[v] \in Request
  BY <1>2, <1>7, GotoMoves DEF IInv
<1>9. TypeOK'
  <2>1. [user |-> t.user, exp |-> t.iat + AccessTTL] \in Access
    BY <1>4 DEF Access
  <2>2. access' \in [Jtis -> Access \cup {None}]
    BY <1>1, <2>1 DEF IInv, TypeOK
  <2>3. revoked' \subseteq saved' /\ ended' \subseteq saved' /\ saved' \subseteq Token
    BY <1>2, <1>3 DEF IInv, TypeOK
  <2>4. QED
    BY <1>2, <1>6, <1>7, <2>2, <2>3, GotoMoves DEF IInv, TypeOK
\* The other rows of the new token's session: older, and none live.
<1>10. \A s \in saved : began[s] = b =>
          s.iat < t.iat /\ s \notin Live
  <2>1. ASSUME NEW s \in saved, began[s] = b
        PROVE  s.iat < t.iat /\ s \notin Live
    <3>1. began[s] \in saved /\ began[s].user = s.user /\ s \in Token
      BY <1>6 DEF IInv, TablesInv, Origins
    <3>2. f # None
      BY <1>2, <2>1, <3>1
    <3>3. s.iat =< t.iat /\ t.user = f.user /\ f.user = began[f].user
      BY <1>5, <2>1, <3>2 DEF IInv, TablesInv, Origins
    <3>4. s.user = t.user
      BY <2>1, <3>1, <3>2, <3>3
    <3>5. s.iat # t.iat
      BY <1>3, <1>6, <3>1, <3>4, TokensDiffer
    <3>6. s \notin Live
      BY <1>5, <2>1, <3>2 DEF IInv, TablesInv, Exclusive
    <3>7. QED
      BY <1>4, <3>1, <3>3, <3>5, <3>6, IntegerClock DEF Token
  <2>2. QED
    BY <2>1
<1>11. Live' \subseteq Live \cup {t}
  BY <1>2 DEF Live
<1>12. /\ b \in saved' /\ b.user = t.user /\ b \notin ended
       /\ \A v \in Workers \ {w} : Exchanging(req[v]) => began[req[v].from] # b
  <2>1. CASE f = None
    <3>1. b = t /\ b \notin ended
      BY <1>2, <2>1 DEF IInv, TypeOK
    <3>2. \A v \in Workers : Exchanging(req[v]) => req[v].from \in saved
      BY DEF IInv, TablesInv, Renewing, Exchanging
    <3>3. QED
      BY <1>2, <3>1, <3>2 DEF IInv, TablesInv, Origins
  <2>2. CASE f # None
    BY <1>2, <1>5, <2>2 DEF IInv, TablesInv, Origins, Exclusive
  <2>3. QED
    BY <2>1, <2>2
<1>13. Origins'
  BY <1>2, <1>3, <1>6, <1>12 DEF IInv, TablesInv, Origins
<1>14. LiveIsNewest'
  <2>1. ASSUME NEW x \in Live', NEW y \in saved', began'[y] = began'[x]
        PROVE  y = x \/ y.iat < x.iat
    <3>1. CASE x = t
      BY <1>2, <1>6, <1>10, <2>1, <3>1
    <3>2. CASE x # t /\ y = t
      BY <1>6, <1>10, <1>11, <2>1, <3>2 DEF Live
    <3>3. CASE x # t /\ y # t
      BY <1>2, <1>6, <1>11, <2>1, <3>3 DEF IInv, TablesInv, LiveIsNewest, Live
    <3>4. QED
      BY <3>1, <3>2, <3>3
  <2>2. QED
    BY <2>1 DEF LiveIsNewest
<1>15. EndedStaysEnded'
  BY <1>2, <1>6, <1>11, <1>12 DEF IInv, TablesInv, EndedStaysEnded, Live
<1>16. ASSUME NEW v \in Workers, Exchanging(req'[v])
       PROVE  /\ v # w /\ req'[v] = req[v] /\ Exchanging(req[v])
              /\ req[v].from \in saved /\ began'[req[v].from] = began[req[v].from]
              /\ began[req[v].from] # b
  BY <1>6, <1>7, <1>8, <1>12, <1>16 DEF IInv, TablesInv, Renewing, Exchanging
<1>17. Exclusive'
  <2>1. ASSUME NEW v \in Workers, Exchanging(req'[v])
        PROVE  /\ \A x \in Live' : began'[x] # began'[req'[v].from]
               /\ began'[req'[v].from] \notin ended'
               /\ \A u \in Workers : Exchanging(req'[u])
                     /\ began'[req'[u].from] = began'[req'[v].from] => u = v
    <3>1. /\ v # w /\ req'[v] = req[v] /\ Exchanging(req[v])
          /\ began'[req[v].from] = began[req[v].from] /\ began[req[v].from] # b
      BY <1>16, <2>1
    <3>2. \A x \in Live' : began'[x] # began'[req'[v].from]
      BY <1>6, <1>11, <3>1 DEF IInv, TablesInv, Exclusive, Live
    <3>3. \A u \in Workers : Exchanging(req'[u])
                     /\ began'[req'[u].from] = began'[req'[v].from] => u = v
      BY <1>16, <3>1 DEF IInv, TablesInv, Exclusive
    <3>4. QED
      BY <1>2, <3>1, <3>2, <3>3 DEF IInv, TablesInv, Exclusive
  <2>2. QED
    BY <2>1 DEF Exclusive
<1>18. \A v \in Workers : Renewing(req'[v], saved', began', now')
  <2>1. ASSUME NEW v \in Workers \ {w}
        PROVE  Renewing(req'[v], saved', began', now')
    <3>1. req'[v] = req[v] /\ Renewing(req[v], saved, began, now)
      BY <1>8 DEF IInv, TablesInv
    <3>2. req[v].pc = "save" /\ req[v].from # None =>
            \A s \in saved' : began'[s] = began'[req[v].from] => s.iat =< req[v].token.iat
      <4>1. SUFFICES ASSUME req[v].pc = "save", req[v].from # None, NEW s \in saved',
                            began'[s] = began'[req[v].from]
                     PROVE  s.iat =< req[v].token.iat
        OBVIOUS
      <4>2. Exchanging(req[v]) /\ req[v].from \in saved
        BY <3>1, <4>1 DEF Exchanging, Renewing
      <4>3. began'[s] = began[req[v].from] /\ began[req[v].from] # b
        BY <1>6, <1>12, <4>1, <4>2
      <4>4. s \in saved /\ began'[s] = began[s]
        BY <1>2, <1>6, <4>3
      <4>5. QED
        BY <3>1, <4>1, <4>3, <4>4 DEF Renewing
    <3>3. QED
      BY <1>2, <3>1, <3>2 DEF Renewing
  <2>2. QED
    BY <1>7, <1>8, <2>1
<1>19. CacheInv'
  <2>1. CacheGrows(saved, saved', access, access', blacklist, blacklist', now, now')
    BY <1>1, <1>2, <1>4 DEF CacheGrows, IInv, TypeOK
  <2>2. QED
    BY <1>2, <1>7, <2>1, CacheStep
<1>20. QED
  BY <1>9, <1>13, <1>14, <1>15, <1>17, <1>18, <1>19 DEF IInv, TablesInv

\* The key is set to expire no sooner than the token.
LEMMA BlacklistKeepsInvariant ==
    ASSUME IInv, NEW w \in Workers, Blacklist(w)
    PROVE  IInv'
<1> DEFINE j == req[w].jti
           r == [pc |-> "logout", jti |-> j, raw |-> req[w].raw]
<1>1. /\ blacklist' = [blacklist EXCEPT ![j] = now + req[w].ttl] /\ Goto(w, r)
      /\ UNCHANGED <<now, saved, revoked, began, ended, access, loggedOut>>
  BY DEF Blacklist, tables
<1>2. /\ j \in Jtis /\ req[w].ttl \in Int /\ req[w].raw \in saved \cup {None}
      /\ access[j] # None /\ access[j].exp =< now + req[w].ttl
      /\ req[w].raw \in Token \cup {None}
  BY RequestShape DEF Blacklist, IInv, TypeOK, CacheInv, LoggingOut
<1>3. now \in Int /\ now + req[w].ttl \in Int
  BY <1>2, IntegerClock DEF IInv, TypeOK
<1>4. r \in Request
  BY <1>2 DEF Request
<1>5. /\ blacklist' \in [Jtis -> Int] /\ blacklist'[j] = now + req[w].ttl
      /\ \A k \in Jtis \ {j} : blacklist'[k] = blacklist[k]
  BY <1>1, <1>2, <1>3 DEF IInv, TypeOK
<1>6. CacheGrows(saved, saved', access, access', blacklist, blacklist', now, now')
  BY <1>1, <1>2, <1>3, <1>5 DEF CacheGrows
<1>7. LoggingOut(r, saved', access', blacklist', now')
  BY <1>1, <1>2, <1>5 DEF LoggingOut, Covered
<1>8. CacheInv'
  BY <1>1, <1>4, <1>6, <1>7, CacheStep
<1>9. TablesInv'
  <2>1. Renewing(r, saved, began, now) /\ ~Exchanging(r)
    BY DEF Renewing, Exchanging
  <2>2. QED
    BY <1>1, <1>4, <2>1, TablesStep
<1>10. TypeOK'
  BY <1>1, <1>4, <1>5, GotoMoves DEF IInv, TypeOK
<1>11. QED
  BY <1>8, <1>9, <1>10 DEF IInv

\* Time passes.
LEMMA TickKeepsInvariant ==
    ASSUME IInv, Tick
    PROVE  IInv'
<1>1. /\ now' = now + 1 /\ now \in Int /\ now' \in Int
      /\ UNCHANGED <<saved, revoked, began, ended, access, blacklist, loggedOut, req>>
  BY IntegerClock DEF Tick, tables, cache, IInv, TypeOK
<1>2. TypeOK'
  BY <1>1, Lifetimes DEF Tick, IInv, TypeOK
<1>3. Origins'
  <2>1. \A t \in saved : t.iat \in Int
    BY IntegerClock DEF IInv, TypeOK, Token
  <2>2. QED
    BY <1>1, <2>1 DEF IInv, TablesInv, Origins
<1>4. LiveIsNewest' /\ EndedStaysEnded' /\ Exclusive'
  BY <1>1 DEF IInv, TablesInv, LiveIsNewest, EndedStaysEnded, Exclusive, Live
<1>5. \A w \in Workers : Renewing(req'[w], saved', began', now')
  <2>1. ASSUME NEW w \in Workers, req[w].pc = "save"
        PROVE  req[w].token.iat =< now'
    <3>1. req[w].token.iat \in Int /\ req[w].token.iat =< now
      BY <2>1, RequestShape, IntegerClock DEF IInv, TypeOK, TablesInv, Renewing, Token
    <3>2. QED
      BY <1>1, <3>1
  <2>2. QED
    BY <1>1, <2>1 DEF IInv, TablesInv, Renewing
<1>6. CacheGrows(saved, saved', access, access', blacklist, blacklist', now, now')
  BY <1>1 DEF CacheGrows
<1>7. CacheInv'
  <2>1. ASSUME NEW j \in loggedOut
        PROVE  Covered(j, access', blacklist', now')
    <3>1. j \in Jtis /\ Covered(j, access, blacklist, now) /\ access[j] \in Access
      BY DEF IInv, TypeOK, CacheInv, Covered
    <3>2. access[j].exp \in Int
      BY <3>1 DEF Access
    <3>3. QED
      BY <1>1, <3>1, <3>2 DEF Covered
  <2>2. ASSUME NEW w \in Workers
        PROVE  LoggingOut(req[w], saved', access', blacklist', now')
    <3>1. /\ req[w] \in Request /\ access \in [Jtis -> Access \cup {None}]
          /\ LoggingOut(req[w], saved, access, blacklist, now)
      BY DEF IInv, TypeOK, CacheInv
    <3>2. QED
      BY <1>1, <1>6, <3>1, LoggingOutGrows
  <2>3. QED
    BY <1>1, <2>1, <2>2 DEF CacheInv
<1>8. QED
  BY <1>2, <1>3, <1>4, <1>5, <1>7 DEF IInv, TablesInv

---------------------------------------------------------------------------
(* The theorems *)

\* The invariant holds at first.
LEMMA InitInvariant == Init => IInv
<1> SUFFICES ASSUME Init PROVE IInv
  OBVIOUS
<1>1. TypeOK
  BY IdleRelies, Lifetimes DEF Init, TypeOK
<1>2. TablesInv
  BY IdleRelies DEF Init, TablesInv, Origins, LiveIsNewest, EndedStaysEnded, Exclusive, Live
<1>3. CacheInv
  BY IdleRelies DEF Init, CacheInv
<1>4. QED
  BY <1>1, <1>2, <1>3 DEF IInv

\* Every step keeps it.
LEMMA NextInvariant == IInv /\ [Next]_vars => IInv'
<1> SUFFICES ASSUME IInv, [Next]_vars PROVE IInv'
  OBVIOUS
<1>1. ASSUME NEW w \in Workers, Serve(w) PROVE IInv'
  BY <1>1, SaveKeepsInvariant, RenewingReadsKeepInvariant, RefreshRevokeKeepsInvariant,
     AdmissionKeepsInvariant, BlacklistKeepsInvariant, LogoutRevokeKeepsInvariant,
     FailKeepsInvariant DEF Serve
<1>2. CASE UNCHANGED vars
  BY <1>2 DEF vars, tables, cache, IInv, TypeOK, TablesInv, Origins, LiveIsNewest,
     EndedStaysEnded, Exclusive, Live, CacheInv
<1>3. QED
  BY <1>1, <1>2, TickKeepsInvariant DEF Next

\* The inductive invariant: one live token or one exchange under way for each
\* session, and a blacklist that covers every logout.
THEOREM Inductive == Spec => []IInv
BY InitInvariant, NextInvariant, PTL DEF Spec

\* The tables, the cache and the requests keep their types.
THEOREM TypeCorrect == Spec => []TypeOK
<1>1. IInv => TypeOK
  BY DEF IInv
<1>2. QED
  BY <1>1, Inductive, PTL

\* The live refresh token of a session is its newest, so there is one at most.
THEOREM SessionsHaveOneToken == Spec => []LiveIsNewest
<1>1. IInv => LiveIsNewest
  BY DEF IInv, TablesInv
<1>2. QED
  BY <1>1, Inductive, PTL

\* A session whose live token a logout revoked stays over, whatever exchange
\* was under way.
THEOREM EndedSessionsStayEnded == Spec => []EndedStaysEnded
<1>1. IInv => EndedStaysEnded
  BY DEF IInv, TablesInv
<1>2. QED
  BY <1>1, Inductive, PTL

\* The invariant puts a logged-out token on the blacklist while it is in date.
LEMMA CoveredIsBlacklisted == IInv => LoggedOutIsBlacklisted
<1> SUFFICES ASSUME IInv, NEW j \in loggedOut, now < access[j].exp
             PROVE  now < blacklist[j]
  BY DEF LoggedOutIsBlacklisted
<1>1. j \in Jtis /\ access[j] # None /\ access[j].exp =< blacklist[j]
  BY DEF IInv, TypeOK, CacheInv, Covered
<1>2. access[j].exp \in Int /\ now \in Int /\ blacklist[j] \in Int
  BY <1>1, IntegerClock DEF IInv, TypeOK, Access
<1>3. QED
  BY <1>1, <1>2

\* The blacklist keeps a logged-out token for as long as it is in date.
THEOREM LogoutsAreRecorded == Spec => []LoggedOutIsBlacklisted
BY CoveredIsBlacklisted, Inductive, PTL

\* So the middleware never admits one.
THEOREM LogoutsAreRespected == Spec => LoggedOutIsRefused
<1> DEFINE Refused == \A w \in Workers :
             req[w].pc = "authorize" /\ req'[w].pc = "serve" =>
                req[w].jti \notin loggedOut \/ now >= access[req[w].jti].exp
<1>1. IInv /\ [Next]_vars => [Refused]_vars
  <2> SUFFICES ASSUME IInv, Next, NEW w \in Workers,
                      req[w].pc = "authorize", req'[w].pc = "serve",
                      req[w].jti \in loggedOut
               PROVE  now >= access[req[w].jti].exp
    OBVIOUS
  <2>1. Authorize(w)
    <3>1. ASSUME NEW v \in Workers, Serve(v)
          PROVE  v = w /\ Authorize(w)
      <4>1. v = w
        BY <3>1 DEF IInv, TypeOK, Serve, Login, Save, RefreshFind, RefreshRevoke, RefreshIssue,
           CheckToken, Authorize, Logout, Blacklist, LogoutRevoke, Fail, Goto, Done
      <4>2. QED
        BY <3>1, <4>1 DEF IInv, TypeOK, Serve, Login, Save, RefreshFind, RefreshRevoke,
           RefreshIssue, CheckToken, Logout, Blacklist, LogoutRevoke, Fail, Goto, Done, Idle
    <3>2. QED
      BY <3>1 DEF Next, Tick
  <2>2. blacklist[req[w].jti] =< now /\ req[w].jti \in Jtis
    BY <2>1, RequestShape DEF Authorize, NotBlacklisted, IInv, TypeOK
  <2>3. /\ now < access[req[w].jti].exp => now < blacklist[req[w].jti]
        /\ access[req[w].jti] # None
    BY CoveredIsBlacklisted DEF LoggedOutIsBlacklisted, IInv, CacheInv, Covered
  <2>4. /\ access[req[w].jti].exp \in Int /\ now \in Int
        /\ blacklist[req[w].jti] \in Int
    BY <2>2, <2>3, IntegerClock DEF IInv, TypeOK, Access
  <2>5. QED
    BY <2>2, <2>3, <2>4
<1>2. QED
  BY <1>1, Inductive, PTL DEF Spec, LoggedOutIsRefused
=============================================================================
