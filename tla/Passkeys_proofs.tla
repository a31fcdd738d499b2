--------------------------- MODULE Passkeys_proofs ---------------------------
(* Theorems about Passkeys, for any number of requests, users, keys and      *)
(* challenges.                                                               *)
(*                                                                           *)
(* The argument: a challenge keeps its SessionData and a key its owner, so   *)
(* what a finish found out about the owner of either still holds when it     *)
(* writes and answers (Granted).  Sign count and warning have no such        *)
(* invariant, for every update overwrites them; what is proved of them is    *)
(* that a step keeps whatever the row and all copies in flight agree on.     *)
EXTENDS Passkeys, TLAPS

Owns(u, k) == key[k] # None /\ key[k].user = u

Began(u, s) == session[s] # None /\ session[s].user = u

\* What a finish may rely on.
Granted(r) ==
    /\ r.pc \in {"get", "delete", "verify"} /\ r.cred # None => Owns(r.user, r.answer.key)
    /\ r.pc = "token" => Began(r.user, r.answer.session) /\ Owns(r.user, r.answer.key)

RequestsGranted == \A w \in Workers : Granted(req[w])

AcceptedBegan == \A x \in accepted : Began(x.user, x.session) /\ Owns(x.user, x.key)

IInv == TypeOK /\ RequestsGranted /\ AcceptedBegan

---------------------------------------------------------------------------
(* Requests *)

\* What a request holds once it is under way.
LEMMA RequestShape ==
    ASSUME TypeOK, NEW w \in Workers, req[w].pc # "idle"
    PROVE  /\ req[w] \in [pc: {"get", "delete", "verify", "token"}, user: Users,
                          answer: Answer, cred: Row \cup {None}]
           /\ req[w].user \in Users /\ req[w].cred \in Row \cup {None}
           /\ req[w].answer \in Answer
           /\ req[w].answer.session \in SessionIds
           /\ req[w].answer.key \in Keys
           /\ req[w].answer.count \in Counts
BY DEF TypeOK, Request, Idle, Answer

\* Its next step changes nothing else it holds.
LEMMA NextStepShape ==
    ASSUME TypeOK, NEW w \in Workers, req[w].pc # "idle",
           NEW p \in {"get", "delete", "verify", "token"},
           req' = [req EXCEPT ![w].pc = p]
    PROVE  /\ req' \in [Workers -> Request]
           /\ req'[w].pc = p /\ req'[w].user = req[w].user
           /\ req'[w].answer = req[w].answer /\ req'[w].cred = req[w].cred
           /\ \A v \in Workers \ {w} : req'[v] = req[v]
<1>1. /\ req'[w] = [req[w] EXCEPT !.pc = p]
      /\ \A v \in Workers \ {w} : req'[v] = req[v]
      /\ req' = [v \in Workers |-> IF v = w THEN [req[w] EXCEPT !.pc = p] ELSE req[v]]
  BY DEF TypeOK
<1>2. /\ [req[w] EXCEPT !.pc = p] \in Request
      /\ req'[w].pc = p /\ req'[w].user = req[w].user
      /\ req'[w].answer = req[w].answer /\ req'[w].cred = req[w].cred
  BY <1>1, RequestShape DEF Request
<1>3. QED
  BY <1>1, <1>2 DEF TypeOK

\* A request that ends leaves the others alone.
LEMMA IdleShape ==
    ASSUME TypeOK, NEW w \in Workers, req' = [req EXCEPT ![w] = Idle]
    PROVE  /\ req' \in [Workers -> Request]
           /\ req'[w] = Idle /\ Idle.pc = "idle"
           /\ \A v \in Workers \ {w} : req'[v] = req[v]
BY DEF TypeOK, Request, Idle

\* An update leaves a row, at a count the copy had or the answer has, and
\* never drops a warning.
LEMMA CountedIsRow ==
    ASSUME NEW old \in Row, NEW row \in Row, NEW n \in Counts
    PROVE  /\ Overwrite(old, Counted(AdaptedKey(row), n)) \in Row
           /\ Overwrite(old, Counted(AdaptedKey(row), n)).user = old.user
           /\ Overwrite(old, Counted(AdaptedKey(row), n)).signCount >= row.signCount
           /\ row.cloneWarning => Overwrite(old, Counted(AdaptedKey(row), n)).cloneWarning
<1> DEFINE c == Counted(AdaptedKey(row), n)
<1>1. row.signCount \in Counts /\ row.signCount \in Int /\ n \in Int
  BY MaxCountIsNat DEF Row, Counts
<1>2. \/ c = [row EXCEPT !.signCount = n] /\ n >= row.signCount
      \/ c = [row EXCEPT !.cloneWarning = TRUE]
  BY <1>1 DEF Counted, AdaptedKey
<1>3. c \in Row /\ c.signCount >= row.signCount
  <2>1. CASE c = [row EXCEPT !.signCount = n] /\ n >= row.signCount
    BY <1>1, <2>1 DEF Row
  <2>2. CASE c = [row EXCEPT !.cloneWarning = TRUE]
    <3>1. c.signCount = row.signCount /\ c \in Row
      BY <2>2 DEF Row
    <3>2. QED
      BY <1>1, <3>1
  <2>3. QED
    BY <1>2, <2>1, <2>2
<1>4. row.cloneWarning => c.cloneWarning
  <2>1. CASE c = [row EXCEPT !.signCount = n]
    <3>1. c.cloneWarning = row.cloneWarning
      BY <2>1 DEF Row
    <3>2. QED
      BY <3>1
  <2>2. CASE c = [row EXCEPT !.cloneWarning = TRUE]
    <3>1. c.cloneWarning = TRUE
      BY <2>2 DEF Row
    <3>2. QED
      BY <3>1
  <2>3. QED
    BY <1>2, <2>1, <2>2
<1>5. old.user \in Users
  BY DEF Row
<1> HIDE DEF c
<1>6. Overwrite(old, c) = [c EXCEPT !.user = old.user]
  BY DEF Overwrite
<1>7. /\ Overwrite(old, c) \in Row /\ Overwrite(old, c).user = old.user
      /\ Overwrite(old, c).signCount = c.signCount
      /\ Overwrite(old, c).cloneWarning = c.cloneWarning
  BY <1>3, <1>5, <1>6 DEF Row
<1>8. QED
  BY <1>3, <1>4, <1>7 DEF c

---------------------------------------------------------------------------
(* The owners of challenges and keys never change *)

Lasting ==
    /\ \A s \in SessionIds : session[s] # None => session'[s] = session[s]
    /\ \A k \in Keys : key[k] # None => key'[k] # None /\ key'[k].user = key[k].user

\* What was granted to a request still is.
LEMMA GrantedLasts ==
    ASSUME TypeOK, Lasting, NEW w \in Workers, Granted(req[w]), req'[w] = req[w]
    PROVE  Granted(req[w])'
<1>1. CASE req[w].pc = "idle"
  BY <1>1 DEF Granted
<1>2. CASE req[w].pc # "idle"
  BY <1>2, RequestShape DEF Granted, Owns, Began, Lasting
<1>3. QED
  BY <1>1, <1>2

LEMMA AcceptedLasts ==
    ASSUME TypeOK, Lasting, AcceptedBegan, accepted' = accepted
    PROVE  AcceptedBegan'
<1>1. \A x \in accepted : x.session \in SessionIds /\ x.key \in Keys
  BY DEF TypeOK
<1>2. QED
  BY <1>1 DEF AcceptedBegan, Owns, Began, Lasting

\* A step that leaves the requests alone.
LEMMA OthersKeepInvariant ==
    ASSUME IInv, Lasting, UNCHANGED <<req, accepted>>, TypeOK'
    PROVE  IInv'
BY GrantedLasts, AcceptedLasts DEF IInv, RequestsGranted

\* A step of one request.
LEMMA RequestKeepsInvariant ==
    ASSUME IInv, Lasting, NEW w \in Workers, TypeOK', Granted(req[w])', AcceptedBegan',
           \A v \in Workers \ {w} : req'[v] = req[v]
    PROVE  IInv'
<1>1. ASSUME NEW v \in Workers PROVE Granted(req[v])'
  BY GrantedLasts DEF IInv, RequestsGranted
<1>2. QED
  BY <1>1 DEF IInv, RequestsGranted

LEMMA NothingLasts ==
    ASSUME UNCHANGED <<session, key>>
    PROVE  Lasting
BY DEF Lasting

---------------------------------------------------------------------------
(* The invariant *)

LEMMA BeginKeepsInvariant ==
    ASSUME IInv, NEW ceremony \in Ceremony, Begin(ceremony)
    PROVE  IInv' /\ Lasting
<1>1. PICK s \in SessionIds :
        /\ session[s] = None
        /\ session' = [session EXCEPT ![s] = ceremony]
        /\ cache' = cache \cup {s}
  BY DEF Begin
<1>2. TypeOK'
  BY <1>1 DEF Begin, clientVars, IInv, TypeOK
<1>3. Lasting
  BY <1>1 DEF Begin, Lasting, IInv, TypeOK
<1>4. QED
  BY <1>2, <1>3, OthersKeepInvariant DEF Begin

LEMMA BeginsKeepInvariant ==
    ASSUME IInv, RegisterBegin \/ LoginBegin
    PROVE  IInv' /\ Lasting
<1>1. PICK u \in Users, a \in SUBSET Keys, kind \in {"create", "get"} :
        Begin([kind |-> kind, user |-> u, allowed |-> a])
  <2>1. \A u \in Users : KeysOf(u) \in SUBSET Keys
    BY DEF KeysOf
  <2>2. QED
    BY <2>1 DEF RegisterBegin, LoginBegin
<1>2. [kind |-> kind, user |-> u, allowed |-> a] \in Ceremony
  BY DEF Ceremony
<1>3. QED
  BY <1>1, <1>2, BeginKeepsInvariant

\* Authenticators and the passing of time write neither table nor requests.
LEMMA WorldKeepsInvariant ==
    ASSUME IInv, CreateKey \/ Sign \/ Expire
    PROVE  IInv' /\ Lasting
<1>1. UNCHANGED <<session, key, req, accepted>>
  BY DEF CreateKey, Sign, Expire
<1>2. TypeOK'
  <2>1. CASE CreateKey
    <3>1. PICK s \in SessionIds, k \in Keys :
            answers' = answers \cup {[session |-> s, key |-> k, count |-> 0]}
      BY <2>1 DEF CreateKey
    <3>2. [session |-> s, key |-> k, count |-> 0] \in Answer
      BY MaxCountIsNat DEF Answer, Counts
    <3>3. QED
      BY <2>1, <3>1, <3>2 DEF CreateKey, IInv, TypeOK
  <2>2. CASE Sign
    <3> DEFINE Nth(k) == IF counter[k] = None THEN 0 ELSE counter[k] + 1
    <3>1. PICK s \in SessionIds, k \in Keys :
            /\ Nth(k) <= MaxCount
            /\ counter' = [counter EXCEPT ![k] = IF @ = None THEN None ELSE Nth(k)]
            /\ answers' = answers \cup {[session |-> s, key |-> k, count |-> Nth(k)]}
      BY <2>2 DEF Sign
    <3>2. Nth(k) \in Counts
      BY <3>1, MaxCountIsNat DEF IInv, TypeOK, Counts
    <3> HIDE DEF Nth
    <3>3. answers' \subseteq Answer
      BY <3>1, <3>2 DEF Answer, IInv, TypeOK
    <3>4. counter' \in [Keys -> Counts \cup {None}]
      BY <3>1, <3>2 DEF IInv, TypeOK
    <3>5. QED
      BY <2>2, <3>3, <3>4 DEF Sign, IInv, TypeOK
  <2>3. CASE Expire
    BY <2>3 DEF Expire, clientVars, IInv, TypeOK
  <2>4. QED
    BY <2>1, <2>2, <2>3
<1>3. QED
  BY <1>1, <1>2, NothingLasts, OthersKeepInvariant

\* A finish names its user and copies the row of a key of theirs.
LEMMA FinishLoadKeepsInvariant ==
    ASSUME IInv, NEW w \in Workers, FinishLoad(w)
    PROVE  IInv' /\ Lasting
<1>1. PICK u \in Users, a \in answers :
        req' = [req EXCEPT ![w] = [pc |-> "get", user |-> u, answer |-> a,
                                   cred |-> Loaded(u, a.key)]]
  BY DEF FinishLoad
<1>2. UNCHANGED <<session, cache, counter, answers, key, accepted>>
  BY DEF FinishLoad, clientVars
<1>3. a \in Answer /\ a.key \in Keys
  BY DEF IInv, TypeOK, Answer
<1>4. /\ Loaded(u, a.key) \in Row \cup {None}
      /\ Loaded(u, a.key) # None => Owns(u, a.key)
  BY <1>3 DEF Loaded, KeysOf, Owns, IInv, TypeOK
<1>5. [pc |-> "get", user |-> u, answer |-> a, cred |-> Loaded(u, a.key)] \in Request
  BY <1>3, <1>4 DEF Request
<1>6. /\ req'[w] = [pc |-> "get", user |-> u, answer |-> a, cred |-> Loaded(u, a.key)]
      /\ \A v \in Workers \ {w} : req'[v] = req[v]
      /\ req' \in [Workers -> Request]
  BY <1>1, <1>5 DEF IInv, TypeOK
<1>7. TypeOK'
  BY <1>2, <1>6 DEF IInv, TypeOK
<1>8. Granted(req[w])'
  BY <1>2, <1>4, <1>6 DEF Granted, Owns
<1>9. QED
  BY <1>2, <1>6, <1>7, <1>8, NothingLasts, AcceptedLasts, RequestKeepsInvariant DEF IInv

\* Fetching and deleting the challenge.
LEMMA SessionStepsKeepInvariant ==
    ASSUME IInv, NEW w \in Workers, GetSession(w) \/ DeleteSession(w)
    PROVE  IInv' /\ Lasting
<1>1. UNCHANGED <<session, counter, answers, key, accepted>> /\ cache' \subseteq cache
  BY DEF GetSession, DeleteSession, clientVars
<1>2. PICK p \in {"delete", "verify"} : req' = [req EXCEPT ![w].pc = p]
  BY DEF GetSession, DeleteSession
<1>3. req[w].pc \in {"get", "delete"}
  BY DEF GetSession, DeleteSession
<1>4. /\ req' \in [Workers -> Request]
      /\ req'[w].pc = p /\ req'[w].user = req[w].user
      /\ req'[w].answer = req[w].answer /\ req'[w].cred = req[w].cred
      /\ \A v \in Workers \ {w} : req'[v] = req[v]
  BY <1>2, <1>3, NextStepShape DEF IInv
<1>5. TypeOK'
  BY <1>1, <1>4 DEF IInv, TypeOK
<1>6. Granted(req[w])'
  BY <1>1, <1>3, <1>4 DEF IInv, RequestsGranted, Granted, Owns
<1>7. QED
  BY <1>1, <1>4, <1>5, <1>6, NothingLasts, AcceptedLasts, RequestKeepsInvariant DEF IInv

\* Registering a key takes a free one; the caller owns it.
LEMMA StoreKeyKeepsInvariant ==
    ASSUME IInv, NEW w \in Workers, StoreKey(w)
    PROVE  IInv' /\ Lasting
<1> DEFINE a == req[w].answer
<1>1. /\ req[w].pc = "verify" /\ session[a.session] # None
      /\ session[a.session].user = req[w].user /\ key[a.key] = None
      /\ key' = [key EXCEPT ![a.key] = NewKey(req[w].user, a)]
      /\ req' = [req EXCEPT ![w].pc = "token"]
      /\ UNCHANGED <<session, cache, counter, answers, accepted>>
  BY DEF StoreKey, Asked, BegunBy, KeyFree, clientVars
<1>2. a.key \in Keys /\ a.session \in SessionIds /\ a.count \in Counts /\ req[w].user \in Users
  BY <1>1, RequestShape DEF IInv
<1>3. NewKey(req[w].user, a) \in Row /\ NewKey(req[w].user, a).user = req[w].user
  BY <1>2 DEF NewKey, Row
<1>4. key' \in [Keys -> Row \cup {None}] /\ key'[a.key] = NewKey(req[w].user, a)
  BY <1>1, <1>2, <1>3 DEF IInv, TypeOK
<1>5. /\ req' \in [Workers -> Request]
      /\ req'[w].pc = "token" /\ req'[w].user = req[w].user /\ req'[w].answer = a
      /\ \A v \in Workers \ {w} : req'[v] = req[v]
  BY <1>1, NextStepShape DEF IInv
<1>6. TypeOK'
  BY <1>1, <1>4, <1>5 DEF IInv, TypeOK
<1>7. Lasting
  BY <1>1, <1>2 DEF Lasting, IInv, TypeOK
<1>8. Granted(req[w])'
  BY <1>1, <1>3, <1>4, <1>5, NoneIsNoValue DEF Granted, Owns, Began
<1>9. QED
  BY <1>1, <1>5, <1>6, <1>7, <1>8, AcceptedLasts, RequestKeepsInvariant DEF IInv

\* A login writes the row of a key its caller owns, and keeps the owner.
LEMMA UpdateKeyKeepsInvariant ==
    ASSUME IInv, NEW w \in Workers, UpdateKey(w)
    PROVE  IInv' /\ Lasting
<1> DEFINE a == req[w].answer
           row == Overwrite(key[a.key], Counted(AdaptedKey(req[w].cred), a.count))
<1>1. /\ req[w].pc = "verify" /\ session[a.session] # None
      /\ session[a.session].user = req[w].user /\ req[w].cred # None
      /\ key' = [key EXCEPT ![a.key] = row]
      /\ req' = [req EXCEPT ![w].pc = "token"]
      /\ UNCHANGED <<session, cache, counter, answers, accepted>>
  BY DEF UpdateKey, Asked, BegunBy, clientVars
<1>2. /\ a.key \in Keys /\ a.session \in SessionIds /\ a.count \in Counts
      /\ req[w].cred \in Row
  BY <1>1, RequestShape DEF IInv
<1>3. key[a.key] # None /\ key[a.key].user = req[w].user /\ key[a.key] \in Row
  BY <1>1, <1>2 DEF IInv, TypeOK, RequestsGranted, Granted, Owns
<1>4. row \in Row /\ row.user = req[w].user
  BY <1>2, <1>3, CountedIsRow
<1> HIDE DEF row
<1>5. key' \in [Keys -> Row \cup {None}] /\ key'[a.key] = row
  BY <1>1, <1>2, <1>4 DEF IInv, TypeOK
<1>6. /\ req' \in [Workers -> Request]
      /\ req'[w].pc = "token" /\ req'[w].user = req[w].user /\ req'[w].answer = a
      /\ \A v \in Workers \ {w} : req'[v] = req[v]
  BY <1>1, NextStepShape DEF IInv
<1>7. TypeOK'
  BY <1>1, <1>5, <1>6 DEF IInv, TypeOK
<1>8. row # None
  BY <1>4, NoneIsNoValue
<1>9. Lasting
  BY <1>1, <1>2, <1>3, <1>4, <1>8 DEF Lasting, IInv, TypeOK
<1>10. Granted(req[w])'
  BY <1>1, <1>4, <1>5, <1>6, <1>8 DEF Granted, Owns, Began
<1>11. QED
  BY <1>1, <1>6, <1>7, <1>9, <1>10, AcceptedLasts, RequestKeepsInvariant DEF IInv

\* The answer, or a failure.
LEMMA EndsKeepInvariant ==
    ASSUME IInv, NEW w \in Workers, IssueTokens(w) \/ Fail(w)
    PROVE  IInv' /\ Lasting
<1> DEFINE x == [session |-> req[w].answer.session, user |-> req[w].user,
                 key |-> req[w].answer.key]
<1>1. /\ UNCHANGED <<session, cache, counter, answers, key>>
      /\ req' = [req EXCEPT ![w] = Idle]
  BY DEF IssueTokens, Fail, clientVars
<1>2. /\ req' \in [Workers -> Request] /\ req'[w] = Idle /\ Idle.pc = "idle"
      /\ \A v \in Workers \ {w} : req'[v] = req[v]
  BY <1>1, IdleShape DEF IInv
<1>3. \/ accepted' = accepted
      \/ req[w].pc = "token" /\ accepted' = accepted \cup {x}
  BY DEF IssueTokens, Fail
<1>4. req[w].pc = "token" =>
        /\ x \in [session: SessionIds, user: Users, key: Keys]
        /\ Began(x.user, x.session) /\ Owns(x.user, x.key)
  BY RequestShape DEF IInv, RequestsGranted, Granted
<1> HIDE DEF x
<1>5. TypeOK'
  BY <1>1, <1>2, <1>3, <1>4 DEF IInv, TypeOK
<1>6. AcceptedBegan'
  BY <1>1, <1>3, <1>4 DEF IInv, AcceptedBegan, Began, Owns
<1>7. Granted(req[w])'
  BY <1>2 DEF Granted
<1>8. QED
  BY <1>1, <1>2, <1>5, <1>6, <1>7, NothingLasts, RequestKeepsInvariant

LEMMA InitInvariant == Init => IInv
<1> SUFFICES ASSUME Init PROVE IInv
  OBVIOUS
<1>1. Idle \in Request /\ Idle.pc = "idle"
  BY DEF Request, Idle
<1>2. 0 \in Counts
  BY MaxCountIsNat DEF Counts
<1>3. TypeOK
  BY <1>1, <1>2 DEF Init, TypeOK
<1>4. RequestsGranted /\ AcceptedBegan
  BY <1>1 DEF Init, RequestsGranted, AcceptedBegan, Granted
<1>5. QED
  BY <1>3, <1>4 DEF IInv

LEMMA NextInvariant == IInv /\ [Next]_vars => IInv'
<1> SUFFICES ASSUME IInv, [Next]_vars PROVE IInv'
  OBVIOUS
<1>1. ASSUME NEW w \in Workers, Step(w) PROVE IInv'
  BY <1>1, FinishLoadKeepsInvariant, SessionStepsKeepInvariant, StoreKeyKeepsInvariant,
     UpdateKeyKeepsInvariant, EndsKeepInvariant DEF Step
<1>2. CASE UNCHANGED vars
  <2>1. UNCHANGED <<session, cache, counter, answers, key, req, accepted>>
    BY <1>2 DEF vars
  <2>2. TypeOK'
    BY <2>1 DEF IInv, TypeOK
  <2>3. QED
    BY <2>1, <2>2, NothingLasts, OthersKeepInvariant
<1>3. QED
  BY <1>1, <1>2, BeginsKeepInvariant, WorldKeepsInvariant DEF Next

\* The inductive invariant: types, and who owns the challenge and the key of
\* every request in flight and of every finish that was answered.
THEOREM Inductive == Spec => []IInv
BY InitInvariant, NextInvariant, PTL DEF Spec

\* Redis, the table and the requests keep their types.
THEOREM TypeCorrect == Spec => []TypeOK
<1>1. IInv => TypeOK
  BY DEF IInv
<1>2. QED
  BY <1>1, Inductive, PTL

\* Tokens go to the user who began the ceremony and owns the key, for any
\* number of overlapping finishes.
THEOREM TokensGoToOwners == Spec => []AcceptedIsOwned
<1>1. IInv => AcceptedIsOwned
  BY DEF IInv, AcceptedBegan, AcceptedIsOwned, Began, Owns
<1>2. QED
  BY <1>1, Inductive, PTL

---------------------------------------------------------------------------
(* Spent challenges *)

\* A request past the fetching of challenge s.
Holds(r, s) == r.pc \in {"delete", "verify", "token"} /\ r.answer.session = s

\* One request moves on, not to holding s, and nobody is answered for s.
LEMMA SpentByMove ==
    ASSUME TypeOK, NEW s \in SessionIds, Spent(s), NEW w \in Workers,
           UNCHANGED session, cache' \subseteq cache, ~Holds(req'[w], s),
           \A v \in Workers \ {w} : req'[v] = req[v],
           \A x : x.session = s => (x \in accepted' <=> x \in accepted)
    PROVE  Spent(s)' /\ Acceptances(s)' = Acceptances(s)
<1>1. \A v \in Workers : ~Holds(req[v], s)
  BY DEF Spent, Holds
<1>2. \A v \in Workers : ~Holds(req'[v], s)
  BY <1>1
<1>3. Spent(s)'
  BY <1>2 DEF Spent, Holds
<1>4. QED
  BY <1>3 DEF Acceptances

LEMMA SpentByOthers ==
    ASSUME TypeOK, NEW s \in SessionIds, Spent(s),
           session'[s] = session[s], s \notin cache', UNCHANGED <<req, accepted>>
    PROVE  Spent(s)' /\ Acceptances(s)' = Acceptances(s)
BY DEF Spent, Acceptances

LEMMA SpentInRequest ==
    ASSUME TypeOK, NEW s \in SessionIds, Spent(s), NEW w \in Workers, Step(w)
    PROVE  Spent(s)' /\ Acceptances(s)' = Acceptances(s)
<1>1. ~Holds(req[w], s) /\ s \notin cache
  BY DEF Spent, Holds
<1>2. CASE FinishLoad(w)
  <2>1. PICK u \in Users, a \in answers :
          req' = [req EXCEPT ![w] = [pc |-> "get", user |-> u, answer |-> a,
                                     cred |-> Loaded(u, a.key)]]
    BY <1>2 DEF FinishLoad
  <2>2. req'[w].pc = "get" /\ \A v \in Workers \ {w} : req'[v] = req[v]
    BY <2>1 DEF TypeOK
  <2>3. ~Holds(req'[w], s)
    BY <2>2 DEF Holds
  <2>4. QED
    BY <1>2, <2>2, <2>3, SpentByMove DEF FinishLoad
<1>3. CASE GetSession(w) \/ DeleteSession(w) \/ StoreKey(w) \/ UpdateKey(w)
  <2>1. PICK p \in {"delete", "verify", "token"} : req' = [req EXCEPT ![w].pc = p]
    BY <1>3 DEF GetSession, DeleteSession, StoreKey, UpdateKey
  <2>2. /\ req[w].pc \in {"get", "delete", "verify"}
        /\ req[w].pc = "get" => req[w].answer.session \in cache
    BY <1>3 DEF GetSession, DeleteSession, StoreKey, UpdateKey, Found
  <2>3. /\ req'[w].pc = p /\ req'[w].answer = req[w].answer
        /\ \A v \in Workers \ {w} : req'[v] = req[v]
    BY <2>1, <2>2, NextStepShape
  <2>4. ~Holds(req'[w], s)
    BY <1>1, <2>2, <2>3 DEF Holds
  <2>5. UNCHANGED <<session, accepted>> /\ cache' \subseteq cache
    BY <1>3 DEF GetSession, DeleteSession, StoreKey, UpdateKey
  <2>6. QED
    BY <2>3, <2>4, <2>5, SpentByMove
<1>4. CASE IssueTokens(w) \/ Fail(w)
  <2>1. /\ req'[w] = Idle /\ Idle.pc = "idle"
        /\ \A v \in Workers \ {w} : req'[v] = req[v]
    BY <1>4, IdleShape DEF IssueTokens, Fail
  <2>2. ~Holds(req'[w], s)
    BY <2>1 DEF Holds
  <2>3. UNCHANGED <<session, cache>>
    BY <1>4 DEF IssueTokens, Fail
  <2>4. ASSUME NEW x, x.session = s PROVE x \in accepted' <=> x \in accepted
    <3>1. CASE Fail(w)
      BY <3>1 DEF Fail
    <3>2. CASE IssueTokens(w)
      <4>1. accepted' = accepted \cup {[session |-> req[w].answer.session,
                                        user |-> req[w].user, key |-> req[w].answer.key]}
        BY <3>2 DEF IssueTokens
      <4>2. req[w].answer.session # s
        BY <1>1, <3>2 DEF IssueTokens, Holds
      <4>3. x # [session |-> req[w].answer.session,
                 user |-> req[w].user, key |-> req[w].answer.key]
        BY <2>4, <4>2
      <4>4. QED
        BY <4>1, <4>3
    <3>3. QED
      BY <1>4, <3>1, <3>2
  <2>5. QED
    BY <2>1, <2>2, <2>3, <2>4, SpentByMove
<1>5. QED
  BY <1>2, <1>3, <1>4 DEF Step

LEMMA SpentStep ==
    ASSUME IInv, [Next]_vars, NEW s \in SessionIds, Spent(s)
    PROVE  Spent(s)' /\ Acceptances(s)' = Acceptances(s)
<1>1. TypeOK /\ session[s] # None /\ s \notin cache
  BY DEF IInv, Spent
<1>2. ASSUME NEW ceremony, Begin(ceremony)
      PROVE  Spent(s)' /\ Acceptances(s)' = Acceptances(s)
  <2>1. PICK t \in SessionIds :
          /\ session[t] = None
          /\ session' = [session EXCEPT ![t] = ceremony]
          /\ cache' = cache \cup {t}
    BY <1>2 DEF Begin
  <2>2. session'[s] = session[s] /\ s \notin cache'
    BY <1>1, <2>1 DEF TypeOK
  <2>3. QED
    BY <1>1, <1>2, <2>2, SpentByOthers DEF Begin
<1>3. CASE CreateKey \/ Sign \/ Expire \/ UNCHANGED vars
  <2>1. UNCHANGED <<session, req, accepted>> /\ cache' \subseteq cache
    BY <1>3 DEF CreateKey, Sign, Expire, vars
  <2>2. QED
    BY <1>1, <2>1, SpentByOthers
<1>4. QED
  BY <1>1, <1>2, <1>3, SpentInRequest DEF Next, RegisterBegin, LoginBegin

\* A challenge that is gone and that nobody holds is never accepted again.
THEOREM SpentChallengesStaySpent == Spec => SpentStaysSpent
<1>1. IInv /\ [Next]_vars =>
        [\A s \in SessionIds :
            Spent(s) => Spent(s)' /\ Acceptances(s)' = Acceptances(s)]_vars
  BY SpentStep
<1>2. QED
  BY <1>1, Inductive, PTL DEF Spec, SpentStaysSpent

---------------------------------------------------------------------------
(* What the row of a key and its copies agree on *)

\* A step leaves the row alone or writes it from a copy in flight, and counts
\* up from it.
RowFollows(k) ==
    \/ key'[k] = key[k]
    \/ \E w \in Workers :
         /\ InFlight(k, w)
         /\ key'[k].signCount >= req[w].cred.signCount
         /\ req[w].cred.cloneWarning => key'[k].cloneWarning

\* A copy in flight was in flight, or has just been made of the row.
CopyFollows(k, w) ==
    InFlight(k, w)' =>
        \/ InFlight(k, w) /\ req'[w].cred = req[w].cred
        \/ req'[w].cred = key[k]

Follows(k) == RowFollows(k) /\ \A w \in Workers : CopyFollows(k, w)

\* Requests that do not move keep their copies.
LEMMA FollowsByMove ==
    ASSUME NEW k \in Keys, RowFollows(k), NEW w \in Workers, CopyFollows(k, w),
           \A v \in Workers \ {w} : req'[v] = req[v]
    PROVE  Follows(k)
<1>1. ASSUME NEW v \in Workers PROVE CopyFollows(k, v)
  BY DEF CopyFollows, InFlight
<1>2. QED
  BY <1>1 DEF Follows

LEMMA FinishLoadFollows ==
    ASSUME TypeOK, NEW k \in Keys, NEW w \in Workers, FinishLoad(w)
    PROVE  Follows(k)
<1>1. PICK u \in Users, a \in answers :
        req' = [req EXCEPT ![w] = [pc |-> "get", user |-> u, answer |-> a,
                                   cred |-> Loaded(u, a.key)]]
  BY DEF FinishLoad
<1>2. /\ req'[w] = [pc |-> "get", user |-> u, answer |-> a, cred |-> Loaded(u, a.key)]
      /\ \A v \in Workers \ {w} : req'[v] = req[v]
  BY <1>1 DEF TypeOK
<1>3. InFlight(k, w)' => req'[w].cred = key[k]
  BY <1>2 DEF InFlight, Loaded
<1>4. RowFollows(k) /\ CopyFollows(k, w)
  BY <1>3 DEF RowFollows, CopyFollows, FinishLoad
<1>5. QED
  BY <1>2, <1>4, FollowsByMove

LEMMA ProgressFollows ==
    ASSUME TypeOK, NEW k \in Keys, RowFollows(k), NEW w \in Workers,
           req[w].pc \in {"get", "delete", "verify"},
           NEW p \in {"delete", "verify", "token"}, req' = [req EXCEPT ![w].pc = p]
    PROVE  Follows(k)
<1>1. /\ req'[w].answer = req[w].answer /\ req'[w].cred = req[w].cred
      /\ \A v \in Workers \ {w} : req'[v] = req[v]
  BY NextStepShape
<1>2. CopyFollows(k, w)
  BY <1>1 DEF CopyFollows, InFlight
<1>3. QED
  BY <1>1, <1>2, FollowsByMove

LEMMA UpdateKeyFollows ==
    ASSUME IInv, NEW k \in Keys, key[k] # None, NEW w \in Workers, UpdateKey(w)
    PROVE  Follows(k)
<1> DEFINE a == req[w].answer
           row == Overwrite(key[a.key], Counted(AdaptedKey(req[w].cred), a.count))
<1>1. /\ req[w].pc = "verify" /\ req[w].cred # None
      /\ key' = [key EXCEPT ![a.key] = row]
      /\ req' = [req EXCEPT ![w].pc = "token"]
  BY DEF UpdateKey
<1>2. a.key \in Keys /\ a.count \in Counts /\ req[w].cred \in Row
  BY <1>1, RequestShape DEF IInv
<1>3. RowFollows(k)
  <2>1. CASE a.key # k
    BY <1>1, <2>1 DEF RowFollows, IInv, TypeOK
  <2>2. CASE a.key = k
    <3>1. key[k] \in Row
      BY DEF IInv, TypeOK
    <3>2. row.signCount >= req[w].cred.signCount /\ (req[w].cred.cloneWarning => row.cloneWarning)
      BY <1>2, <2>2, <3>1, CountedIsRow
    <3>3. key'[k] = row
      BY <1>1, <1>2, <2>2 DEF IInv, TypeOK
    <3>4. InFlight(k, w)
      BY <1>1, <2>2 DEF InFlight
    <3> HIDE DEF row
    <3>5. QED
      BY <3>2, <3>3, <3>4 DEF RowFollows
  <2>3. QED
    BY <2>1, <2>2
<1>4. QED
  BY <1>1, <1>3, ProgressFollows DEF IInv

LEMMA StepFollows ==
    ASSUME IInv, NEW k \in Keys, key[k] # None, NEW w \in Workers, Step(w)
    PROVE  Follows(k)
<1>1. TypeOK
  BY DEF IInv
<1>2. CASE GetSession(w) \/ DeleteSession(w)
  <2>1. RowFollows(k)
    BY <1>2 DEF RowFollows, GetSession, DeleteSession
  <2>2. /\ req[w].pc \in {"get", "delete", "verify"}
        /\ \E p \in {"delete", "verify", "token"} : req' = [req EXCEPT ![w].pc = p]
    BY <1>2 DEF GetSession, DeleteSession
  <2>3. QED
    BY <1>1, <2>1, <2>2, ProgressFollows
\* The unique index: a key that has a row is not stored again.
<1>3. CASE StoreKey(w)
  <2>1. req[w].pc = "verify" /\ req' = [req EXCEPT ![w].pc = "token"]
    BY <1>3 DEF StoreKey
  <2>2. req[w].answer.key # k
    BY <1>3 DEF StoreKey, KeyFree
  <2>3. key'[k] = key[k]
    BY <1>1, <1>3, <2>2 DEF StoreKey, TypeOK
  <2>4. RowFollows(k)
    BY <2>3 DEF RowFollows
  <2>5. QED
    BY <1>1, <2>1, <2>4, ProgressFollows
<1>4. CASE IssueTokens(w) \/ Fail(w)
  <2>1. /\ req'[w].pc = "idle" /\ \A v \in Workers \ {w} : req'[v] = req[v]
    BY <1>1, <1>4, IdleShape DEF IssueTokens, Fail
  <2>2. RowFollows(k) /\ CopyFollows(k, w)
    BY <1>4, <2>1 DEF RowFollows, CopyFollows, InFlight, IssueTokens, Fail
  <2>3. QED
    BY <2>1, <2>2, FollowsByMove
<1>5. QED
  BY <1>1, <1>2, <1>3, <1>4, FinishLoadFollows, UpdateKeyFollows DEF Step

LEMMA NextLasts ==
    ASSUME IInv, [Next]_vars
    PROVE  Lasting
<1>1. ASSUME NEW w \in Workers, Step(w) PROVE Lasting
  BY <1>1, FinishLoadKeepsInvariant, SessionStepsKeepInvariant, StoreKeyKeepsInvariant,
     UpdateKeyKeepsInvariant, EndsKeepInvariant DEF Step
<1>2. CASE RegisterBegin \/ LoginBegin
  BY <1>2, BeginsKeepInvariant
<1>3. CASE CreateKey \/ Sign \/ Expire
  BY <1>3, WorldKeepsInvariant
<1>4. CASE UNCHANGED vars
  BY <1>4, NothingLasts DEF vars
<1>5. QED
  BY <1>1, <1>2, <1>3, <1>4 DEF Next

LEMMA NextFollows ==
    ASSUME IInv, [Next]_vars, NEW k \in Keys, key[k] # None
    PROVE  key'[k] # None /\ Follows(k)
<1>1. key'[k] # None
  BY NextLasts DEF Lasting
<1>2. CASE UNCHANGED <<key, req>>
  BY <1>2 DEF Follows, RowFollows, CopyFollows, InFlight
<1>3. QED
  BY <1>1, <1>2, StepFollows
     DEF Next, RegisterBegin, LoginBegin, Begin, CreateKey, Sign, Expire, vars

LEMMA CountStep ==
    ASSUME IInv, [Next]_vars, NEW k \in Keys, NEW n \in Counts, AtLeast(k, n)
    PROVE  AtLeast(k, n)'
<1>1. key'[k] # None /\ Follows(k)
  BY NextFollows DEF AtLeast
<1>2. TypeOK /\ TypeOK'
  BY NextInvariant DEF IInv
<1>3. /\ key[k] \in Row /\ key'[k] \in Row
      /\ key[k].signCount \in Int /\ key'[k].signCount \in Int /\ n \in Int
  BY <1>1, <1>2, MaxCountIsNat DEF AtLeast, TypeOK, Row, Counts
<1>4. \A w \in Workers : InFlight(k, w) => req[w].cred.signCount \in Int
  <2>1. \A w \in Workers : InFlight(k, w) => req[w].cred \in Row
    BY <1>2, RequestShape DEF InFlight
  <2>2. QED
    BY <2>1, MaxCountIsNat DEF Row, Counts
<1>5. key'[k].signCount >= n
  BY <1>1, <1>3, <1>4 DEF AtLeast, Follows, RowFollows
<1>6. \A w \in Workers : InFlight(k, w)' => req'[w].cred.signCount >= n
  BY <1>1 DEF AtLeast, Follows, CopyFollows
<1>7. QED
  BY <1>1, <1>5, <1>6 DEF AtLeast

\* However stale the copies that are written back, a key's sign count never
\* falls below what the row and all of them say.
THEOREM CountsSettle == Spec => CountSettles
<1>1. IInv /\ [Next]_vars =>
        [\A k \in Keys, n \in Counts : AtLeast(k, n) => AtLeast(k, n)']_vars
  BY CountStep
<1>2. QED
  BY <1>1, Inductive, PTL DEF Spec, CountSettles

LEMMA WarningStep ==
    ASSUME IInv, [Next]_vars, NEW k \in Keys, Warned(k)
    PROVE  Warned(k)'
<1>1. key'[k] # None /\ Follows(k)
  BY NextFollows DEF Warned
<1>2. key'[k].cloneWarning
  BY <1>1 DEF Warned, Follows, RowFollows
<1>3. \A w \in Workers : InFlight(k, w)' => req'[w].cred.cloneWarning
  BY <1>1 DEF Warned, Follows, CopyFollows
<1>4. QED
  BY <1>1, <1>2, <1>3 DEF Warned

\* A clone warning the row and all copies carry is never taken back.
THEOREM WarningsSettle == Spec => WarningSettles
<1>1. IInv /\ [Next]_vars => [\A k \in Keys : Warned(k) => Warned(k)']_vars
  BY WarningStep
<1>2. QED
  BY <1>1, Inductive, PTL DEF Spec, WarningSettles
=============================================================================
