-------------------------- MODULE Submissions_proofs -------------------------
(* Theorems about Submissions, for any number of goroutines, members, texts  *)
(* and rows, and any horizon of the clock.                                   *)
EXTENDS Submissions, TLAPS

\* What is true of a row in the table and of every copy in flight.
GoodRow(r) ==
    /\ r.status = "submitted" => r.submittedAt # None
    /\ r.status = "draft" => r.submittedAt = None

GoodRequest(q) ==
    /\ q.pc \notin {"idle", "team"} => GoodRow(q.sub)
    /\ q.pc \in {"save", "stamp"} => q.sub.status = "draft"
    /\ q.pc = "disqualify" => q.sub.status = "disqualified"
    /\ q.id # None => q.id \in Saved

RowsGood == \A s \in Saved : GoodRow(submission[s])

RequestsGood == \A w \in Workers : GoodRequest(req[w])

IInv == TypeOK /\ RowsGood /\ RequestsGood

---------------------------------------------------------------------------
(* Rows and copies keep their types *)

\* The clock counts in integers.
LEMMA IntegerClock == Times \subseteq Int
BY HorizonIsNat DEF Times

\* A new draft of an existing team is a row.
LEMMA DraftIsRow ==
    ASSUME NEW team \in Teams, NEW text \in Texts
    PROVE  /\ NewDraftSubmission(team, text) \in Row
           /\ NewDraftSubmission(team, text).status = "draft"
           /\ NewDraftSubmission(team, text).submittedAt = None
BY DEF NewDraftSubmission, Row, SubStatuses

\* An edit makes a row of a row.
LEMMA RevisedIsRow ==
    ASSUME NEW sub \in Row, NEW text \in Texts
    PROVE  /\ Revised(sub, text) \in Row
           /\ Revised(sub, text).status = sub.status
           /\ Revised(sub, text).submittedAt = sub.submittedAt
BY DEF Revised, Row

Stamped(sub, t) == [sub EXCEPT !.status = "submitted", !.submittedAt = t]

\* So does a final submit.
LEMMA StampedIsRow ==
    ASSUME NEW sub \in Row, NEW t \in Times
    PROVE  /\ Stamped(sub, t) \in Row
           /\ Stamped(sub, t).status = "submitted"
           /\ Stamped(sub, t).text = sub.text
           /\ Stamped(sub, t).submittedAt = t
BY DEF Stamped, Row, SubStatuses

Barred(sub) == [sub EXCEPT !.status = "disqualified"]

\* And a disqualification.
LEMMA BarredIsRow ==
    ASSUME NEW sub \in Row
    PROVE  /\ Barred(sub) \in Row
           /\ Barred(sub).status = "disqualified"
           /\ Barred(sub).text = sub.text
BY DEF Barred, Row, SubStatuses

\* Writing a row over another gives a row.
LEMMA OverwriteIsRow ==
    ASSUME NEW old \in Row, NEW sub \in Row
    PROVE  /\ Overwrite(old, sub) \in Row
           /\ Overwrite(old, sub).team = old.team
           /\ Overwrite(old, sub).status = sub.status
           /\ Overwrite(old, sub).text = sub.text
           /\ Overwrite(old, sub).submittedAt = sub.submittedAt
BY DEF Overwrite, Row

\* Saved ids name rows.
LEMMA SavedRow == TypeOK => \A s \in Saved : submission[s] \in Row
BY DEF TypeOK, Saved

\* The fields of a request.
Fields == [pc: {"idle", "team", "save", "check", "edit", "stamp", "write", "disqualify",
                "audit"},
           user: Users \cup {None}, id: SubIds \cup {None}, sub: Row \cup {None},
           due: Times \cup {None}]

LEMMA RequestHasFields ==
    ASSUME NEW q \in Request
    PROVE  /\ q \in Fields
           /\ q.pc # "idle" => q.user \in Users
           /\ q.pc \notin {"idle", "team"} => q.sub \in Row
           /\ q.pc \notin {"idle", "team", "save"} => q.id \in SubIds
           /\ q.pc \in {"idle", "team", "save"} => q.id = None
           /\ q.pc = "check" => q.due \in Times
           /\ q.pc # "check" => q.due = None
<1>1. CASE q = Idle
  BY <1>1 DEF Idle, Fields
<1>2. CASE q \in [pc: {"team"}, user: Users, id: {None}, sub: {None}, due: {None}]
  BY <1>2 DEF Fields
<1>3. CASE q \in [pc: {"save"}, user: Users, id: {None}, sub: Row, due: {None}]
  BY <1>3 DEF Fields
<1>4. CASE q \in [pc: {"check"}, user: Users, id: SubIds, sub: Row, due: Times]
  BY <1>4 DEF Fields
<1>5. CASE q \in [pc: {"edit", "stamp", "write", "disqualify", "audit"}, user: Users,
                  id: SubIds, sub: Row, due: {None}]
  BY <1>5 DEF Fields
<1>6. QED
  BY <1>1, <1>2, <1>3, <1>4, <1>5 DEF Request

\* The request that holds pc, u, s, sub and due, as the one element of a set.
Held(pc, u, s, sub, due) == [pc: {pc}, user: {u}, id: {s}, sub: {sub}, due: {due}]

\* What the goroutine w holds after each of its steps.
Served(w) ==
    \/ /\ CreateSave(w) \/ EditWrite(w) \/ DisqualifyAudit(w) \/ Fail(w)
       /\ req'[w] = Idle
    \/ /\ CreateCheck(w)
       /\ \E u \in Users : req'[w] \in Held("team", u, None, None, None)
    \/ /\ CreateFindTeam(w)
       /\ \E team \in Teams, text \in Texts :
            req'[w] \in Held("save", req[w].user, None, NewDraftSubmission(team, text), None)
    \/ /\ EditLoad(w)
       /\ \E u \in Users, s \in Saved : req'[w] \in Held("edit", u, s, submission[s], None)
    \/ /\ EditReadDeadline(w)
       /\ req'[w] \in Held("check", req[w].user, req[w].id, req[w].sub, deadline)
    \/ /\ EditCheck(w)
       /\ \E text \in Texts :
            req'[w] \in Held("write", req[w].user, req[w].id, Revised(req[w].sub, text), None)
    \/ /\ SubmitCheck(w)
       /\ req'[w] \in Held("stamp", req[w].user, req[w].id, req[w].sub, None)
    \/ /\ Submit(w)
       /\ req'[w] \in Held("write", req[w].user, req[w].id, Stamped(req[w].sub, now), None)
    \/ /\ DisqualifyLoad(w)
       /\ \E u \in Users, s \in Saved :
            req'[w] \in Held("disqualify", u, s, Barred(submission[s]), None)
    \/ /\ DisqualifyWrite(w)
       /\ req'[w] \in Held("audit", req[w].user, req[w].id, req[w].sub, None)

\* A step of w changes what w holds, as Served says, and nobody else's request.
LEMMA Serving ==
    ASSUME TypeOK, NEW w \in Workers, Step(w)
    PROVE  /\ req' = [req EXCEPT ![w] = req'[w]]
           /\ \A v \in Workers \ {w} : req'[v] = req[v]
           /\ Served(w)
<1>1. req \in [Workers -> Request] /\ req[w] \in Request
  BY DEF TypeOK
<1>2. /\ req[w] \in Fields
      /\ req[w].pc # "check" => req[w].due = None
      /\ req[w].pc # "idle" => req[w].user \in Users
      /\ req[w].pc \in {"idle", "team", "save"} => req[w].id = None
  BY <1>1, RequestHasFields
<1>3. ASSUME NEW r, req' = [req EXCEPT ![w] = r]
      PROVE  /\ req' = [req EXCEPT ![w] = req'[w]] /\ req'[w] = r
             /\ \A v \in Workers \ {w} : req'[v] = req[v]
  BY <1>1, <1>3
<1>4. CASE CreateSave(w) \/ EditWrite(w) \/ DisqualifyAudit(w) \/ Fail(w)
  <2>1. req' = [req EXCEPT ![w] = Idle]
    BY <1>4 DEF CreateSave, EditWrite, DisqualifyAudit, Fail
  <2>2. QED
    BY <1>3, <1>4, <2>1 DEF Served
<1>5. CASE CreateCheck(w)
  <2>1. PICK u \in Users : req' = [req EXCEPT ![w] = [Idle EXCEPT !.pc = "team", !.user = u]]
    BY <1>5 DEF CreateCheck
  <2>2. req'[w] \in Held("team", u, None, None, None)
    BY <1>1, <2>1 DEF Idle, Held
  <2>3. QED
    BY <1>3, <1>5, <2>1, <2>2 DEF Served
<1>6. CASE CreateFindTeam(w)
  <2>1. PICK text \in Texts : req' = [req EXCEPT ![w] = [req[w] EXCEPT !.pc = "save",
                                !.sub = NewDraftSubmission(teamOf[req[w].user], text)]]
    BY <1>6 DEF CreateFindTeam
  <2>2. req[w].pc = "team" /\ teamOf[req[w].user] \in Teams
    BY <1>2, <1>6 DEF CreateFindTeam, HasTeam, TypeOK
  <2>3. req'[w] \in Held("save", req[w].user, None,
                         NewDraftSubmission(teamOf[req[w].user], text), None)
    BY <1>1, <1>2, <2>1, <2>2 DEF Held, Fields
  <2>4. QED
    BY <1>3, <1>6, <2>1, <2>2, <2>3 DEF Served
<1>7. CASE EditLoad(w)
  <2>1. PICK u \in Users, s \in Saved : req' = [req EXCEPT ![w] =
          [Idle EXCEPT !.pc = "edit", !.user = u, !.id = s, !.sub = submission[s]]]
    BY <1>7 DEF EditLoad
  <2>2. req'[w] \in Held("edit", u, s, submission[s], None)
    BY <1>1, <2>1 DEF Idle, Held
  <2>3. QED
    BY <1>3, <1>7, <2>1, <2>2 DEF Served
<1>8. CASE EditReadDeadline(w)
  <2>1. req' = [req EXCEPT ![w] = [req[w] EXCEPT !.pc = "check", !.due = deadline]]
    BY <1>8 DEF EditReadDeadline
  <2>2. req'[w] \in Held("check", req[w].user, req[w].id, req[w].sub, deadline)
    BY <1>1, <1>2, <2>1 DEF Held, Fields
  <2>3. QED
    BY <1>3, <1>8, <2>1, <2>2 DEF Served
<1>9. CASE EditCheck(w)
  <2>1. PICK text \in Texts : req' = [req EXCEPT ![w] =
          [req[w] EXCEPT !.pc = "write", !.due = None, !.sub = Revised(req[w].sub, text)]]
    BY <1>9 DEF EditCheck
  <2>2. req'[w] \in Held("write", req[w].user, req[w].id, Revised(req[w].sub, text), None)
    BY <1>1, <1>2, <2>1 DEF Held, Fields
  <2>3. QED
    BY <1>3, <1>9, <2>1, <2>2 DEF Served
<1>10. CASE SubmitCheck(w)
  <2>1. req' = [req EXCEPT ![w] = [req[w] EXCEPT !.pc = "stamp", !.due = None]]
    BY <1>10 DEF SubmitCheck
  <2>2. req'[w] \in Held("stamp", req[w].user, req[w].id, req[w].sub, None)
    BY <1>1, <1>2, <2>1 DEF Held, Fields
  <2>3. QED
    BY <1>3, <1>10, <2>1, <2>2 DEF Served
<1>11. CASE Submit(w)
  <2>1. /\ req' = [req EXCEPT ![w] = [req[w] EXCEPT !.pc = "write",
                                                    !.sub = Stamped(req[w].sub, now)]]
        /\ req[w].pc = "stamp"
    BY <1>1, <1>2, <1>11 DEF Submit, Stamped, Fields
  <2>2. req'[w] \in Held("write", req[w].user, req[w].id, Stamped(req[w].sub, now), None)
    BY <1>1, <1>2, <2>1 DEF Held, Fields
  <2>3. QED
    BY <1>3, <1>11, <2>1, <2>2 DEF Served
<1>12. CASE DisqualifyLoad(w)
  <2>1. PICK u \in Admins, s \in Saved : req' = [req EXCEPT ![w] =
          [Idle EXCEPT !.pc = "disqualify", !.user = u, !.id = s,
                       !.sub = Barred(submission[s])]]
    BY <1>12 DEF DisqualifyLoad, Barred
  <2>2. req'[w] \in Held("disqualify", u, s, Barred(submission[s]), None)
    BY <1>1, <2>1 DEF Idle, Held
  <2>3. \E x \in Users, t \in Saved :
          req'[w] \in Held("disqualify", x, t, Barred(submission[t]), None)
    BY <2>2, AdminsAreUsers
  <2>4. QED
    BY <1>3, <1>12, <2>1, <2>3 DEF Served
<1>13. CASE DisqualifyWrite(w)
  <2>1. req' = [req EXCEPT ![w] = [req[w] EXCEPT !.pc = "audit"]] /\ req[w].pc = "disqualify"
    BY <1>13 DEF DisqualifyWrite
  <2>2. req'[w] \in Held("audit", req[w].user, req[w].id, req[w].sub, None)
    BY <1>1, <1>2, <2>1 DEF Held, Fields
  <2>3. QED
    BY <1>3, <1>13, <2>1, <2>2 DEF Served
<1>14. QED
  BY <1>4, <1>5, <1>6, <1>7, <1>8, <1>9, <1>10, <1>11, <1>12, <1>13 DEF Step

\* A step of w leaves the rows alone, adds one, or overwrites one that exists.
LEMMA Writing ==
    ASSUME TypeOK, NEW w \in Workers, Step(w)
    PROVE  \/ submission' = submission /\ ~CreateSave(w) /\ ~EditWrite(w) /\ ~DisqualifyWrite(w)
           \/ /\ CreateSave(w) /\ req[w].sub \in Row
              /\ \E s \in SubIds \ Saved : submission' = [submission EXCEPT ![s] = req[w].sub]
           \/ /\ EditWrite(w) \/ DisqualifyWrite(w)
              /\ req[w].id \in Saved /\ req[w].sub \in Row /\ submission[req[w].id] \in Row
              /\ submission' = [submission EXCEPT ![req[w].id] =
                                  Overwrite(submission[req[w].id], req[w].sub)]
<1>1. req[w] \in Request
  BY DEF TypeOK
<1>2. CASE CreateSave(w)
  BY <1>1, <1>2, RequestHasFields DEF CreateSave
<1>3. CASE EditWrite(w) \/ DisqualifyWrite(w)
  <2>1. /\ req[w].pc \in {"write", "disqualify"} /\ req[w].id \in Saved
        /\ submission' = [submission EXCEPT ![req[w].id] =
                             Overwrite(submission[req[w].id], req[w].sub)]
    BY <1>3 DEF EditWrite, DisqualifyWrite
  <2>2. QED
    BY <1>1, <1>3, <2>1, RequestHasFields, SavedRow
<1>4. CASE ~CreateSave(w) /\ ~EditWrite(w) /\ ~DisqualifyWrite(w)
  BY <1>4 DEF Step, CreateCheck, CreateFindTeam, EditLoad, EditReadDeadline, EditCheck,
              SubmitCheck, Submit, DisqualifyLoad, DisqualifyAudit, Fail
<1>5. QED
  BY <1>2, <1>3, <1>4

\* The initial state has its types.
LEMMA TypeInit == Init => TypeOK
BY KnownStatuses, HorizonIsNat, NoneIsNoValue
   DEF Init, TypeOK, Request, Idle, Times

\* What a goroutine holds after a step is a request.
LEMMA ServedRequest ==
    ASSUME TypeOK, NEW w \in Workers, Step(w)
    PROVE  req'[w] \in Request
<1>1. req[w] \in Request /\ now \in Times /\ deadline \in Times /\ Saved \subseteq SubIds
  BY DEF TypeOK, Saved
<1>2. /\ req[w].pc # "idle" => req[w].user \in Users
      /\ req[w].pc \notin {"idle", "team"} => req[w].sub \in Row
      /\ req[w].pc \notin {"idle", "team", "save"} => req[w].id \in SubIds
  BY <1>1, RequestHasFields
<1>3. CASE req'[w] = Idle
  BY <1>3 DEF Request
<1>4. CASE CreateCheck(w) /\ \E u \in Users : req'[w] \in Held("team", u, None, None, None)
  BY <1>4 DEF Held, Request
<1>5. CASE /\ CreateFindTeam(w)
           /\ \E team \in Teams, text \in Texts :
                req'[w] \in Held("save", req[w].user, None,
                                 NewDraftSubmission(team, text), None)
  <2>1. PICK sub \in Row : req'[w] \in Held("save", req[w].user, None, sub, None)
    BY <1>5, DraftIsRow
  <2>2. req[w].user \in Users
    BY <1>2, <1>5 DEF CreateFindTeam
  <2>3. QED
    BY <2>1, <2>2 DEF Held, Request
<1>6. CASE /\ EditLoad(w)
           /\ \E u \in Users, s \in Saved :
                req'[w] \in Held("edit", u, s, submission[s], None)
  BY <1>1, <1>6, SavedRow DEF Held, Request
<1>7. CASE /\ EditReadDeadline(w)
           /\ req'[w] \in Held("check", req[w].user, req[w].id, req[w].sub, deadline)
  BY <1>1, <1>2, <1>7 DEF EditReadDeadline, Held, Request
<1>8. CASE /\ EditCheck(w)
           /\ \E text \in Texts :
                req'[w] \in Held("write", req[w].user, req[w].id, Revised(req[w].sub, text), None)
  BY <1>2, <1>8, RevisedIsRow DEF EditCheck, Held, Request
<1>9. CASE /\ SubmitCheck(w)
           /\ req'[w] \in Held("stamp", req[w].user, req[w].id, req[w].sub, None)
  BY <1>2, <1>9 DEF SubmitCheck, Held, Request
<1>10. CASE /\ Submit(w)
            /\ req'[w] \in Held("write", req[w].user, req[w].id, Stamped(req[w].sub, now), None)
  BY <1>1, <1>2, <1>10, StampedIsRow DEF Submit, Held, Request
<1>11. CASE /\ DisqualifyLoad(w)
            /\ \E u \in Users, s \in Saved :
                 req'[w] \in Held("disqualify", u, s, Barred(submission[s]), None)
  BY <1>1, <1>11, SavedRow, BarredIsRow DEF Held, Request
<1>12. CASE /\ DisqualifyWrite(w)
            /\ req'[w] \in Held("audit", req[w].user, req[w].id, req[w].sub, None)
  BY <1>2, <1>12 DEF DisqualifyWrite, Held, Request
<1>13. QED
  BY Serving, <1>3, <1>4, <1>5, <1>6, <1>7, <1>8, <1>9, <1>10, <1>11, <1>12 DEF Served

\* Every step keeps the types.
LEMMA TypeStep == TypeOK /\ [Next]_vars => TypeOK'
<1> SUFFICES ASSUME TypeOK, [Next]_vars PROVE TypeOK'
  OBVIOUS
<1>1. ASSUME NEW w \in Workers, Step(w) PROVE TypeOK'
  <2>1. req' \in [Workers -> Request]
    BY <1>1, Serving, ServedRequest DEF TypeOK
  <2>2. submission' \in [SubIds -> Row \cup {None}]
    <3>1. CASE submission' = submission
      BY <3>1 DEF TypeOK
    <3>2. CASE \E s \in SubIds : submission' = [submission EXCEPT ![s] = req[w].sub]
                                 /\ req[w].sub \in Row
      BY <3>2 DEF TypeOK
    <3>3. CASE /\ req[w].sub \in Row /\ submission[req[w].id] \in Row
               /\ submission' = [submission EXCEPT ![req[w].id] =
                                   Overwrite(submission[req[w].id], req[w].sub)]
      <4>1. Overwrite(submission[req[w].id], req[w].sub) \in Row
        BY <3>3, OverwriteIsRow
      <4>2. QED
        BY <3>3, <4>1 DEF TypeOK
    <3>4. QED
      BY <1>1, <3>1, <3>2, <3>3, Writing
  <2>3. audit' \subseteq SubIds
    <3>1. CASE DisqualifyAudit(w)
      BY <3>1, RequestHasFields DEF DisqualifyAudit, TypeOK
    <3>2. CASE audit' = audit
      BY <3>2 DEF TypeOK
    <3>3. QED
      BY <1>1, <3>1, <3>2
         DEF Step, CreateCheck, CreateFindTeam, CreateSave, EditLoad, EditReadDeadline,
             EditCheck, SubmitCheck, Submit, EditWrite, DisqualifyLoad, DisqualifyWrite, Fail
  <2>4. /\ UNCHANGED eventVars
        /\ overtaken' \subseteq overtaken \cup Others(w)
    BY <1>1
       DEF Step, CreateCheck, CreateFindTeam, CreateSave, EditLoad, EditReadDeadline,
           EditCheck, SubmitCheck, Submit, EditWrite, DisqualifyLoad, DisqualifyWrite,
           DisqualifyAudit, Fail, eventVars
  <2>5. QED
    BY <2>1, <2>2, <2>3, <2>4 DEF TypeOK, Others, eventVars
<1>2. CASE Tick
  BY <1>2, HorizonIsNat DEF Tick, TypeOK, Times
<1>3. CASE OrganizerPatch
  BY <1>3, KnownStatuses DEF OrganizerPatch, TypeOK
<1>4. CASE JoinTeam
  BY <1>4 DEF JoinTeam, TypeOK
<1>5. CASE UNCHANGED vars
  BY <1>5 DEF vars, TypeOK
<1>6. QED
  BY <1>1, <1>2, <1>3, <1>4, <1>5 DEF Next

\* Only well-formed rows reach the table and the requests in flight.
THEOREM TypeCorrect == Spec => []TypeOK
BY TypeInit, TypeStep, PTL DEF Spec

---------------------------------------------------------------------------
(* The inductive invariant: rows and copies are consistent *)

\* Rows never go away.
LEMMA SavedStays ==
    ASSUME TypeOK, NEW w \in Workers, Step(w)
    PROVE  Saved \subseteq Saved'
<1>1. CASE submission' = submission
  BY <1>1 DEF Saved
<1>2. CASE \E s \in SubIds \ Saved : /\ submission' = [submission EXCEPT ![s] = req[w].sub]
                                     /\ req[w].sub \in Row
  BY <1>2, NoneIsNoValue DEF TypeOK, Saved
<1>3. CASE /\ req[w].sub \in Row /\ submission[req[w].id] \in Row
           /\ submission' = [submission EXCEPT ![req[w].id] =
                               Overwrite(submission[req[w].id], req[w].sub)]
  <2>1. Overwrite(submission[req[w].id], req[w].sub) \in Row
    BY <1>3, OverwriteIsRow
  <2>2. QED
    BY <1>3, <2>1, NoneIsNoValue DEF TypeOK, Saved
<1>4. QED
  BY <1>1, <1>2, <1>3, Writing

\* The invariant holds at first.
LEMMA InductiveInit == Init => IInv
BY TypeInit DEF Init, IInv, RowsGood, RequestsGood, GoodRequest, Idle, Saved

\* What a goroutine holds after a step is good.
LEMMA ServedIsGood ==
    ASSUME IInv, NEW w \in Workers, Step(w)
    PROVE  GoodRequest(req[w])'
<1>1. /\ TypeOK /\ req[w] \in Request /\ GoodRequest(req[w])
      /\ \A s \in Saved : submission[s] \in Row /\ GoodRow(submission[s])
      /\ Saved \subseteq Saved'
  BY SavedRow, SavedStays DEF IInv, TypeOK, RequestsGood, RowsGood
<1>2. /\ req[w].pc \notin {"idle", "team"} => req[w].sub \in Row
      /\ req[w].pc \notin {"idle", "team", "save"} => req[w].id \in Saved
  BY <1>1, RequestHasFields, NoneIsNoValue DEF GoodRequest
<1>3. CASE req'[w] = Idle
  BY <1>3 DEF Idle, GoodRequest
<1>4. CASE \E u \in Users : req'[w] \in Held("team", u, None, None, None)
  BY <1>4 DEF Held, GoodRequest
<1>5. CASE \E team \in Teams, text \in Texts :
             req'[w] \in Held("save", req[w].user, None, NewDraftSubmission(team, text), None)
  <2>1. PICK sub \in Row : /\ req'[w] \in Held("save", req[w].user, None, sub, None)
                           /\ sub.status = "draft" /\ sub.submittedAt = None
    BY <1>5, DraftIsRow
  <2>2. QED
    BY <2>1 DEF Held, GoodRequest, GoodRow
<1>6. CASE \E u \in Users, s \in Saved : req'[w] \in Held("edit", u, s, submission[s], None)
  BY <1>1, <1>6 DEF Held, GoodRequest, GoodRow
<1>7. CASE /\ EditReadDeadline(w)
           /\ req'[w] \in Held("check", req[w].user, req[w].id, req[w].sub, deadline)
  BY <1>1, <1>2, <1>7 DEF EditReadDeadline, Held, GoodRequest, GoodRow
<1>8. CASE /\ EditCheck(w)
           /\ \E text \in Texts :
                req'[w] \in Held("write", req[w].user, req[w].id, Revised(req[w].sub, text), None)
  <2>1. req[w].sub \in Row /\ req[w].id \in Saved /\ GoodRow(req[w].sub)
    BY <1>1, <1>2, <1>8 DEF EditCheck, GoodRequest
  <2>2. PICK sub \in Row : /\ req'[w] \in Held("write", req[w].user, req[w].id, sub, None)
                           /\ sub.status = req[w].sub.status
                           /\ sub.submittedAt = req[w].sub.submittedAt
    BY <1>8, <2>1, RevisedIsRow
  <2>3. QED
    BY <1>1, <2>1, <2>2 DEF Held, GoodRequest, GoodRow
<1>9. CASE /\ SubmitCheck(w)
           /\ req'[w] \in Held("stamp", req[w].user, req[w].id, req[w].sub, None)
  BY <1>1, <1>2, <1>9 DEF SubmitCheck, CanEdit, Held, GoodRequest, GoodRow
<1>10. CASE /\ Submit(w)
            /\ req'[w] \in Held("write", req[w].user, req[w].id, Stamped(req[w].sub, now), None)
  <2>1. req[w].sub \in Row /\ req[w].id \in Saved /\ now \in Times
    BY <1>1, <1>2, <1>10 DEF Submit, TypeOK
  <2>2. PICK sub \in Row : /\ req'[w] \in Held("write", req[w].user, req[w].id, sub, None)
                           /\ sub.status = "submitted" /\ sub.submittedAt # None
    BY <1>10, <2>1, StampedIsRow, NoneIsNoValue
  <2>3. QED
    BY <1>1, <2>1, <2>2 DEF Held, GoodRequest, GoodRow
<1>11. CASE \E u \in Users, s \in Saved :
              req'[w] \in Held("disqualify", u, s, Barred(submission[s]), None)
  <2>1. PICK u \in Users, s \in Saved :
          req'[w] \in Held("disqualify", u, s, Barred(submission[s]), None)
    BY <1>11
  <2>2. Barred(submission[s]).status = "disqualified"
    BY <1>1, <2>1, BarredIsRow
  <2>3. QED
    BY <1>1, <2>1, <2>2 DEF Held, GoodRequest, GoodRow
<1>12. CASE /\ DisqualifyWrite(w)
            /\ req'[w] \in Held("audit", req[w].user, req[w].id, req[w].sub, None)
  BY <1>1, <1>2, <1>12 DEF DisqualifyWrite, Held, GoodRequest, GoodRow
<1>13. QED
  BY <1>1, Serving, <1>3, <1>4, <1>5, <1>6, <1>7, <1>8, <1>9, <1>10, <1>11, <1>12 DEF Served

\* Every step keeps the invariant.
LEMMA InductiveStep == IInv /\ [Next]_vars => IInv'
<1> SUFFICES ASSUME IInv, [Next]_vars PROVE IInv'
  OBVIOUS
<1>1. TypeOK /\ TypeOK' /\ RowsGood /\ RequestsGood
  BY TypeStep DEF IInv
<1>2. ASSUME NEW w \in Workers, Step(w) PROVE RowsGood' /\ RequestsGood'
  <2>1. RequestsGood'
    <3>1. ASSUME NEW v \in Workers \ {w} PROVE GoodRequest(req[v])'
      BY <1>1, <1>2, <3>1, Serving, SavedStays DEF RequestsGood, GoodRequest
    <3>2. QED
      BY <1>2, <3>1, ServedIsGood DEF RequestsGood
  <2>2. CASE submission' = submission
    BY <1>1, <2>1, <2>2 DEF RowsGood, Saved
  <2>3. CASE CreateSave(w)
    <3>1. GoodRow(req[w].sub)
      BY <1>1, <2>3 DEF CreateSave, RequestsGood, GoodRequest
    <3>2. PICK s \in SubIds \ Saved : submission' = [submission EXCEPT ![s] = req[w].sub]
      BY <2>3 DEF CreateSave
    <3>3. RowsGood'
      BY <1>1, <3>1, <3>2 DEF RowsGood, TypeOK, Saved
    <3>4. QED
      BY <2>1, <3>3
  <2>4. CASE EditWrite(w) \/ DisqualifyWrite(w)
    <3>1. GoodRow(req[w].sub)
      BY <1>1, <2>4 DEF EditWrite, DisqualifyWrite, RequestsGood, GoodRequest
    <3>2. /\ req[w].id \in Saved /\ req[w].sub \in Row /\ submission[req[w].id] \in Row
          /\ submission' = [submission EXCEPT ![req[w].id] =
                              Overwrite(submission[req[w].id], req[w].sub)]
      <4>1. req[w].pc \in {"write", "disqualify"} /\ req[w].id \in Saved
        BY <2>4 DEF EditWrite, DisqualifyWrite
      <4>2. QED
        BY <1>1, <2>4, <4>1, RequestHasFields, SavedRow DEF EditWrite, DisqualifyWrite, TypeOK
    <3>3. GoodRow(Overwrite(submission[req[w].id], req[w].sub))
      BY <3>1, <3>2, OverwriteIsRow DEF GoodRow
    <3>4. RowsGood'
      BY <1>1, <3>2, <3>3 DEF RowsGood, TypeOK, Saved
    <3>5. QED
      BY <2>1, <3>4
  <2>5. QED
    BY <1>1, <1>2, <2>2, <2>3, <2>4, Writing
<1>3. CASE Tick \/ OrganizerPatch \/ JoinTeam \/ UNCHANGED vars
  <2>1. submission' = submission /\ req' = req
    BY <1>3 DEF Tick, OrganizerPatch, JoinTeam, vars
  <2>2. QED
    BY <1>1, <2>1 DEF IInv, RowsGood, RequestsGood, GoodRequest, Saved
<1>4. QED
  BY <1>1, <1>2, <1>3 DEF Next, IInv

\* IInv holds in every reachable state, whatever copies are written back.
THEOREM Inductive == Spec => []IInv
BY InductiveInit, InductiveStep, PTL DEF Spec

\* A row says "submitted" exactly when it says when: stale copies are written
\* back whole, so status and time never come from different copies.
THEOREM StatusAndTimeAgree == Spec => []SubmittedAtMatchesStatus
<1>1. IInv => SubmittedAtMatchesStatus
  BY DEF IInv, RowsGood, SubmittedAtMatchesStatus, GoodRow
<1>2. QED
  BY <1>1, Inductive, PTL

\* I2, from the unique index alone.
THEOREM TeamsSubmitOnce == Spec => []OneSubmissionPerTeam
<1>1. Init => OneSubmissionPerTeam
  BY DEF Init, OneSubmissionPerTeam, Saved
<1>2. TypeOK /\ OneSubmissionPerTeam /\ [Next]_vars => OneSubmissionPerTeam'
  <2> SUFFICES ASSUME TypeOK, OneSubmissionPerTeam, [Next]_vars
               PROVE  OneSubmissionPerTeam'
    OBVIOUS
  <2>1. ASSUME NEW w \in Workers, CreateSave(w) PROVE OneSubmissionPerTeam'
    <3>1. PICK s \in SubIds \ Saved : submission' = [submission EXCEPT ![s] = req[w].sub]
      BY <2>1 DEF CreateSave
    <3>2. \A t \in Saved : submission[t].team # req[w].sub.team
      BY <2>1 DEF CreateSave, TeamFree
    <3>3. submission'[s] = req[w].sub /\ \A t \in SubIds \ {s} : submission'[t] = submission[t]
      BY <3>1 DEF TypeOK
    <3>4. QED
      BY <3>2, <3>3 DEF OneSubmissionPerTeam, Saved
  <2>2. ASSUME NEW w \in Workers, Step(w), ~CreateSave(w)
        PROVE  OneSubmissionPerTeam'
    <3>1. CASE submission' = submission
      BY <3>1 DEF OneSubmissionPerTeam, Saved
    <3>2. CASE /\ req[w].id \in Saved /\ req[w].sub \in Row /\ submission[req[w].id] \in Row
               /\ submission' = [submission EXCEPT ![req[w].id] =
                                   Overwrite(submission[req[w].id], req[w].sub)]
      <4>1. submission'[req[w].id].team = submission[req[w].id].team
        BY <3>2, OverwriteIsRow DEF TypeOK, Saved
      <4>2. \A t \in SubIds \ {req[w].id} : submission'[t] = submission[t]
        BY <3>2 DEF TypeOK
      <4>3. QED
        BY <3>2, <4>1, <4>2 DEF OneSubmissionPerTeam, Saved
    <3>3. QED
      BY <2>2, <3>1, <3>2, Writing
  <2>3. CASE submission' = submission
    BY <2>3 DEF OneSubmissionPerTeam, Saved
  <2>4. QED
    BY <2>1, <2>2, <2>3 DEF Next, vars, Tick, OrganizerPatch, JoinTeam
<1>3. QED
  BY <1>1, <1>2, TypeCorrect, PTL DEF Spec

---------------------------------------------------------------------------
(* What a step may never do to a closed or a locked row *)

\* A step that leaves the row s alone, or overwrites it by a disqualification.
Spared(s) ==
    submission'[s] # submission[s] =>
        \E w \in Workers : req[w].pc = "disqualify" /\ req[w].id = s

\* What no goroutine holds of a row that is closed, or of one that is locked.
Open(q, s, t) == q.id = s /\ (q.pc \in {"stamp", "write"} \/ (q.pc = "check" /\ ~(q.due < t)))

Draft(q, s) == q.id = s /\ (\/ q.pc \in {"stamp", "write"}
                            \/ q.pc \in {"edit", "check"} /\ q.sub.status = "draft")

\* The checks of an edit keep to its row.
LEMMA CheckingKeepsRow ==
    ASSUME TypeOK, NEW w \in Workers
    PROVE  /\ EditReadDeadline(w) \/ EditCheck(w) \/ SubmitCheck(w) \/ Submit(w)
                => req'[w].id = req[w].id
           /\ EditReadDeadline(w) => req'[w].pc = "check" /\ req'[w].sub = req[w].sub
<1>1. req \in [Workers -> Request] /\ req[w] \in Fields
  BY RequestHasFields DEF TypeOK
<1>2. QED
  BY <1>1 DEF EditReadDeadline, EditCheck, SubmitCheck, Submit, Fields

\* A row no goroutine is about to write, but to disqualify, is spared.
LEMMA RowIsSpared ==
    ASSUME TypeOK, NEW w \in Workers, Step(w), NEW s \in Saved,
           ~(req[w].pc = "write" /\ req[w].id = s)
    PROVE  Spared(s) /\ s \in Saved'
<1>1. s \in Saved'
  BY SavedStays
<1>2. CASE submission' = submission
  BY <1>1, <1>2 DEF Spared
<1>3. CASE CreateSave(w)
  BY <1>1, <1>3 DEF CreateSave, Spared, TypeOK
<1>4. CASE EditWrite(w)
  BY <1>1, <1>4 DEF EditWrite, Spared, TypeOK
<1>5. CASE DisqualifyWrite(w)
  BY <1>1, <1>5 DEF DisqualifyWrite, Spared, TypeOK
<1>6. QED
  BY <1>1, <1>2, <1>3, <1>4, <1>5, Writing DEF Spared

\* A step that does not move the deadline leaves a closed row closed.
LEMMA ClosedStep ==
    ASSUME IInv, [Next]_vars, NEW s \in SubIds, Closed(s), deadline' = deadline
    PROVE  Closed(s)' /\ Spared(s)
<1>1. TypeOK /\ TypeOK' /\ s \in Saved /\ now > deadline
  BY TypeStep DEF IInv, Closed, Saved
<1>2. now \in Int /\ now' \in Int /\ deadline \in Int
  BY <1>1, IntegerClock DEF TypeOK
<1>3. \A v \in Workers : ~Open(req[v], s, now)
  BY DEF Closed, Open
<1>4. ASSUME s \in Saved', now' >= now, \A v \in Workers : ~Open(req'[v], s, now)
      PROVE  Closed(s)'
  <2>1. \A v \in Workers : req'[v].pc = "check" => req'[v].due \in Int
    BY <1>1, RequestHasFields, IntegerClock DEF TypeOK
  <2>2. QED
    BY <1>1, <1>2, <1>4, <2>1 DEF Closed, Open, Saved
<1>5. ASSUME NEW w \in Workers, Step(w) PROVE Closed(s)' /\ Spared(s)
  <2>1. now' = now
    BY <1>5
       DEF Step, CreateCheck, CreateFindTeam, CreateSave, EditLoad, EditReadDeadline,
           EditCheck, SubmitCheck, Submit, EditWrite, DisqualifyLoad, DisqualifyWrite,
           DisqualifyAudit, Fail, eventVars
  <2>2. Spared(s) /\ s \in Saved'
    BY <1>1, <1>3, <1>5, RowIsSpared DEF Open
  \* Whoever passes the check has an earlier deadline: it is another row's.
  <2>3. ~Open(req'[w], s, now)
    <3>1. ASSUME req[w].pc = "check", now <= req[w].due PROVE req[w].id # s
      <4>1. req[w].due \in Int
        BY <1>1, <3>1, RequestHasFields, IntegerClock DEF TypeOK
      <4>2. QED
        BY <1>2, <1>3, <3>1, <4>1 DEF Open
    <3>2. CASE EditCheck(w) \/ SubmitCheck(w) \/ Submit(w)
      <4>1. req[w].id # s
        BY <1>3, <3>1, <3>2 DEF EditCheck, SubmitCheck, Submit, CanEdit, Open
      <4>2. req'[w].id = req[w].id
        BY <1>1, <3>2, CheckingKeepsRow
      <4>3. QED
        BY <4>1, <4>2 DEF Open
    <3>3. CASE ~(EditCheck(w) \/ SubmitCheck(w) \/ Submit(w))
      <4>1. req'[w].pc \notin {"stamp", "write"} /\ (req'[w].pc = "check" => req'[w].due = deadline)
        BY <1>1, <1>5, <3>3, Serving DEF Served, Held, Idle
      <4>2. QED
        BY <1>1, <1>2, <4>1 DEF Open
    <3>4. QED
      BY <3>2, <3>3
  <2>4. \A v \in Workers : ~Open(req'[v], s, now)
    BY <1>1, <1>3, <1>5, <2>3, Serving
  <2>5. QED
    BY <1>2, <1>4, <2>1, <2>2, <2>4
<1>6. CASE Tick \/ OrganizerPatch \/ JoinTeam \/ UNCHANGED vars
  <2>1. submission' = submission /\ req' = req /\ now' >= now
    BY <1>2, <1>6 DEF Tick, OrganizerPatch, JoinTeam, vars
  <2>2. QED
    BY <1>1, <1>3, <1>4, <2>1 DEF Saved, Spared
<1>7. QED
  BY <1>5, <1>6 DEF Next

\* I4: while the deadline stays, nothing but a disqualification changes a
\* submission whose deadline has passed and whose requests have all been
\* checked and written: no edit slips in and no time of submission is recorded.
THEOREM DeadlinesHold == Spec => DeadlineHolds
<1>1. IInv /\ [Next]_vars =>
        [\A s \in SubIds : Closed(s) /\ deadline' = deadline =>
            /\ Closed(s)'
            /\ submission'[s] # submission[s] =>
                 \E w \in Workers : req[w].pc = "disqualify" /\ req[w].id = s]_vars
  BY ClosedStep DEF Spared
<1>2. QED
  BY <1>1, Inductive, PTL DEF Spec, DeadlineHolds

\* One step leaves a locked row locked.
LEMMA LockedStep ==
    ASSUME IInv, [Next]_vars, NEW s \in SubIds, Locked(s)
    PROVE  Locked(s)' /\ Spared(s)
<1>1. TypeOK /\ s \in Saved /\ submission[s].status # "draft" /\ RequestsGood
  BY DEF IInv, Locked, Saved
<1>2. \A v \in Workers : ~Draft(req[v], s)
  BY DEF Locked, Draft
<1>3. ASSUME s \in Saved', submission'[s].status # "draft",
             \A v \in Workers : ~Draft(req'[v], s)
      PROVE  Locked(s)'
  BY <1>3 DEF Locked, Draft, Saved
<1>4. ASSUME NEW w \in Workers, Step(w) PROVE Locked(s)' /\ Spared(s)
  <2>1. Spared(s) /\ s \in Saved'
    BY <1>1, <1>2, <1>4, RowIsSpared DEF Draft
  <2>2. submission'[s].status # "draft"
    <3>1. CASE DisqualifyWrite(w)
      <4>1. /\ req[w].sub.status = "disqualified" /\ req[w].sub \in Row
            /\ submission[req[w].id] \in Row
        BY <1>1, <3>1, RequestHasFields, SavedRow
           DEF DisqualifyWrite, RequestsGood, GoodRequest, TypeOK
      <4>2. QED
        BY <1>1, <3>1, <4>1, OverwriteIsRow DEF DisqualifyWrite, TypeOK
    <3>2. CASE CreateSave(w)
      BY <1>1, <3>2 DEF CreateSave, TypeOK
    <3>3. CASE EditWrite(w)
      BY <1>1, <1>2, <3>3 DEF EditWrite, TypeOK, Draft
    <3>4. QED
      BY <1>1, <1>4, <3>1, <3>2, <3>3, Writing
  \* A copy that passes CheckCanEdit is a draft: it is not a copy of this row.
  <2>3. ~Draft(req'[w], s)
    <3>1. CASE EditReadDeadline(w) \/ EditCheck(w) \/ SubmitCheck(w) \/ Submit(w)
      <4>1. req'[w].id = req[w].id
        BY <1>1, <3>1, CheckingKeepsRow
      <4>2. CASE EditReadDeadline(w)
        <5>1. req[w].pc = "edit" /\ req'[w].pc = "check" /\ req'[w].sub = req[w].sub
          BY <1>1, <4>2, CheckingKeepsRow DEF EditReadDeadline
        <5>2. QED
          BY <1>2, <4>1, <5>1 DEF Draft
      <4>3. CASE EditCheck(w) \/ SubmitCheck(w) \/ Submit(w)
        BY <1>2, <4>1, <4>3 DEF EditCheck, SubmitCheck, Submit, CanEdit, Draft
      <4>4. QED
        BY <3>1, <4>2, <4>3
    <3>2. CASE EditLoad(w)
      BY <1>1, <3>2 DEF EditLoad, TypeOK, Draft, Idle
    <3>3. CASE ~(EditReadDeadline(w) \/ EditCheck(w) \/ SubmitCheck(w) \/ Submit(w)
                 \/ EditLoad(w))
      <4>1. req'[w].pc \notin {"stamp", "write", "edit", "check"}
        BY <1>1, <1>4, <3>3, Serving DEF Served, Held, Idle
      <4>2. QED
        BY <4>1 DEF Draft
    <3>4. QED
      BY <3>1, <3>2, <3>3
  <2>4. \A v \in Workers : ~Draft(req'[v], s)
    BY <1>1, <1>2, <1>4, <2>3, Serving
  <2>5. QED
    BY <1>3, <2>1, <2>2, <2>4
<1>5. CASE Tick \/ OrganizerPatch \/ JoinTeam \/ UNCHANGED vars
  <2>1. submission' = submission /\ req' = req
    BY <1>5 DEF Tick, OrganizerPatch, JoinTeam, vars
  <2>2. QED
    BY <1>1, <1>2, <1>3, <2>1 DEF Saved, Spared
<1>6. QED
  BY <1>4, <1>5 DEF Next

\* Once a row is no longer a draft and nobody holds a draft copy of it, no
\* edit or submit changes it again, and only a disqualification in flight can.
THEOREM LockedRowsStayLocked == Spec => LockedStaysLocked
<1>1. IInv /\ [Next]_vars =>
        [\A s \in SubIds : Locked(s) =>
            /\ Locked(s)'
            /\ submission'[s] # submission[s] =>
                 \E w \in Workers : req[w].pc = "disqualify" /\ req[w].id = s]_vars
  BY LockedStep DEF Spared
<1>2. QED
  BY <1>1, Inductive, PTL DEF Spec, LockedStaysLocked

---------------------------------------------------------------------------
(* The life cycle of a submission, and the writes that leave it *)

\* What a request that no write has overtaken holds is what the table says, up
\* to the change it is about to make.
Fresh(q) ==
    /\ q.pc \in {"edit", "check", "stamp"} => q.sub = submission[q.id]
    /\ q.pc = "write" =>
          /\ submission[q.id].status = "draft"
          /\ \/ q.sub.status = "draft"
             \/ q.sub.status = "submitted" /\ q.sub.text = submission[q.id].text
    /\ q.pc = "disqualify" => q.sub.text = submission[q.id].text

FreshUnlessOvertaken == \A w \in Workers \ overtaken : Fresh(req[w])

\* A step of w leaves the others' requests fresh, or overtakes them.
LEMMA OthersStayFresh ==
    ASSUME IInv, FreshUnlessOvertaken, NEW w \in Workers, Step(w),
           NEW v \in Workers \ {w}, v \notin overtaken'
    PROVE  Fresh(req[v])'
<1>1. /\ TypeOK /\ req[v] \in Request /\ req'[v] = req[v]
      /\ req[v].id # None => req[v].id \in Saved
  BY Serving DEF IInv, TypeOK, RequestsGood, GoodRequest
<1>2. req[v].pc \in {"edit", "check", "stamp", "write", "disqualify"} => req[v].id \in Saved
  BY <1>1, RequestHasFields, NoneIsNoValue
<1>3. CASE submission' = submission /\ ~EditWrite(w) /\ ~DisqualifyWrite(w)
  <2>1. v \notin overtaken
    BY <1>3
       DEF Step, CreateCheck, CreateFindTeam, CreateSave, EditLoad, EditReadDeadline,
           EditCheck, SubmitCheck, Submit, DisqualifyLoad, DisqualifyAudit, Fail
  <2>2. QED
    BY <1>1, <1>3, <2>1 DEF FreshUnlessOvertaken, Fresh
<1>4. CASE CreateSave(w)
  <2>1. v \notin overtaken
    BY <1>4 DEF CreateSave
  <2>2. \A s \in Saved : submission'[s] = submission[s]
    BY <1>1, <1>4 DEF CreateSave, TypeOK
  <2>3. QED
    BY <1>1, <1>2, <2>1, <2>2 DEF FreshUnlessOvertaken, Fresh
<1>5. CASE EditWrite(w) \/ DisqualifyWrite(w)
  <2>1. v \notin overtaken /\ req[v].id # req[w].id
    BY <1>5 DEF EditWrite, DisqualifyWrite, Others
  <2>2. \A s \in Saved \ {req[w].id} : submission'[s] = submission[s]
    BY <1>1, <1>5, Writing DEF EditWrite, DisqualifyWrite, CreateSave, TypeOK, Saved
  <2>3. QED
    BY <1>1, <1>2, <2>1, <2>2 DEF FreshUnlessOvertaken, Fresh
<1>6. QED
  BY <1>1, <1>3, <1>4, <1>5, Writing

\* A step of w itself keeps what w holds fresh.
LEMMA ServedIsFresh ==
    ASSUME IInv, FreshUnlessOvertaken, NEW w \in Workers, Step(w), w \notin overtaken'
    PROVE  Fresh(req[w])'
<1>1. /\ TypeOK /\ req[w] \in Request /\ GoodRequest(req[w])
      /\ \A s \in Saved : submission[s] \in Row
  BY SavedRow DEF IInv, TypeOK, RequestsGood
<1>2. req[w].pc \notin {"idle", "team"} => req[w].sub \in Row
  BY <1>1, RequestHasFields
<1>3. CASE req'[w].pc \in {"idle", "team", "save", "audit"}
  BY <1>3 DEF Fresh
<1>4. CASE EditLoad(w) /\ \E u \in Users, s \in Saved :
             req'[w] \in Held("edit", u, s, submission[s], None)
  BY <1>4 DEF EditLoad, Held, Fresh
<1>5. ASSUME EditReadDeadline(w) \/ EditCheck(w) \/ SubmitCheck(w) \/ Submit(w)
      PROVE  /\ submission' = submission /\ req[w].pc \in {"edit", "check", "stamp"}
             /\ req[w].sub = submission[req[w].id]
  BY <1>5 DEF EditReadDeadline, EditCheck, SubmitCheck, Submit, FreshUnlessOvertaken, Fresh
<1>6. CASE EditReadDeadline(w) /\
             req'[w] \in Held("check", req[w].user, req[w].id, req[w].sub, deadline)
  BY <1>5, <1>6 DEF Held, Fresh
<1>7. CASE EditCheck(w) /\ \E text \in Texts :
             req'[w] \in Held("write", req[w].user, req[w].id, Revised(req[w].sub, text), None)
  <2>1. req[w].sub.status = "draft"
    BY <1>7 DEF EditCheck, CanEdit
  <2>2. PICK sub \in Row : /\ req'[w] \in Held("write", req[w].user, req[w].id, sub, None)
                           /\ sub.status = "draft"
    BY <1>2, <1>5, <1>7, <2>1, RevisedIsRow
  <2>3. QED
    BY <1>5, <1>7, <2>1, <2>2 DEF Held, Fresh
<1>8. CASE SubmitCheck(w) /\
             req'[w] \in Held("stamp", req[w].user, req[w].id, req[w].sub, None)
  BY <1>5, <1>8 DEF Held, Fresh
<1>9. CASE Submit(w) /\
             req'[w] \in Held("write", req[w].user, req[w].id, Stamped(req[w].sub, now), None)
  <2>1. req[w].sub.status = "draft" /\ now \in Times
    BY <1>1, <1>9 DEF Submit, GoodRequest, TypeOK
  <2>2. PICK sub \in Row : /\ req'[w] \in Held("write", req[w].user, req[w].id, sub, None)
                           /\ sub.status = "submitted" /\ sub.text = req[w].sub.text
    BY <1>2, <1>5, <1>9, <2>1, StampedIsRow
  <2>3. QED
    BY <1>5, <1>9, <2>1, <2>2 DEF Held, Fresh
<1>10. CASE DisqualifyLoad(w) /\ \E u \in Users, s \in Saved :
              req'[w] \in Held("disqualify", u, s, Barred(submission[s]), None)
  <2>1. PICK s \in Saved, u \in Users :
          req'[w] \in Held("disqualify", u, s, Barred(submission[s]), None)
    BY <1>10
  <2>2. Barred(submission[s]).text = submission[s].text
    BY <1>1, <2>1, BarredIsRow
  <2>3. QED
    BY <1>10, <2>1, <2>2 DEF DisqualifyLoad, Held, Fresh
<1>11. QED
  <2>1. Served(w)
    BY <1>1, Serving
  <2>2. CASE req'[w].pc \notin {"idle", "team", "save", "audit"}
    <3>1. ~(\/ req'[w] = Idle
            \/ \E u \in Users : req'[w] \in Held("team", u, None, None, None)
            \/ \E team \in Teams, text \in Texts :
                 req'[w] \in Held("save", req[w].user, None, NewDraftSubmission(team, text), None)
            \/ req'[w] \in Held("audit", req[w].user, req[w].id, req[w].sub, None))
      BY <2>2 DEF Idle, Held
    <3>2. QED
      BY <2>1, <3>1, <1>4, <1>6, <1>7, <1>8, <1>9, <1>10 DEF Served
  <2>3. QED
    BY <2>2, <1>3

\* Every step keeps the requests that are not overtaken fresh.
LEMMA FreshStep == IInv /\ FreshUnlessOvertaken /\ [Next]_vars => FreshUnlessOvertaken'
<1> SUFFICES ASSUME IInv, FreshUnlessOvertaken, [Next]_vars PROVE FreshUnlessOvertaken'
  OBVIOUS
<1>1. ASSUME NEW w \in Workers, Step(w) PROVE FreshUnlessOvertaken'
  BY <1>1, OthersStayFresh, ServedIsFresh DEF FreshUnlessOvertaken
<1>2. CASE Tick \/ OrganizerPatch \/ JoinTeam \/ UNCHANGED vars
  <2>1. submission' = submission /\ req' = req /\ overtaken' = overtaken
    BY <1>2 DEF Tick, OrganizerPatch, JoinTeam, vars
  <2>2. QED
    BY <2>1 DEF FreshUnlessOvertaken, Fresh
<1>3. QED
  BY <1>1, <1>2 DEF Next

\* In every reachable state, the requests that are not overtaken are fresh.
LEMMA AlwaysFresh == Spec => []FreshUnlessOvertaken
<1>1. Init => FreshUnlessOvertaken
  BY DEF Init, FreshUnlessOvertaken, Fresh, Idle
<1>2. QED
  BY <1>1, FreshStep, Inductive, PTL DEF Spec

\* What the life cycle sees of a row that is overwritten.
LEMMA ColumnsAfterWrite ==
    ASSUME TypeOK, NEW w \in Workers, EditWrite(w) \/ DisqualifyWrite(w)
    PROVE  LET s == req[w].id IN
           /\ s \in SubIds /\ req[w].sub \in Row /\ submission[s] \in Row
           /\ Column("status")[s] = submission[s].status
           /\ Column("text")[s] = submission[s].text
           /\ Column("status")' = [Column("status") EXCEPT ![s] = req[w].sub.status]
           /\ Column("text")' = [Column("text") EXCEPT ![s] = req[w].sub.text]
<1> DEFINE i == req[w].id
<1>1. Step(w) /\ ~CreateSave(w)
  BY DEF Step, EditWrite, DisqualifyWrite, CreateSave
<1>2. /\ i \in Saved /\ i \in SubIds /\ req[w].sub \in Row /\ submission[i] \in Row
      /\ submission' = [submission EXCEPT ![i] = Overwrite(submission[i], req[w].sub)]
  BY <1>1, Writing DEF Saved
<1> HIDE DEF i
<1>3. /\ submission'[i] \in Row
      /\ submission'[i].status = req[w].sub.status /\ submission'[i].text = req[w].sub.text
      /\ \A s \in SubIds \ {i} : submission'[s] = submission[s]
  BY <1>2, OverwriteIsRow DEF TypeOK
<1>4. submission[i] # None /\ submission'[i] # None
  BY <1>2, <1>3, NoneIsNoValue
<1>5. \A s \in SubIds :
        /\ (IF submission'[s] = None THEN None ELSE submission'[s].status) =
              IF s = i THEN req[w].sub.status
              ELSE IF submission[s] = None THEN None ELSE submission[s].status
        /\ (IF submission'[s] = None THEN None ELSE submission'[s].text) =
              IF s = i THEN req[w].sub.text
              ELSE IF submission[s] = None THEN None ELSE submission[s].text
  BY <1>3, <1>4
<1>6. /\ Column("status")[i] = submission[i].status
      /\ Column("text")[i] = submission[i].text
  BY <1>2, <1>4 DEF Column
<1>7. Column("status")' = [Column("status") EXCEPT ![i] = req[w].sub.status]
  BY <1>5 DEF Column
<1>8. Column("text")' = [Column("text") EXCEPT ![i] = req[w].sub.text]
  BY <1>5 DEF Column
<1>9. QED
  BY <1>2, <1>6, <1>7, <1>8 DEF i

\* Every step is one of the life cycle, a lost update, or changes no column.
LEMMA StepFollowsLifecycle ==
    ASSUME IInv, FreshUnlessOvertaken, [Next]_vars
    PROVE  Lifecycle!Next \/ LostUpdate \/ UNCHANGED <<Column("status"), Column("text")>>
<1> DEFINE st == Column("status")
           tx == Column("text")
<1> USE NoneIsNoValue
<1>1. TypeOK /\ RequestsGood
  BY DEF IInv
<1>2. ASSUME NEW w \in Workers, CreateSave(w) PROVE Lifecycle!Next
  <2>1. PICK s \in SubIds \ Saved : submission' = [submission EXCEPT ![s] = req[w].sub]
    BY <1>2 DEF CreateSave
  <2>2. req[w].sub \in Row /\ req[w].sub.status = "draft" /\ req[w].sub.text \in Texts
    BY <1>1, <1>2, RequestHasFields
       DEF CreateSave, TypeOK, Row, RequestsGood, GoodRequest
  <2>3. st[s] = None
    BY <2>1 DEF Column, Saved
  <2>4. /\ st' = [st EXCEPT ![s] = "draft"]
        /\ tx' = [tx EXCEPT ![s] = req[w].sub.text]
    BY <1>1, <2>1, <2>2 DEF Column, TypeOK
  <2>5. Lifecycle!Create(s)
    BY <2>2, <2>3, <2>4 DEF Lifecycle!Create
  <2>6. QED
    BY <2>5 DEF Lifecycle!Next
\* Whoever holds the row as it is writes a new text into a draft, or hands the
\* draft in.
<1>3. ASSUME NEW w \in Workers \ overtaken, EditWrite(w) PROVE Lifecycle!Next
  <2> DEFINE s == req[w].id
  <2>1. /\ s \in SubIds /\ st[s] = "draft" /\ req[w].sub.text \in Texts
        /\ \/ req[w].sub.status = "draft"
           \/ req[w].sub.status = "submitted" /\ req[w].sub.text = tx[s]
        /\ st' = [st EXCEPT ![s] = req[w].sub.status]
        /\ tx' = [tx EXCEPT ![s] = req[w].sub.text]
    <3>1. Fresh(req[w]) /\ req[w].pc = "write"
      BY <1>3 DEF EditWrite, FreshUnlessOvertaken
    <3>2. QED
      BY <1>1, <1>3, <3>1, ColumnsAfterWrite DEF Fresh, Row
  <2>2. CASE req[w].sub.status = "draft"
    <3>1. st' = st
      BY <2>1, <2>2 DEF Column
    <3>2. Lifecycle!Edit(s)
      BY <2>1, <3>1 DEF Lifecycle!Edit
    <3>3. QED
      BY <2>1, <3>2 DEF Lifecycle!Next
  <2>3. CASE req[w].sub.status = "submitted" /\ req[w].sub.text = tx[s]
    <3>1. tx' = tx
      BY <2>1, <2>3 DEF Column
    <3>2. Lifecycle!HandIn(s)
      BY <2>1, <2>3, <3>1 DEF Lifecycle!HandIn
    <3>3. QED
      BY <2>1, <3>2 DEF Lifecycle!Next
  <2>4. QED
    BY <2>1, <2>2, <2>3
\* Whoever disqualifies the row as it is keeps its text.
<1>4. ASSUME NEW w \in Workers \ overtaken, DisqualifyWrite(w)
      PROVE  Lifecycle!Next \/ (st' = st /\ tx' = tx)
  <2> DEFINE s == req[w].id
  <2>1. /\ s \in SubIds /\ st[s] \in SubStatuses
        /\ st' = [st EXCEPT ![s] = "disqualified"]
        /\ tx' = [tx EXCEPT ![s] = tx[s]]
    <3>1. /\ Fresh(req[w]) /\ GoodRequest(req[w]) /\ req[w].pc = "disqualify"
      BY <1>1, <1>4 DEF DisqualifyWrite, FreshUnlessOvertaken, RequestsGood
    <3>2. QED
      BY <1>1, <1>4, <3>1, ColumnsAfterWrite DEF Fresh, GoodRequest, Row
  <2>2. tx' = tx
    BY <2>1 DEF Column
  <2>3. CASE st[s] = "disqualified"
    BY <2>1, <2>2, <2>3 DEF Column
  <2>4. CASE st[s] \in {"draft", "submitted"}
    <3>1. Lifecycle!Disqualify(s)
      BY <2>1, <2>2, <2>4 DEF Lifecycle!Disqualify
    <3>2. QED
      BY <2>1, <3>1 DEF Lifecycle!Next
  <2>5. QED
    BY <2>1, <2>3, <2>4 DEF SubStatuses
<1>5. ASSUME NEW w \in overtaken, EditWrite(w) \/ DisqualifyWrite(w) PROVE LostUpdate
  BY <1>5 DEF LostUpdate
<1>6. CASE submission' = submission
  BY <1>6 DEF Column
<1>7. ASSUME NEW w \in Workers, Step(w)
      PROVE  Lifecycle!Next \/ LostUpdate \/ UNCHANGED <<st, tx>>
  BY <1>1, <1>2, <1>3, <1>4, <1>5, <1>6, <1>7, Writing
<1>8. QED
  BY <1>6, <1>7 DEF Next, Tick, OrganizerPatch, JoinTeam, vars

\* However many requests overlap, crash or fail, a submission follows its life
\* cycle: only a write of a row another request has changed since it was
\* loaded leaves it, as in the run submissions_unlocked.
THEOREM RequestsFollowLifecycle == Spec => FollowsLifecycle
<1>1. Init => Lifecycle!Init
  BY DEF Init, Lifecycle!Init, Column
<1>2. IInv /\ FreshUnlessOvertaken /\ [Next]_vars =>
        [Lifecycle!Next \/ LostUpdate]_<<Column("status"), Column("text")>>
  BY StepFollowsLifecycle
<1>3. QED
  BY <1>1, <1>2, AlwaysFresh, Inductive, PTL DEF Spec, FollowsLifecycle
=============================================================================
