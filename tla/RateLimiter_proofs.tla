------------------------- MODULE RateLimiter_proofs -------------------------
(* Theorems about RateLimiter, for any number of requests and keys, any      *)
(* limit and any window.                                                     *)
(*                                                                           *)
(* The argument: a transaction trims and expires by times that are never     *)
(* later than the clock, so every counted request of the window that ends    *)
(* now is in the sorted set of its key (InSet); and whatever is in the set   *)
(* is a counted request of that key.  The two properties compare the set the *)
(* transaction counts with the window from either side.                      *)
EXTENDS RateLimiter, FiniteSetTheorems, TLAPS

\* A request that has arrived: its key, its time, and a member of that time.
Arrived(r) ==
    outcome[r] # "new" =>
        /\ target[r] \in Keys /\ arrived[r] <= clock
        /\ outcome[member[r]] # "new" /\ arrived[member[r]] = arrived[r]

\* A counted request is in its key's set for as long as it is in the window.
InSet(r) ==
    /\ outcome[r] # "new"
    /\ arrived[r] + Window <= expiry[target[r]]
    /\ arrived[r] > clock - Window => member[r] \in zset[target[r]]

IInv ==
    /\ TypeOK
    /\ \A r \in Requests : Arrived(r)
    /\ \A r \in counted : InSet(r)
    /\ \A k \in Keys : expiry[k] <= clock + Window

---------------------------------------------------------------------------
(* Numbers and sets *)

LEMMA Numbers ==
    ASSUME TypeOK
    PROVE  /\ Limit \in Int /\ Window \in Int /\ Horizon \in Int /\ Window > 0
           /\ clock \in Int /\ clock >= 0 /\ clock <= Horizon
           /\ \A r \in Requests : arrived[r] \in Int
           /\ \A k \in Keys : expiry[k] \in Int
BY NumbersAreNat DEF TypeOK, Times

\* Every set of requests is finite, and a smaller one has a smaller count.
LEMMA SubsetsCount ==
    ASSUME NEW A \in SUBSET Requests, NEW B \in SUBSET A
    PROVE  Cardinality(A) \in Nat /\ Cardinality(B) \in Nat /\ Cardinality(B) <= Cardinality(A)
<1>1. IsFiniteSet(A)
  BY RequestsFinite, FS_Subset
<1>2. IsFiniteSet(B) /\ Cardinality(B) <= Cardinality(A)
  BY <1>1, FS_Subset
<1>3. QED
  BY <1>1, <1>2, FS_CardinalityType

\* An entry of a set is a counted request of its key, and of its time.
LEMMA EntryIsCounted ==
    ASSUME IInv, NEW k \in Keys, NEW m \in zset[k]
    PROVE  \E x \in counted : target[x] = k /\ member[x] = m /\ arrived[x] = arrived[m]
<1>1. PICK x \in counted : target[x] = k /\ member[x] = m
  BY DEF IInv, TypeOK
<1>2. x \in Requests /\ outcome[x] # "new"
  BY <1>1 DEF IInv, TypeOK, InSet
<1>3. arrived[x] = arrived[m]
  BY <1>1, <1>2 DEF IInv, Arrived
<1>4. QED
  BY <1>1, <1>3

---------------------------------------------------------------------------
(* The invariant *)

LEMMA ArriveKeepsInvariant ==
    ASSUME IInv, NEW r \in Requests, Arrive(r)
    PROVE  IInv'
<1>1. /\ outcome[r] = "new"
      /\ outcome' = [outcome EXCEPT ![r] = "waiting"]
      /\ arrived' = [arrived EXCEPT ![r] = clock]
      /\ UNCHANGED <<clock, zset, expiry, counted>>
  BY DEF Arrive
<1>2. PICK k \in Keys : target' = [target EXCEPT ![r] = k]
  BY DEF Arrive
<1>3. PICK m \in {r} \cup {member[q] : q \in {x \in Requests :
                               outcome[x] # "new" /\ arrived[x] = clock}} :
        member' = [member EXCEPT ![r] = m]
  BY DEF Arrive
<1>4. m \in Requests
  BY <1>3 DEF IInv, TypeOK
<1>5. /\ outcome'[r] = "waiting" /\ arrived'[r] = clock
      /\ target'[r] = k /\ member'[r] = m
      /\ \A q \in Requests \ {r} : /\ outcome'[q] = outcome[q] /\ arrived'[q] = arrived[q]
                                   /\ target'[q] = target[q] /\ member'[q] = member[q]
  BY <1>1, <1>2, <1>3 DEF IInv, TypeOK
<1>6. outcome'[m] # "new" /\ arrived'[m] = clock
  <2>1. CASE m = r
    BY <1>5, <2>1
  <2>2. CASE m # r
    <3>1. PICK q \in Requests : outcome[q] # "new" /\ arrived[q] = clock /\ m = member[q]
      BY <1>3, <2>2
    <3>2. outcome[m] # "new" /\ arrived[m] = clock
      BY <3>1 DEF IInv, Arrived
    <3>3. QED
      BY <1>4, <1>5, <2>2, <3>2
  <2>3. QED
    BY <2>1, <2>2
<1>7. r \notin counted
  BY <1>1 DEF IInv, InSet
<1>8. TypeOK'
  <2>1. /\ clock' \in Times /\ arrived' \in [Requests -> Times]
        /\ member' \in [Requests -> Requests] /\ target' \in [Requests -> Keys \cup {None}]
        /\ outcome' \in [Requests -> Outcomes]
        /\ zset' \in [Keys -> SUBSET Requests] /\ counted' \subseteq Requests
        /\ expiry' \in [Keys -> 0..(Horizon + Window)]
    BY <1>1, <1>2, <1>3, <1>4 DEF IInv, TypeOK, Outcomes
  <2>2. ASSUME NEW j \in Keys, NEW y \in zset'[j]
        PROVE  \E x \in counted' : target'[x] = j /\ member'[x] = y
    <3>1. PICK x \in counted : target[x] = j /\ member[x] = y
      BY <1>1, <2>2 DEF IInv, TypeOK
    <3>2. x \in Requests \ {r}
      BY <1>7, <3>1 DEF IInv, TypeOK
    <3>3. QED
      BY <1>1, <1>5, <3>1, <3>2
  <2>3. QED
    BY <2>1, <2>2 DEF TypeOK
<1>9. ASSUME NEW q \in Requests PROVE Arrived(q)'
  <2>1. CASE q = r
    <3>1. clock <= clock
      BY Numbers DEF IInv
    <3>2. QED
      BY <1>1, <1>5, <1>6, <2>1, <3>1 DEF Arrived
  <2>2. CASE q # r
    <3>1. member[q] \in Requests /\ (outcome[q] # "new" => member[q] # r)
      BY <1>1, <2>2 DEF IInv, TypeOK, Arrived
    <3>2. QED
      BY <1>1, <1>5, <2>2, <3>1 DEF IInv, Arrived
  <2>3. QED
    BY <2>1, <2>2
<1>10. ASSUME NEW q \in counted' PROVE InSet(q)'
  <2>1. q \in counted /\ q \in Requests \ {r}
    BY <1>1, <1>7, <1>10 DEF IInv, TypeOK
  <2>2. QED
    BY <1>1, <1>5, <2>1 DEF IInv, InSet
<1>11. \A j \in Keys : expiry'[j] <= clock' + Window
  BY <1>1 DEF IInv
<1>12. QED
  BY <1>8, <1>9, <1>10, <1>11 DEF IInv

\* What a transaction leaves in the set of its key: trimming by an arrival
\* that lies in the past, or a set that has expired, takes no request of the
\* present window.
LEMMA WindowKept ==
    ASSUME IInv, NEW r \in Requests, outcome[r] = "waiting", NEW x \in counted,
           target[x] = target[r], arrived[x] > clock - Window
    PROVE  member[x] \in Recent(target[r], arrived[r])
<1>1. /\ InSet(x) /\ x \in Requests /\ outcome[x] # "new"
      /\ arrived[member[x]] = arrived[x] /\ member[x] \in Requests
  BY DEF IInv, TypeOK, InSet, Arrived
<1>2. target[r] \in Keys /\ arrived[r] <= clock
  BY DEF IInv, Arrived
<1>3. clock < expiry[target[r]]
  BY <1>1, <1>2, Numbers DEF IInv, InSet
<1>4. arrived[member[x]] > arrived[r] - Window
  BY <1>1, <1>2, Numbers DEF IInv
<1>5. member[x] \in zset[target[r]]
  BY <1>1 DEF InSet
<1>6. QED
  BY <1>3, <1>4, <1>5 DEF Recent, Live

LEMMA ExecuteKeepsInvariant ==
    ASSUME IInv, NEW r \in Requests, Execute(r)
    PROVE  IInv'
<1> DEFINE k == target[r]
           members == Recent(k, arrived[r]) \cup {member[r]}
<1>1. /\ outcome[r] = "waiting"
      /\ zset' = [zset EXCEPT ![k] = members]
      /\ expiry' = [expiry EXCEPT ![k] = clock + Window]
      /\ counted' = counted \cup {r}
      /\ UNCHANGED <<clock, arrived, member, target>>
  BY DEF Execute, ExpireAt
<1>2. PICK v \in {"admitted", "refused", "failed"} : outcome' = [outcome EXCEPT ![r] = v]
  BY DEF Execute, Verdict
<1>3. /\ \A q \in Requests : outcome'[q] # "new" <=> outcome[q] # "new"
      /\ outcome'[r] # "new" /\ outcome' \in [Requests -> Outcomes]
  BY <1>1, <1>2 DEF IInv, TypeOK, Outcomes
<1>4. k \in Keys /\ arrived[r] <= clock /\ member[r] \in Requests
  BY <1>1 DEF IInv, TypeOK, Arrived
<1>5. Recent(k, arrived[r]) \subseteq zset[k]
  BY DEF Recent, Live
<1>6. /\ zset'[k] = members /\ expiry'[k] = clock + Window
      /\ \A j \in Keys \ {k} : zset'[j] = zset[j] /\ expiry'[j] = expiry[j]
  BY <1>1, <1>4 DEF IInv, TypeOK
<1>7. TypeOK'
  <2>1. members \in SUBSET Requests /\ zset' \in [Keys -> SUBSET Requests]
    BY <1>1, <1>4, <1>5 DEF IInv, TypeOK
  <2>2. clock + Window \in 0..(Horizon + Window)
    BY Numbers DEF IInv
  <2>3. expiry' \in [Keys -> 0..(Horizon + Window)]
    BY <1>1, <2>2 DEF IInv, TypeOK
  <2>4. ASSUME NEW j \in Keys, NEW y \in zset'[j]
        PROVE  \E x \in counted' : target'[x] = j /\ member'[x] = y
    <3>1. CASE j = k /\ y = member[r]
      BY <1>1, <3>1
    <3>2. CASE ~(j = k /\ y = member[r])
      <4>1. y \in zset[j]
        BY <1>5, <1>6, <2>4, <3>2
      <4>2. PICK x \in counted : target[x] = j /\ member[x] = y
        BY <4>1 DEF IInv, TypeOK
      <4>3. QED
        BY <1>1, <4>2
    <3>3. QED
      BY <3>1, <3>2
  <2>5. /\ clock' \in Times /\ arrived' \in [Requests -> Times]
        /\ member' \in [Requests -> Requests] /\ target' \in [Requests -> Keys \cup {None}]
        /\ counted' \subseteq Requests
    BY <1>1 DEF IInv, TypeOK
  <2>6. QED
    BY <1>3, <2>1, <2>3, <2>4, <2>5 DEF TypeOK
<1>8. \A q \in Requests : Arrived(q)'
  <2>1. \A q \in Requests : member[q] \in Requests
    BY DEF IInv, TypeOK
  <2>2. QED
    BY <1>1, <1>3, <2>1 DEF IInv, Arrived
<1>9. ASSUME NEW q \in counted' PROVE InSet(q)'
  <2>1. q \in Requests /\ (q \in counted \/ q = r)
    BY <1>1, <1>9 DEF IInv, TypeOK
  <2>2. outcome'[q] # "new"
    BY <1>3, <2>1 DEF IInv, InSet
  <2>3. CASE target[q] = k
    <3>1. arrived[q] + Window <= expiry'[k]
      <4>1. arrived[q] <= clock
        BY <1>3, <2>1, <2>2 DEF IInv, Arrived
      <4>2. QED
        BY <1>6, <2>1, <4>1, Numbers DEF IInv
    <3>2. arrived[q] > clock - Window => member[q] \in members
      BY <1>1, <2>1, <2>3, WindowKept
    <3> HIDE DEF members
    <3>3. QED
      BY <1>1, <1>6, <2>2, <2>3, <3>1, <3>2 DEF InSet
  <2>4. CASE target[q] # k
    <3>1. q \in counted /\ target[q] \in Keys \ {k}
      BY <2>1, <2>4 DEF IInv, InSet, Arrived
    <3>2. QED
      BY <1>1, <1>6, <2>2, <3>1 DEF IInv, InSet
  <2>5. QED
    BY <2>3, <2>4
<1>10. \A j \in Keys : expiry'[j] <= clock' + Window
  BY <1>1, <1>6, Numbers DEF IInv
<1>11. QED
  BY <1>7, <1>8, <1>9, <1>10 DEF IInv

LEMMA FailKeepsInvariant ==
    ASSUME IInv, NEW r \in Requests, Fail(r)
    PROVE  IInv'
<1>1. /\ outcome[r] = "waiting" /\ outcome' = [outcome EXCEPT ![r] = "failed"]
      /\ UNCHANGED <<clock, arrived, member, target, zset, expiry, counted>>
  BY DEF Fail
<1>2. /\ \A q \in Requests : outcome'[q] # "new" <=> outcome[q] # "new"
      /\ outcome' \in [Requests -> Outcomes]
  BY <1>1 DEF IInv, TypeOK, Outcomes
<1>3. TypeOK'
  BY <1>1, <1>2 DEF IInv, TypeOK
<1>4. \A q \in Requests : Arrived(q)'
  <2>1. \A q \in Requests : member[q] \in Requests
    BY DEF IInv, TypeOK
  <2>2. QED
    BY <1>1, <1>2, <2>1 DEF IInv, Arrived
<1>5. \A q \in counted' : InSet(q)'
  <2>1. counted \subseteq Requests
    BY DEF IInv, TypeOK
  <2>2. QED
    BY <1>1, <1>2, <2>1 DEF IInv, InSet
<1>6. QED
  BY <1>1, <1>3, <1>4, <1>5 DEF IInv

LEMMA TickKeepsInvariant ==
    ASSUME IInv, Tick \/ UNCHANGED vars
    PROVE  IInv'
<1>1. /\ UNCHANGED <<arrived, member, target, outcome, zset, expiry, counted>>
      /\ clock' \in Times /\ clock <= clock'
  <2>1. CASE Tick
    <3>1. /\ UNCHANGED <<arrived, member, target, outcome, zset, expiry, counted>>
          /\ clock' = IF clock < Horizon THEN clock + 1 ELSE clock
      BY <2>1 DEF Tick
    <3>2. QED
      BY <3>1, Numbers DEF IInv, Times
  <2>2. CASE UNCHANGED vars
    BY <2>2, Numbers DEF vars, IInv, TypeOK
  <2>3. QED
    BY <2>1, <2>2
<1>2. clock' \in Int /\ clock' > clock - 1
  BY <1>1, Numbers DEF IInv, Times
<1>3. TypeOK'
  BY <1>1 DEF IInv, TypeOK
<1>4. \A q \in Requests : Arrived(q)'
  BY <1>1, <1>2, Numbers DEF IInv, Arrived
<1>5. ASSUME NEW q \in counted' PROVE InSet(q)'
  <2>1. q \in counted /\ q \in Requests /\ InSet(q)
    BY <1>1, <1>5 DEF IInv, TypeOK
  <2>2. arrived[q] > clock' - Window => arrived[q] > clock - Window
    BY <1>1, <1>2, <2>1, Numbers DEF IInv
  <2>3. QED
    BY <1>1, <2>1, <2>2 DEF InSet
<1>6. \A k \in Keys : expiry'[k] <= clock' + Window
  BY <1>1, <1>2, Numbers DEF IInv
<1>7. QED
  BY <1>3, <1>4, <1>5, <1>6 DEF IInv

LEMMA InitInvariant == Init => IInv
<1> SUFFICES ASSUME Init PROVE IInv
  OBVIOUS
<1>1. 0 \in Times /\ 0 \in 0..(Horizon + Window) /\ 0 <= 0 + Window
  BY NumbersAreNat DEF Times
<1>2. TypeOK
  BY <1>1 DEF Init, TypeOK, Outcomes
<1>3. QED
  BY <1>1, <1>2 DEF Init, IInv, Arrived, InSet

LEMMA NextInvariant == IInv /\ [Next]_vars => IInv'
<1> SUFFICES ASSUME IInv, [Next]_vars PROVE IInv'
  OBVIOUS
<1>1. QED
  BY ArriveKeepsInvariant, ExecuteKeepsInvariant, FailKeepsInvariant, TickKeepsInvariant
     DEF Next

\* The inductive invariant: types, and every counted request of the window
\* that ends now is in the sorted set of its key.
THEOREM Inductive == Spec => []IInv
BY InitInvariant, NextInvariant, PTL DEF Spec

\* The sorted sets, their expiry and the requests keep their types.
THEOREM TypeCorrect == Spec => []TypeOK
<1>1. IInv => TypeOK
  BY DEF IInv
<1>2. QED
  BY <1>1, Inductive, PTL

---------------------------------------------------------------------------
(* What the transaction counts *)

\* A verdict is the count of a transaction.
LEMMA VerdictCounts ==
    ASSUME IInv, [Next]_vars, NEW r \in Requests, outcome[r] = "waiting",
           outcome'[r] \in {"admitted", "refused"}
    PROVE  /\ Execute(r)
           /\ outcome'[r] = Verdict(Cardinality(Recent(target[r], arrived[r]) \cup {member[r]}))
<1>1. ~(Tick \/ UNCHANGED vars)
  BY DEF Tick, vars
<1>2. PICK q \in Requests : Arrive(q) \/ Execute(q) \/ Fail(q)
  BY <1>1 DEF Next
<1>3. q = r
  BY <1>2 DEF Arrive, Execute, Fail, IInv, TypeOK
<1>4. Execute(r)
  BY <1>2, <1>3 DEF Arrive, Fail, IInv, TypeOK
<1>5. QED
  BY <1>4 DEF Execute, IInv, TypeOK

LEMMA AdmittedStep ==
    ASSUME IInv, [Next]_vars, NEW r \in Requests, outcome[r] = "waiting",
           outcome'[r] = "admitted"
    PROVE  Cardinality(CountedSince(target[r], clock - Window)') <= Limit
<1> DEFINE members == Recent(target[r], arrived[r]) \cup {member[r]}
           window == CountedSince(target[r], clock - Window)'
<1>1. Execute(r) /\ outcome'[r] = Verdict(Cardinality(members))
  BY VerdictCounts
<1>2. /\ counted' = counted \cup {r}
      /\ UNCHANGED <<clock, arrived, member, target>>
  BY <1>1 DEF Execute
<1>3. window \subseteq members
  <2>1. SUFFICES ASSUME NEW m \in window PROVE m \in members
    OBVIOUS
  <2>2. PICK x \in counted \cup {r} :
          target[x] = target[r] /\ arrived[x] > clock - Window /\ m = member[x]
    BY <1>2 DEF CountedSince
  <2>3. QED
    BY <2>2, WindowKept
<1>4. members \subseteq Requests
  BY DEF Recent, Live, IInv, TypeOK, Arrived
<1>5. Cardinality(members) \in Nat /\ Cardinality(window) \in Nat
      /\ Cardinality(window) <= Cardinality(members)
  BY <1>3, <1>4, SubsetsCount
<1>6. ~(Cardinality(members) > Limit)
  BY <1>1 DEF Verdict
<1> HIDE DEF members, window
<1>7. Cardinality(window) <= Limit
  BY <1>5, <1>6, Numbers DEF IInv
<1>8. QED
  BY <1>7 DEF window

\* Nobody is let through beyond the limit of the window that ends now.
THEOREM AdmissionsAreLimited == Spec => AdmittedWithinLimit
<1>1. IInv /\ [Next]_vars =>
        [\A r \in Requests : outcome[r] = "waiting" /\ outcome'[r] = "admitted" =>
           Cardinality(CountedSince(target[r], clock - Window)') <= Limit]_vars
  BY AdmittedStep
<1>2. QED
  BY <1>1, Inductive, PTL DEF Spec, AdmittedWithinLimit

LEMMA RefusedStep ==
    ASSUME IInv, [Next]_vars, NEW r \in Requests, outcome[r] = "waiting",
           outcome'[r] = "refused"
    PROVE  Cardinality(CountedSince(target[r], arrived[r] - Window)') > Limit
<1> DEFINE members == Recent(target[r], arrived[r]) \cup {member[r]}
           window == CountedSince(target[r], arrived[r] - Window)'
<1>1. Execute(r) /\ outcome'[r] = Verdict(Cardinality(members))
  BY VerdictCounts
<1>2. /\ counted' = counted \cup {r}
      /\ UNCHANGED <<clock, arrived, member, target>>
  BY <1>1 DEF Execute
<1>3. target[r] \in Keys
  BY DEF IInv, Arrived
<1>4. members \subseteq window
  <2>1. SUFFICES ASSUME NEW m \in members PROVE m \in window
    OBVIOUS
  <2>2. \E x \in counted \cup {r} :
          target[x] = target[r] /\ arrived[x] > arrived[r] - Window /\ member[x] = m
    <3>1. CASE m = member[r]
      <4>1. arrived[r] > arrived[r] - Window
        BY Numbers DEF IInv
      <4>2. QED
        BY <3>1, <4>1
    <3>2. CASE m # member[r]
      <4>1. m \in zset[target[r]] /\ arrived[m] > arrived[r] - Window
        BY <2>1, <3>2 DEF Recent, Live
      <4>2. PICK x \in counted :
              target[x] = target[r] /\ member[x] = m /\ arrived[x] = arrived[m]
        BY <1>3, <4>1, EntryIsCounted
      <4>3. QED
        BY <4>1, <4>2
    <3>3. QED
      BY <3>1, <3>2
  <2>3. QED
    BY <1>2, <2>2 DEF CountedSince
<1>5. window \subseteq Requests
  BY <1>2 DEF CountedSince, IInv, TypeOK
<1>6. Cardinality(window) \in Nat /\ Cardinality(members) \in Nat
      /\ Cardinality(members) <= Cardinality(window)
  BY <1>4, <1>5, SubsetsCount
<1>7. Cardinality(members) > Limit
  BY <1>1 DEF Verdict
<1> HIDE DEF members, window
<1>8. Cardinality(window) > Limit
  BY <1>6, <1>7, Numbers DEF IInv
<1>9. QED
  BY <1>8 DEF window

\* Nobody is refused by requests that have left the window of their arrival.
THEOREM RefusalsAreDue == Spec => RefusedAtLimit
<1>1. IInv /\ [Next]_vars =>
        [\A r \in Requests : outcome[r] = "waiting" /\ outcome'[r] = "refused" =>
           Cardinality(CountedSince(target[r], arrived[r] - Window)') > Limit]_vars
  BY RefusedStep
<1>2. QED
  BY <1>1, Inductive, PTL DEF Spec, RefusedAtLimit
=============================================================================
