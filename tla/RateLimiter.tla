----------------------------- MODULE RateLimiter -----------------------------
(* The sliding window of middleware/rate_limit.go: one sorted set per path   *)
(* and address, holding the requests of the last window, scored by the time  *)
(* they arrived.                                                             *)
(*                                                                           *)
(* A goroutine reads the clock and then sends one MULTI/EXEC that trims the  *)
(* set, adds the request, counts and sets the set's expiry.  Redis runs the  *)
(* transactions one after another, but in any order and any time later, and  *)
(* the reply may be lost after the transaction ran.                          *)
EXTENDS Integers, FiniteSets

CONSTANTS
    Requests,   \* each is served once
    Keys,       \* "ratelimit:<path>:<address>"
    Limit, Window,
    Horizon,    \* bound: the clock stops here
    None

Times == 0..Horizon

Outcomes == {"new", "waiting", "admitted", "refused", "failed"}

ASSUME RequestsFinite == IsFiniteSet(Requests)
ASSUME NumbersAreNat == Limit \in Nat /\ Window \in Nat \ {0} /\ Horizon \in Nat
ASSUME NoneIsNoKey == None \notin Keys

VARIABLES
    clock,
    arrived,   \* time.Now() in the handler: the score
    member,    \* its UnixNano: the member of the sorted set
    target,    \* the request's key
    outcome,   \* how far each request got
    zset,      \* key -> members
    expiry,    \* key -> when Redis drops it
    counted    \* history: requests whose transaction ran

vars == <<clock, arrived, member, target, outcome, zset, expiry, counted>>

Init ==
    /\ clock = 0
    /\ arrived = [r \in Requests |-> 0]
    /\ member = [r \in Requests |-> r]
    /\ target = [r \in Requests |-> None]
    /\ outcome = [r \in Requests |-> "new"]
    /\ zset = [k \in Keys |-> {}]
    /\ expiry = [k \in Keys |-> 0]
    /\ counted = {}

\* A member of the set is a nanosecond, so two requests of one instant are
\* one member: the second takes the first one's name.
Arrive(r) ==
    /\ outcome[r] = "new"
    /\ outcome' = [outcome EXCEPT ![r] = "waiting"]
    /\ arrived' = [arrived EXCEPT ![r] = clock]
    /\ \E k \in Keys : target' = [target EXCEPT ![r] = k]
    /\ \E m \in {r} \cup {member[q] : q \in {x \in Requests :
                             outcome[x] # "new" /\ arrived[x] = clock}} :
         member' = [member EXCEPT ![r] = m]
    /\ UNCHANGED <<clock, zset, expiry, counted>>

Live(k) == IF clock < expiry[k] THEN zset[k] ELSE {}

\* ZREMRANGEBYSCORE key 0 now-window takes the start of the window away too;
\* mutant: nothing is trimmed.
Recent_All(k, now) == {m \in Live(k) : now \in Times}
Recent(k, now) == {m \in Live(k) : arrived[m] > now - Window}

Verdict(n) == IF n > Limit THEN "refused" ELSE "admitted"

\* EXPIRE counts from when the transaction runs; mutant: from the arrival of
\* the request.
ExpireAt_Early(now) == now + Window
ExpireAt(now) == clock + Window

\* The transaction, and what the handler makes of its reply: without one the
\* request is refused, though it is in the set.
Execute(r) ==
    LET k == target[r]
        members == Recent(k, arrived[r]) \cup {member[r]}
    IN
    /\ outcome[r] = "waiting"
    /\ zset' = [zset EXCEPT ![k] = members]
    /\ expiry' = [expiry EXCEPT ![k] = ExpireAt(arrived[r])]
    /\ counted' = counted \cup {r}
    /\ outcome' \in {[outcome EXCEPT ![r] = v] : v \in {Verdict(Cardinality(members)), "failed"}}
    /\ UNCHANGED <<clock, arrived, member, target>>

\* Redis is not reached: the request is refused and leaves no trace.
Fail(r) ==
    /\ outcome[r] = "waiting"
    /\ outcome' = [outcome EXCEPT ![r] = "failed"]
    /\ UNCHANGED <<clock, arrived, member, target, zset, expiry, counted>>

Tick ==
    /\ clock' = IF clock < Horizon THEN clock + 1 ELSE clock
    /\ UNCHANGED <<arrived, member, target, outcome, zset, expiry, counted>>

Next == (\E r \in Requests : Arrive(r) \/ Execute(r) \/ Fail(r)) \/ Tick

Spec == Init /\ [][Next]_vars

---------------------------------------------------------------------------
(* Properties *)

\* Redis and the requests hold what the code puts there, and an entry of a
\* sorted set is the member of a counted request for that key.
TypeOK ==
    /\ clock \in Times
    /\ arrived \in [Requests -> Times]
    /\ member \in [Requests -> Requests]
    /\ target \in [Requests -> Keys \cup {None}]
    /\ outcome \in [Requests -> Outcomes]
    /\ zset \in [Keys -> SUBSET Requests]
    /\ expiry \in [Keys -> 0..(Horizon + Window)]
    /\ counted \subseteq Requests
    /\ \A k \in Keys : zset[k] \subseteq {member[r] : r \in {x \in counted : target[x] = k}}

\* The requests for k that were counted and arrived after t, as instants.
CountedSince(k, t) == {member[r] : r \in {x \in counted : target[x] = k /\ arrived[x] > t}}

\* Whoever is let through is, at that moment, among at most Limit requests of
\* the window that ends now: neither the trimming of a request that was
\* overtaken or had its clock read long ago, nor the expiry of the whole set,
\* ever forgets a request that is still inside the window.
AdmittedWithinLimit ==
    [][\A r \in Requests : outcome[r] = "waiting" /\ outcome'[r] = "admitted" =>
         Cardinality(CountedSince(target[r], clock - Window)') <= Limit]_vars

\* Whoever is refused for the count, and not because Redis failed, met more
\* than Limit requests of the window that ends at its own arrival: old entries
\* do not count.
RefusedAtLimit ==
    [][\A r \in Requests : outcome[r] = "waiting" /\ outcome'[r] = "refused" =>
         Cardinality(CountedSince(target[r], arrived[r] - Window)') > Limit]_vars
=============================================================================
