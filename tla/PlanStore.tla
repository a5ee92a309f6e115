------------------------------ MODULE PlanStore ------------------------------
(***************************************************************************)
(* The approval of plans: PlanStore of app/planner.py, and with the same   *)
(* steps CertificatePlanStore of app/certificate_sync.py.  A preview       *)
(* stores a plan and answers its id and confirmation token; an apply       *)
(* presents an id and a token.                                             *)
(*                                                                         *)
(* Requests run in threads of their own.  consume() takes the plan out of  *)
(* the store under the lock, whatever token it was given, and looks at the *)
(* token and the expiry after it released the lock; the plans are in       *)
(* memory only, and nothing removes those that expired.                    *)
(***************************************************************************)
EXTENDS Integers

CONSTANTS
    Plans,       \* the plan ids that secrets.token_urlsafe hands out
    Requests,    \* the apply requests
    None,        \* no plan, or an id that was never handed out
    Lifetime,    \* lifetime_seconds, in ticks of the clock
    MaxClock,    \* bound: ticks in a behaviour
    MaxLives     \* bound: times the server is started

ASSUME NoneAssumption == None \notin Plans
ASSUME TimeAssumption == Lifetime \in Nat /\ MaxClock \in Nat /\ MaxLives \in Nat \ {0}

VARIABLES
    clock,     \* datetime.now
    life,      \* the how many-th process this is
    stored,    \* the plan ids in _plans
    issued,    \* the plan ids handed out so far
    expires,   \* Plan.expires_at
    born,      \* the process that created the plan
    pc,        \* where each request is
    asked,     \* the plan id it presents
    right,     \* and whether its token is the plan's
    handed     \* the plan that _plans.pop gave it

store == <<stored, issued, expires, born>>
requests == <<pc, asked, right, handed>>
vars == <<clock, life, store, requests>>

TypeOK ==
    /\ clock \in 0..MaxClock
    /\ life \in 1..MaxLives
    /\ stored \subseteq Plans
    /\ issued \subseteq Plans
    /\ expires \in [Plans -> Nat]
    /\ born \in [Plans -> 0..MaxLives]
    /\ pc \in [Requests -> {"idle", "checking", "approved", "refused", "dead"}]
    /\ asked \in [Requests -> Plans \cup {None}]
    /\ right \in [Requests -> BOOLEAN]
    /\ handed \in [Requests -> Plans \cup {None}]

Init ==
    /\ clock = 0
    /\ life = 1
    /\ stored = {}
    /\ issued = {}
    /\ expires = [p \in Plans |-> 0]
    /\ born = [p \in Plans |-> 0]
    /\ pc = [q \in Requests |-> "idle"]
    /\ asked = [q \in Requests |-> None]
    /\ right = [q \in Requests |-> FALSE]
    /\ handed = [q \in Requests |-> None]

-----------------------------------------------------------------------------
(* Slip: the wrong sign. *)
CreateInThePast(p) ==
    /\ p \notin issued
    /\ issued' = issued \cup {p}
    /\ stored' = stored \cup {p}
    /\ expires' = [expires EXCEPT ![p] = clock - Lifetime]
    /\ born' = [born EXCEPT ![p] = life]
    /\ UNCHANGED <<clock, life, requests>>

(* create(): the plan is stored before its id and token are answered. *)
Create(p) ==
    /\ p \notin issued
    /\ issued' = issued \cup {p}
    /\ stored' = stored \cup {p}
    /\ expires' = [expires EXCEPT ![p] = clock + Lifetime]
    /\ born' = [born EXCEPT ![p] = life]
    /\ UNCHANGED <<clock, life, requests>>

(* Request q presents the id of a plan, or an id that was never handed out. *)
Present(q, p, token) ==
    /\ pc[q] = "idle"
    /\ p \in issued \cup {None}
    /\ asked' = [asked EXCEPT ![q] = p]
    /\ right' = [right EXCEPT ![q] = token]
    /\ UNCHANGED <<clock, life, issued, expires, born>>

(* Slip: looks the plan up and leaves it in the store. *)
LookUpOnly(q, p, token) ==
    /\ Present(q, p, token)
    /\ p \in stored
    /\ handed' = [handed EXCEPT ![q] = p]
    /\ pc' = [pc EXCEPT ![q] = "checking"]
    /\ UNCHANGED stored

(* Slip: a wrong token leaves the plan in the store. *)
TakeIfRight(q, p, token) ==
    /\ Present(q, p, token)
    /\ p \in stored
    /\ handed' = [handed EXCEPT ![q] = p]
    /\ pc' = [pc EXCEPT ![q] = "checking"]
    /\ stored' = IF token THEN stored \ {p} ELSE stored

(* _plans.pop finds the plan. *)
Take(q, p, token) ==
    /\ Present(q, p, token)
    /\ p \in stored
    /\ handed' = [handed EXCEPT ![q] = p]
    /\ pc' = [pc EXCEPT ![q] = "checking"]
    /\ stored' = stored \ {p}

(* It does not. *)
Miss(q, p, token) ==
    /\ Present(q, p, token)
    /\ p \notin stored
    /\ pc' = [pc EXCEPT ![q] = "refused"]
    /\ UNCHANGED <<stored, handed>>

(* Slip: takes the last tick for expired. *)
ExpiredAtTheEnd(p) == expires[p] <= clock

(* Slip: plans never expire. *)
NeverExpired(p) == FALSE

Expired(p) == expires[p] < clock

(* compare_digest, then the expiry. *)
Check(q) ==
    /\ pc[q] = "checking"
    /\ pc' = [pc EXCEPT ![q] =
                IF right[q] /\ ~ Expired(handed[q]) THEN "approved" ELSE "refused"]
    /\ UNCHANGED <<clock, life, store, asked, right, handed>>

Tick ==
    /\ clock < MaxClock
    /\ clock' = clock + 1
    /\ UNCHANGED <<life, store, requests>>

(* The server stops and starts: the plans and the running requests are gone. *)
Restart ==
    /\ life < MaxLives
    /\ life' = life + 1
    /\ stored' = {}
    /\ pc' = [q \in Requests |-> IF pc[q] = "checking" THEN "dead" ELSE pc[q]]
    /\ UNCHANGED <<clock, issued, expires, born, asked, right, handed>>

Next ==
    \/ \E p \in Plans : Create(p)
    \/ \E q \in Requests, p \in Plans \cup {None}, token \in BOOLEAN :
          Take(q, p, token) \/ Miss(q, p, token)
    \/ \E q \in Requests : Check(q)
    \/ Tick
    \/ Restart

Spec == Init /\ [][Next]_vars

-----------------------------------------------------------------------------
(* Two requests are never both approved for one plan, although token and
   expiry are looked at outside the lock. *)
SingleUse ==
    \A q, s \in Requests :
        pc[q] = "approved" /\ pc[s] = "approved" /\ handed[q] = handed[s] => q = s

(* A plan that was presented with a wrong token while it was stored is used
   up: no later or concurrent request with the right token is approved. *)
WrongTokenIsFinal ==
    \A q, s \in Requests :
        handed[q] # None /\ ~ right[q] /\ handed[s] = handed[q] => pc[s] # "approved"

(* A request with the right token is refused for a reason its client can
   know: the plan expired, another request used it, or the server restarted. *)
RefusedForAReason ==
    \A q \in Requests :
        pc[q] = "refused" /\ right[q] /\ asked[q] # None =>
            \/ expires[asked[q]] < clock
            \/ \E s \in Requests \ {q} : handed[s] = asked[q]
            \/ born[asked[q]] < life

(* An approval is given within the lifetime of its plan, and never for a plan
   of an earlier process. *)
ApprovedFresh ==
    \A q \in Requests :
        pc[q] # "approved" /\ pc'[q] = "approved" =>
            clock <= expires[handed[q]] /\ born[handed[q]] = life

ApprovalsAreFresh == [][ApprovedFresh]_vars
=============================================================================
