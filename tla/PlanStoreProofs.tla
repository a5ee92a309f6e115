--------------------------- MODULE PlanStoreProofs ---------------------------
(***************************************************************************)
(* Theorems about module PlanStore, for every number of plans, requests    *)
(* and restarts and every lifetime.                                        *)
(***************************************************************************)
EXTENDS PlanStore, TLAPS

(* The ownership of plans, the strengthening the properties rest on: a plan is
   in the store, or with the one request that took it, or gone with the process
   that created it. *)
TakenLeavesStore ==
    \A q \in Requests :
        handed[q] # None =>
            /\ handed[q] \in issued \ stored
            /\ asked[q] = handed[q]

OneOwner ==
    \A q, s \in Requests : handed[q] # None /\ handed[q] = handed[s] => q = s

StoredIsCurrent == \A p \in stored : p \in issued /\ born[p] = life

NothingVanishes ==
    \A p \in issued :
        \/ p \in stored
        \/ \E q \in Requests : handed[q] = p
        \/ born[p] < life

Progress(q) ==
    /\ asked[q] \in issued \cup {None}
    /\ pc[q] = "idle" => asked[q] = None /\ handed[q] = None
    /\ pc[q] \in {"checking", "approved"} => handed[q] # None
    /\ pc[q] = "checking" => born[handed[q]] = life
    /\ pc[q] = "approved" => right[q]

Ownership ==
    /\ TakenLeavesStore
    /\ OneOwner
    /\ StoredIsCurrent
    /\ NothingVanishes
    /\ \A p \in Plans : born[p] <= life
    /\ \A q \in Requests : Progress(q)

IInv == TypeOK /\ Ownership /\ RefusedForAReason

LEMMA InitIInv == Init => IInv
<1> SUFFICES ASSUME Init PROVE IInv
  OBVIOUS
<1>1. TypeOK
  BY TimeAssumption DEF Init, TypeOK
<1>2. Ownership
  BY NoneAssumption
  DEF Init, Ownership, TakenLeavesStore, OneOwner, StoredIsCurrent, NothingVanishes,
      Progress
<1>3. RefusedForAReason
  BY DEF Init, RefusedForAReason
<1> QED
  BY <1>1, <1>2, <1>3 DEF IInv

LEMMA CreateIInv ==
    ASSUME IInv, NEW p \in Plans, Create(p)
    PROVE  IInv'
<1>a. TypeOK /\ Ownership /\ RefusedForAReason
  BY DEF IInv
<1>1. TypeOK'
  BY <1>a, TimeAssumption DEF Create, TypeOK, requests
<1>2. issued' = issued \cup {p} /\ p \notin issued
  BY DEF Create
<1>3. /\ born'[p] = life /\ \A x \in Plans \ {p} : born'[x] = born[x] /\ expires'[x] = expires[x]
      /\ stored' = stored \cup {p} /\ life' = life /\ clock' = clock
      /\ UNCHANGED <<pc, asked, right, handed>>
  BY <1>a DEF Create, TypeOK, requests
<1>4. \A q \in Requests : handed[q] \in Plans \cup {None} /\ asked[q] \in Plans \cup {None}
  BY <1>a DEF TypeOK
<1>5. \A q \in Requests : handed[q] # p /\ asked[q] # p
  BY <1>a, <1>2, <1>4, NoneAssumption DEF Ownership, TakenLeavesStore, Progress
<1>6. TakenLeavesStore' /\ OneOwner'
  BY <1>a, <1>2, <1>3, <1>5 DEF Ownership, TakenLeavesStore, OneOwner
<1>7. StoredIsCurrent'
  BY <1>a, <1>2, <1>3 DEF Ownership, StoredIsCurrent, TypeOK
<1>8. NothingVanishes'
  BY <1>a, <1>2, <1>3 DEF Ownership, NothingVanishes, TypeOK
<1>9. \A x \in Plans : born'[x] <= life'
  BY <1>a, <1>3 DEF Ownership, TypeOK
<1>10. \A q \in Requests : Progress(q)'
  BY <1>a, <1>2, <1>3, <1>4, <1>5 DEF Ownership, Progress
<1>11. RefusedForAReason'
  BY <1>a, <1>3, <1>4, <1>5 DEF RefusedForAReason
<1> QED
  BY <1>1, <1>6, <1>7, <1>8, <1>9, <1>10, <1>11 DEF IInv, Ownership

LEMMA TakeIInv ==
    ASSUME IInv, NEW q \in Requests, NEW p \in Plans \cup {None}, NEW token \in BOOLEAN,
           Take(q, p, token)
    PROVE  IInv'
<1>a. TypeOK /\ Ownership /\ RefusedForAReason
  BY DEF IInv
<1>b. /\ pc[q] = "idle" /\ handed[q] = None /\ asked[q] = None
      /\ p \in stored /\ p \in Plans /\ p # None
      /\ p \in issued /\ born[p] = life
  BY <1>a, NoneAssumption DEF Take, Present, Ownership, Progress, StoredIsCurrent, TypeOK
<1>1. /\ pc' = [pc EXCEPT ![q] = "checking"] /\ asked' = [asked EXCEPT ![q] = p]
      /\ right' = [right EXCEPT ![q] = token] /\ handed' = [handed EXCEPT ![q] = p]
      /\ stored' = stored \ {p}
      /\ UNCHANGED <<clock, life, issued, expires, born>>
  BY DEF Take, Present
<1>2. TypeOK'
  BY <1>a, <1>b, <1>1 DEF TypeOK
<1>3. /\ pc'[q] = "checking" /\ asked'[q] = p /\ handed'[q] = p
      /\ \A s \in Requests \ {q} : /\ pc'[s] = pc[s] /\ asked'[s] = asked[s]
                                   /\ right'[s] = right[s] /\ handed'[s] = handed[s]
      /\ issued' = issued
  BY <1>a, <1>1 DEF TypeOK
<1>4. \A s \in Requests : handed[s] # p
  BY <1>a, <1>b DEF Ownership, TakenLeavesStore
<1>5. TakenLeavesStore' /\ OneOwner'
  BY <1>a, <1>b, <1>1, <1>3, <1>4 DEF Ownership, TakenLeavesStore, OneOwner
<1>6. StoredIsCurrent'
  BY <1>a, <1>1, <1>3 DEF Ownership, StoredIsCurrent
<1>7. NothingVanishes'
  <2> SUFFICES ASSUME NEW x \in issued
               PROVE  x \in stored' \/ (\E s \in Requests : handed'[s] = x) \/ born[x] < life
    BY <1>1, <1>3 DEF NothingVanishes
  <2>1. CASE x = p
    BY <2>1, <1>3
  <2>2. CASE x \in stored \ {p}
    BY <2>2, <1>1
  <2>3. ASSUME NEW s \in Requests, handed[s] = x
        PROVE  \E t \in Requests : handed'[t] = x
    BY <2>3, <1>b, <1>3, NoneAssumption, <1>a DEF TypeOK
  <2> QED
    BY <1>a, <2>1, <2>2, <2>3 DEF Ownership, NothingVanishes
<1>8. \A x \in Plans : born'[x] <= life'
  BY <1>a, <1>1 DEF Ownership
<1>9. \A s \in Requests : Progress(s)'
  BY <1>a, <1>b, <1>1, <1>3 DEF Ownership, Progress
<1>10. RefusedForAReason'
  <2> SUFFICES ASSUME NEW s \in Requests, pc'[s] = "refused", right'[s], asked'[s] # None
               PROVE  \/ expires[asked'[s]] < clock
                      \/ \E t \in Requests \ {s} : handed'[t] = asked'[s]
                      \/ born[asked'[s]] < life
    BY <1>1 DEF RefusedForAReason
  <2>1. s # q /\ pc[s] = "refused" /\ right[s] /\ asked'[s] = asked[s]
    BY <1>3
  <2>2. ASSUME NEW t \in Requests \ {s}, handed[t] = asked[s] PROVE handed'[t] = asked'[s]
    BY <2>1, <2>2, <1>b, <1>3
  <2> QED
    BY <1>a, <2>1, <2>2 DEF RefusedForAReason
<1> QED
  BY <1>2, <1>5, <1>6, <1>7, <1>8, <1>9, <1>10 DEF IInv, Ownership

LEMMA MissIInv ==
    ASSUME IInv, NEW q \in Requests, NEW p \in Plans \cup {None}, NEW token \in BOOLEAN,
           Miss(q, p, token)
    PROVE  IInv'
<1>a. TypeOK /\ Ownership /\ RefusedForAReason
  BY DEF IInv
<1>b. pc[q] = "idle" /\ handed[q] = None /\ p \in issued \cup {None} /\ p \notin stored
  BY <1>a DEF Miss, Present, Ownership, Progress
<1>1. /\ pc' = [pc EXCEPT ![q] = "refused"] /\ asked' = [asked EXCEPT ![q] = p]
      /\ right' = [right EXCEPT ![q] = token]
      /\ UNCHANGED <<clock, life, issued, expires, born, stored, handed>>
  BY DEF Miss, Present
<1>2. TypeOK'
  BY <1>a, <1>b, <1>1 DEF TypeOK
<1>3. /\ pc'[q] = "refused" /\ asked'[q] = p /\ handed' = handed /\ issued' = issued
      /\ \A s \in Requests \ {q} :
            pc'[s] = pc[s] /\ asked'[s] = asked[s] /\ right'[s] = right[s]
  BY <1>a, <1>1 DEF TypeOK
<1>4. TakenLeavesStore' /\ OneOwner' /\ StoredIsCurrent' /\ NothingVanishes'
  BY <1>a, <1>b, <1>1, <1>3
  DEF Ownership, TakenLeavesStore, OneOwner, StoredIsCurrent, NothingVanishes
<1>5. \A x \in Plans : born'[x] <= life'
  BY <1>a, <1>1 DEF Ownership
<1>6. \A s \in Requests : Progress(s)'
  BY <1>a, <1>b, <1>1, <1>3 DEF Ownership, Progress
<1>7. RefusedForAReason'
  <2>1. p # None => (\E t \in Requests \ {q} : handed[t] = p) \/ born[p] < life
    BY <1>a, <1>b DEF Ownership, NothingVanishes
  <2> QED
    BY <1>a, <1>1, <1>3, <2>1 DEF RefusedForAReason
<1> QED
  BY <1>2, <1>4, <1>5, <1>6, <1>7 DEF IInv, Ownership

LEMMA CheckIInv ==
    ASSUME IInv, NEW q \in Requests, Check(q)
    PROVE  IInv'
<1>a. TypeOK /\ Ownership /\ RefusedForAReason
  BY DEF IInv
<1>b. /\ pc[q] = "checking" /\ handed[q] # None
      /\ asked[q] = handed[q] /\ handed[q] \in Plans
  BY <1>a DEF Check, Ownership, Progress, TakenLeavesStore, TypeOK
<1>1. UNCHANGED <<clock, life, stored, issued, expires, born, asked, right, handed>>
  BY DEF Check, store
<1>2. /\ \/ pc'[q] = "approved" /\ right[q]
         \/ pc'[q] = "refused" /\ (right[q] => Expired(handed[q]))
      /\ \A s \in Requests \ {q} : pc'[s] = pc[s]
      /\ pc' \in [Requests -> {"idle", "checking", "approved", "refused", "dead"}]
  BY <1>a DEF Check, TypeOK
<1>3. TypeOK'
  BY <1>a, <1>1, <1>2 DEF TypeOK
<1>4. TakenLeavesStore' /\ OneOwner' /\ StoredIsCurrent' /\ NothingVanishes'
  BY <1>a, <1>1
  DEF Ownership, TakenLeavesStore, OneOwner, StoredIsCurrent, NothingVanishes
<1>5. \A x \in Plans : born'[x] <= life'
  BY <1>a, <1>1 DEF Ownership
<1>6. \A s \in Requests : Progress(s)'
  BY <1>a, <1>b, <1>1, <1>2 DEF Ownership, Progress
<1>7. RefusedForAReason'
  BY <1>a, <1>b, <1>1, <1>2 DEF RefusedForAReason, Expired
<1> QED
  BY <1>3, <1>4, <1>5, <1>6, <1>7 DEF IInv, Ownership

LEMMA TickIInv ==
    ASSUME IInv, Tick
    PROVE  IInv'
<1>a. TypeOK /\ Ownership /\ RefusedForAReason
  BY DEF IInv
<1>1. UNCHANGED <<life, stored, issued, expires, born, pc, asked, right, handed>>
  BY DEF Tick, store, requests
<1>2. clock' = clock + 1 /\ clock < MaxClock
  BY DEF Tick
<1>3. TypeOK'
  BY <1>a, <1>1, <1>2, TimeAssumption DEF TypeOK
<1>4. Ownership'
  BY <1>a, <1>1
  DEF Ownership, TakenLeavesStore, OneOwner, StoredIsCurrent, NothingVanishes, Progress
<1>5. ASSUME NEW q \in Requests, asked[q] # None, expires[asked[q]] < clock
      PROVE  expires[asked[q]] < clock'
  <2>1. expires[asked[q]] \in Nat /\ clock \in Nat
    BY <1>a, <1>5 DEF TypeOK
  <2> QED
    BY <1>2, <1>5, <2>1
<1>6. RefusedForAReason'
  BY <1>a, <1>1, <1>5 DEF RefusedForAReason
<1> QED
  BY <1>3, <1>4, <1>6 DEF IInv

LEMMA RestartIInv ==
    ASSUME IInv, Restart
    PROVE  IInv'
<1>a. TypeOK /\ Ownership /\ RefusedForAReason
  BY DEF IInv
<1>1. /\ UNCHANGED <<clock, issued, expires, born, asked, right, handed>>
      /\ life' = life + 1 /\ life < MaxLives /\ stored' = {}
  BY DEF Restart
<1>2. /\ pc' \in [Requests -> {"idle", "checking", "approved", "refused", "dead"}]
      /\ \A q \in Requests :
            \/ pc[q] = "checking" /\ pc'[q] = "dead"
            \/ pc[q] # "checking" /\ pc'[q] = pc[q]
  BY <1>a DEF Restart, TypeOK
<1>3. TypeOK'
  BY <1>a, <1>1, <1>2, TimeAssumption DEF TypeOK
<1>4. \A x \in Plans : born[x] < life'
  <2>1. \A x \in Plans : born[x] \in Int /\ life \in Int /\ born[x] <= life
    BY <1>a, TimeAssumption DEF Ownership, TypeOK
  <2> QED
    BY <1>1, <2>1
<1>5. /\ TakenLeavesStore' /\ OneOwner' /\ StoredIsCurrent'
      /\ \A x \in Plans : born'[x] <= life'
  <2>1. TakenLeavesStore' /\ OneOwner' /\ StoredIsCurrent'
    BY <1>a, <1>1 DEF Ownership, TakenLeavesStore, OneOwner, StoredIsCurrent
  <2>2. \A x \in Plans : born'[x] <= life'
    BY <1>1, <1>a, <1>3, <1>4 DEF TypeOK
  <2> QED
    BY <2>1, <2>2
<1>6. NothingVanishes'
  BY <1>a, <1>1, <1>4 DEF NothingVanishes, TypeOK
<1>7. \A q \in Requests : Progress(q)'
  BY <1>a, <1>1, <1>2 DEF Ownership, Progress
<1>8. RefusedForAReason'
  BY <1>a, <1>1, <1>2, <1>4 DEF RefusedForAReason, TypeOK
<1> QED
  BY <1>3, <1>5, <1>6, <1>7, <1>8 DEF IInv, Ownership

LEMMA NextIInv == IInv /\ [Next]_vars => IInv'
<1> SUFFICES ASSUME IInv, [Next]_vars PROVE IInv'
  OBVIOUS
<1>1. ASSUME NEW p \in Plans, Create(p) PROVE IInv'
  BY <1>1, CreateIInv
<1>2. ASSUME NEW q \in Requests, NEW p \in Plans \cup {None}, NEW token \in BOOLEAN,
             Take(q, p, token) \/ Miss(q, p, token)
      PROVE  IInv'
  BY <1>2, TakeIInv, MissIInv
<1>3. ASSUME NEW q \in Requests, Check(q) PROVE IInv'
  BY <1>3, CheckIInv
<1>4. CASE Tick
  BY <1>4, TickIInv
<1>5. CASE Restart
  BY <1>5, RestartIInv
<1>6. CASE UNCHANGED vars
  BY <1>6
  DEF vars, store, requests, IInv, TypeOK, Ownership, TakenLeavesStore, OneOwner,
      StoredIsCurrent, NothingVanishes, Progress, RefusedForAReason
<1> QED
  BY <1>1, <1>2, <1>3, <1>4, <1>5, <1>6 DEF Next

LEMMA Invariance == Spec => []IInv
  BY InitIInv, NextIInv, PTL DEF Spec

-----------------------------------------------------------------------------
(* PlanStore.consume keeps its types whatever ids and tokens are presented. *)
THEOREM TypeCorrect == Spec => []TypeOK
<1>1. IInv => TypeOK
  BY DEF IInv
<1> QED
  BY Invariance, <1>1, PTL

(* The pop under the lock is enough: no two requests are approved for one
   plan, however their checks interleave. *)
THEOREM ApprovedOnce == Spec => []SingleUse
<1>1. IInv => SingleUse
  BY DEF IInv, Ownership, OneOwner, Progress, SingleUse
<1> QED
  BY Invariance, <1>1, PTL

(* A wrong token uses the plan up. *)
THEOREM WrongTokenUsesUp == Spec => []WrongTokenIsFinal
<1>1. IInv => WrongTokenIsFinal
  BY DEF IInv, Ownership, OneOwner, Progress, WrongTokenIsFinal
<1> QED
  BY Invariance, <1>1, PTL

(* Nothing but expiry, another request or a restart takes an approval away. *)
THEOREM NoApprovalLost == Spec => []RefusedForAReason
<1>1. IInv => RefusedForAReason
  BY DEF IInv
<1> QED
  BY Invariance, <1>1, PTL

(* Approvals are given in time and by the process that previewed the plan. *)
THEOREM ApprovalFreshness == Spec => ApprovalsAreFresh
<1>1. IInv /\ [Next]_vars => [ApprovedFresh]_vars
  <2> SUFFICES ASSUME IInv, [Next]_vars, NEW q \in Requests,
                      pc[q] # "approved", pc'[q] = "approved"
               PROVE  clock <= expires[handed[q]] /\ born[handed[q]] = life
    BY DEF ApprovedFresh
  <2>a. TypeOK /\ Ownership
    BY DEF IInv
  <2>1. Check(q)
    BY <2>a
    DEF Next, vars, requests, Create, Take, Miss, Check, Tick, Restart, TypeOK
  <2>2. handed[q] \in Plans /\ born[handed[q]] = life
    BY <2>1, <2>a DEF Check, Ownership, Progress, TypeOK
  <2>3. ~ (expires[handed[q]] < clock)
    BY <2>1, <2>a DEF Check, Expired, TypeOK
  <2>4. expires[handed[q]] \in Int /\ clock \in Int
    BY <2>2, <2>a DEF TypeOK
  <2> QED
    BY <2>2, <2>3, <2>4
<1> QED
  BY Invariance, <1>1, PTL DEF Spec, ApprovalsAreFresh
=============================================================================
