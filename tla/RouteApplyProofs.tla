-------------------------- MODULE RouteApplyProofs ---------------------------
(***************************************************************************)
(* Theorems about module RouteApply, for every set of requests, hostnames  *)
(* and addresses, every plan, any number of requests in progress, and any  *)
(* number of faults, hidden effects and crashes: types, what is saved,     *)
(* what Caddy proxies, and that every thread implements module             *)
(* Transaction.                                                            *)
(***************************************************************************)
EXTENDS RouteTransactions, TLAPS

(* The steps of a plan, by its mode. *)
LEMMA StepsFacts ==
    ASSUME NEW r \in Requests
    PROVE  /\ StepsOf(r) \in {<<"dns", "caddy">>, <<"pangolin">>,
                              <<"dns", "caddy", "pangolin">>}
           /\ Len(StepsOf(r)) \in 1..3
           /\ \A i \in 1..Len(StepsOf(r)) :
                 /\ StepsOf(r)[i] \in Providers
                 /\ StepsOf(r)[i] = "dns" => i = 1
                 /\ StepsOf(r)[i] = "caddy" => i = 2
                 /\ StepsOf(r)[i] \in {"dns", "caddy"} => Len(StepsOf(r)) > 1
                 /\ StepsOf(r)[i] = "pangolin" => i = Len(StepsOf(r)) /\ i # 2
<1>1. Route[r].mode \in Modes
  BY RouteAssumption
<1>2. StepsOf(r) \in {<<"dns", "caddy">>, <<"pangolin">>, <<"dns", "caddy", "pangolin">>}
  BY <1>1 DEF StepsOf, Modes
<1> QED
  <2>1. CASE StepsOf(r) = <<"dns", "caddy">>
    BY <2>1 DEF Providers
  <2>2. CASE StepsOf(r) = <<"pangolin">>
    BY <2>2 DEF Providers
  <2>3. CASE StepsOf(r) = <<"dns", "caddy", "pangolin">>
    BY <2>3 DEF Providers
  <2> QED
    BY <1>2, <2>1, <2>2, <2>3

LEMMA NoLocalsType == NoLocals \in Locals
<1>1. NoRoutes \in [Hosts -> Requests \cup {Nobody}]
  BY DEF NoRoutes
<1> QED
  BY <1>1 DEF NoLocals, Locals

(* Assigning a local variable keeps the types and the other locals. *)
LEMMA AssignFacts ==
    ASSUME mem \in [Requests -> Locals], NEW r \in Requests
    PROVE  /\ \A f \in [Hosts -> Requests \cup {Nobody}] :
                 mem' = [mem EXCEPT ![r].routes = f] =>
                    /\ mem' \in [Requests -> Locals]
                    /\ mem'[r].dns = mem[r].dns /\ mem'[r].caddy = mem[r].caddy
           /\ \A A \in SUBSET Addresses :
                 /\ mem' = [mem EXCEPT ![r].dns = A] =>
                       /\ mem' \in [Requests -> Locals]
                       /\ mem'[r].dns = A /\ mem'[r].caddy = mem[r].caddy
                 /\ mem' = [mem EXCEPT ![r].seen = A] =>
                       /\ mem' \in [Requests -> Locals]
                       /\ mem'[r].dns = mem[r].dns /\ mem'[r].caddy = mem[r].caddy
                       /\ mem'[r].seen = A
           /\ \A R \in SUBSET Requests :
                 mem' = [mem EXCEPT ![r].caddy = R] =>
                    /\ mem' \in [Requests -> Locals]
                    /\ mem'[r].dns = mem[r].dns /\ mem'[r].caddy = R
           /\ \A c \in Requests, d \in Requests \cup {Nobody} :
                 mem' = [mem EXCEPT ![r].found = c, ![r].content = d] =>
                    /\ mem' \in [Requests -> Locals]
                    /\ mem'[r].dns = mem[r].dns /\ mem'[r].caddy = mem[r].caddy
<1>1. mem[r] \in Locals
  OBVIOUS
<1>2. \A f \in [Hosts -> Requests \cup {Nobody}] :
         mem' = [mem EXCEPT ![r].routes = f] =>
            /\ mem' \in [Requests -> Locals]
            /\ mem'[r].dns = mem[r].dns /\ mem'[r].caddy = mem[r].caddy
  BY <1>1 DEF Locals
<1>3. \A A \in SUBSET Addresses :
         mem' = [mem EXCEPT ![r].dns = A] =>
               /\ mem' \in [Requests -> Locals]
               /\ mem'[r].dns = A /\ mem'[r].caddy = mem[r].caddy
  BY <1>1 DEF Locals
<1>4. \A A \in SUBSET Addresses :
         mem' = [mem EXCEPT ![r].seen = A] =>
               /\ mem' \in [Requests -> Locals]
               /\ mem'[r].dns = mem[r].dns /\ mem'[r].caddy = mem[r].caddy
               /\ mem'[r].seen = A
  BY <1>1 DEF Locals
<1>5. \A R \in SUBSET Requests :
         mem' = [mem EXCEPT ![r].caddy = R] =>
            /\ mem' \in [Requests -> Locals]
            /\ mem'[r].dns = mem[r].dns /\ mem'[r].caddy = R
  BY <1>1 DEF Locals
<1>6. \A c \in Requests, d \in Requests \cup {Nobody} :
         mem' = [mem EXCEPT ![r].found = c, ![r].content = d] =>
            /\ mem' \in [Requests -> Locals]
            /\ mem'[r].dns = mem[r].dns /\ mem'[r].caddy = mem[r].caddy
  <2> SUFFICES ASSUME NEW c \in Requests, NEW d \in Requests \cup {Nobody},
                      mem' = [mem EXCEPT ![r].found = c, ![r].content = d]
               PROVE  /\ mem' \in [Requests -> Locals]
                      /\ mem'[r].dns = mem[r].dns /\ mem'[r].caddy = mem[r].caddy
    OBVIOUS
  <2>1. mem' \in [Requests -> Locals]
    BY <1>1 DEF Locals
  <2>2. mem'[r].dns = mem[r].dns /\ mem'[r].caddy = mem[r].caddy
    BY <1>1 DEF Locals
  <2> QED
    BY <2>1, <2>2
<1> QED
  BY <1>2, <1>3, <1>4, <1>5, <1>6

LEMMA AssignTargetFacts ==
    ASSUME mem \in [Requests -> Locals], NEW r \in Requests, NEW c \in Requests \cup {Nobody},
           mem' = [mem EXCEPT ![r].target = c]
    PROVE  /\ mem' \in [Requests -> Locals]
           /\ mem'[r].dns = mem[r].dns /\ mem'[r].caddy = mem[r].caddy
  BY DEF Locals

(* Where a thread can be and what its executor and its locals then hold. *)
Control(r) ==
    /\ todo[r] <= done[r]
    /\ done[r] <= Len(StepsOf(r))
    /\ status[r] \in {"applied", "rolled_back", "rollback_failed"} =>
          pc[r] \in {"audit", "save", "done", "dead"}
    /\ pc[r] \notin {"load", "ready", "done", "dead"} /\ ProviderMutations[r] /\ Len(StepsOf(r)) > 1 =>
          /\ done[r] >= 1 => mem[r].dns # Nobody
          /\ done[r] >= 2 => mem[r].caddy # Nobody
    /\ pc[r] \in {"load", "ready"} => done[r] = 0
    /\ pc[r] \notin {"load", "ready", "audit", "save", "done", "dead"} => ProviderMutations[r]
    /\ pc[r] = "dns_add" =>
          /\ status[r] = "running" /\ done[r] = 0 /\ Len(StepsOf(r)) > 1
          /\ mem[r].dns # Nobody
    /\ pc[r] \in {"caddy_install", "caddy_reload", "caddy_restore"} =>
          /\ status[r] = "running" /\ done[r] = 1 /\ Len(StepsOf(r)) > 1
          /\ mem[r].caddy # Nobody
    /\ pc[r] \in {"pangolin_publish", "pangolin_restore"} =>
          /\ status[r] = "running" /\ done[r] + 1 <= Len(StepsOf(r)) /\ done[r] < 3
          /\ Len(StepsOf(r)) > 1 => done[r] = 2
    /\ pc[r] = "caddy_undo_reload" =>
          /\ status[r] = "compensating" /\ todo[r] = 2
    /\ pc[r] = "dns_undo" =>
          /\ status[r] = "compensating" /\ todo[r] = 1
          /\ mem[r].dns # Nobody /\ mem[r].seen # Nobody

ControlOK == \A r \in Requests : Control(r)

TypeInv == TypeOK /\ ControlOK

LEMMA InitTypeInv == Init => TypeInv
<1> SUFFICES ASSUME Init PROVE TypeInv
  OBVIOUS
<1>1. TypeOK
  <2>1. dns \in [Hosts -> SUBSET Addresses]
    BY InitialAnswersAssumption DEF Init
  <2>2. Nobody # {}
    BY NobodyAssumption
  <2> QED
    BY <2>1, <2>2, NoLocalsType, BoundAssumption
    DEF Init, TypeOK, NoRoutes, Positions, Replies, Statuses
<1>2. ControlOK
  BY StepsFacts DEF Init, ControlOK, Control
<1> QED
  BY <1>1, <1>2 DEF TypeInv

(* A step of one thread leaves the others where they are. *)
Same(s) ==
    /\ pc'[s] = pc[s] /\ mem'[s] = mem[s]
    /\ status'[s] = status[s] /\ done'[s] = done[s] /\ todo'[s] = todo[s]

LEMMA OthersControl ==
    ASSUME ControlOK, NEW r \in Requests, Control(r)',
           \A s \in Requests \ {r} : Same(s)
    PROVE  ControlOK'
<1> SUFFICES ASSUME NEW s \in Requests \ {r} PROVE Control(s)'
  BY DEF ControlOK
<1> QED
  BY DEF ControlOK, Control, Same

(* Back in the executor's loop, this much of Control is left to show. *)
LEMMA BackInLoop ==
    ASSUME NEW r \in Requests, pc'[r] = "run", ProviderMutations[r],
           status'[r] \in {"running", "compensating"},
           todo'[r] <= done'[r], done'[r] <= Len(StepsOf(r)),
           Len(StepsOf(r)) > 1 /\ done'[r] >= 1 => mem'[r].dns # Nobody,
           Len(StepsOf(r)) > 1 /\ done'[r] >= 2 => mem'[r].caddy # Nobody
    PROVE  Control(r)'
  BY DEF Control

(* What the executor's updates do to its control variables. *)
LEMMA StepAppliedFacts ==
    ASSUME TypeOK, NEW r \in Requests, StepApplied(r), done[r] < 3
    PROVE  /\ done' \in [Requests -> 0..3] /\ pc' \in [Requests -> Positions]
           /\ done'[r] = done[r] + 1 /\ pc'[r] = "run"
           /\ UNCHANGED <<status, todo, rollback, unclean>>
           /\ \A s \in Requests \ {r} : done'[s] = done[s] /\ pc'[s] = pc[s]
<1>1. done' = [done EXCEPT ![r] = done[r] + 1] /\ pc' = [pc EXCEPT ![r] = "run"]
  BY DEF StepApplied, Goto
<1>2. done[r] + 1 \in 0..3 /\ "run" \in Positions
  BY DEF Positions, TypeOK
<1> QED
  BY <1>1, <1>2 DEF TypeOK, StepApplied

LEMMA CompensateFacts ==
    ASSUME TypeOK, NEW r \in Requests, Compensate(r)
    PROVE  /\ status' \in [Requests -> Statuses] /\ todo' \in [Requests -> 0..3]
           /\ pc' \in [Requests -> Positions]
           /\ status'[r] = "compensating" /\ todo'[r] = done[r] /\ pc'[r] = "run"
           /\ UNCHANGED <<done, rollback>>
           /\ \A s \in Requests \ {r} :
                 status'[s] = status[s] /\ todo'[s] = todo[s] /\ pc'[s] = pc[s]
<1>1. /\ status' = [status EXCEPT ![r] = "compensating"]
      /\ todo' = [todo EXCEPT ![r] = done[r]]
      /\ pc' = [pc EXCEPT ![r] = "run"]
  BY DEF Compensate, Goto
<1>2. "compensating" \in Statuses /\ done[r] \in 0..3 /\ "run" \in Positions
  BY DEF Positions, Statuses, TypeOK
<1> QED
  BY <1>1, <1>2 DEF TypeOK, Compensate

LEMMA StepFailedFacts ==
    ASSUME TypeOK, NEW r \in Requests, StepFailed(r)
    PROVE  /\ status' \in [Requests -> Statuses] /\ todo' \in [Requests -> 0..3]
           /\ pc' \in [Requests -> Positions]
           /\ status'[r] = "compensating" /\ todo'[r] = done[r] /\ pc'[r] = "run"
           /\ UNCHANGED <<done, rollback, unclean>>
           /\ \A s \in Requests \ {r} :
                 status'[s] = status[s] /\ todo'[s] = todo[s] /\ pc'[s] = pc[s]
  BY CompensateFacts DEF StepFailed

LEMMA StepFailedUncleanFacts ==
    ASSUME TypeOK, NEW r \in Requests, NEW p \in {"caddy", "pangolin"}, StepFailedUnclean(r, p)
    PROVE  /\ status' \in [Requests -> Statuses] /\ todo' \in [Requests -> 0..3]
           /\ pc' \in [Requests -> Positions]
           /\ unclean' \in [{"caddy", "pangolin"} -> SUBSET Requests]
           /\ status'[r] = "compensating" /\ todo'[r] = done[r] /\ pc'[r] = "run"
           /\ UNCHANGED <<done, rollback>>
           /\ unclean'[p] = unclean[p] \cup {r}
           /\ \A q \in {"caddy", "pangolin"} \ {p} : unclean'[q] = unclean[q]
           /\ \A s \in Requests \ {r} :
                 status'[s] = status[s] /\ todo'[s] = todo[s] /\ pc'[s] = pc[s]
<1>1. unclean \in [{"caddy", "pangolin"} -> SUBSET Requests]
  BY DEF TypeOK
<1>2. unclean' = [unclean EXCEPT ![p] = unclean[p] \cup {r}] /\ Compensate(r)
  BY DEF StepFailedUnclean
<1>3. /\ unclean' \in [{"caddy", "pangolin"} -> SUBSET Requests]
      /\ unclean'[p] = unclean[p] \cup {r}
      /\ \A q \in {"caddy", "pangolin"} \ {p} : unclean'[q] = unclean[q]
  BY <1>1, <1>2
<1> QED
  BY <1>2, <1>3, CompensateFacts

LEMMA StepUndoneFacts ==
    ASSUME TypeOK, NEW r \in Requests, NEW p \in Providers,
           NEW result \in {"rolled_back", "rollback_failed"},
           StepUndone(r, p, result), todo[r] > 0
    PROVE  /\ todo' \in [Requests -> 0..3] /\ pc' \in [Requests -> Positions]
           /\ rollback' \in [Requests -> [Providers -> {"none", "rolled_back", "rollback_failed"}]]
           /\ todo'[r] = todo[r] - 1 /\ pc'[r] = "run"
           /\ UNCHANGED <<status, done, unclean>>
           /\ \A s \in Requests \ {r} : todo'[s] = todo[s] /\ pc'[s] = pc[s]
<1>1. /\ todo' = [todo EXCEPT ![r] = todo[r] - 1]
      /\ rollback' = [rollback EXCEPT ![r][p] = result]
      /\ pc' = [pc EXCEPT ![r] = "run"]
  BY DEF StepUndone, Goto
<1>2. todo[r] - 1 \in 0..3 /\ "run" \in Positions
  BY DEF Positions, TypeOK
<1> QED
  BY <1>1, <1>2 DEF TypeOK, StepUndone

(* Which step it is that the executor applies or undoes. *)
LEMMA ApplyingFacts ==
    ASSUME TypeOK, NEW r \in Requests, NEW p \in Providers, Applying(r, p)
    PROVE  /\ pc[r] = "run" /\ status[r] = "running"
           /\ done[r] < Len(StepsOf(r)) /\ done[r] < 3
           /\ done[r] + 1 <= Len(StepsOf(r))
           /\ p = "dns" => done[r] = 0 /\ Len(StepsOf(r)) > 1
           /\ p = "caddy" => done[r] = 1 /\ Len(StepsOf(r)) > 1
           /\ p = "pangolin" /\ Len(StepsOf(r)) > 1 => done[r] = 2
<1>1. done[r] \in 0..3 /\ done[r] + 1 \in 1..Len(StepsOf(r))
  BY StepsFacts DEF Applying, TypeOK
<1> QED
  BY <1>1, StepsFacts DEF Applying

LEMMA UndoingFacts ==
    ASSUME TypeOK, NEW r \in Requests, Control(r), NEW p \in Providers, Undoing(r, p)
    PROVE  /\ pc[r] = "run" /\ status[r] = "compensating" /\ todo[r] > 0
           /\ p = "dns" => todo[r] = 1 /\ mem[r].dns # Nobody
           /\ p = "caddy" => todo[r] = 2 /\ mem[r].caddy # Nobody
<1>1. todo[r] \in 0..3 /\ done[r] \in 0..3 /\ todo[r] \in 1..Len(StepsOf(r))
  BY StepsFacts DEF Undoing, Control, TypeOK
<1>2. /\ p = "dns" => todo[r] = 1 /\ Len(StepsOf(r)) > 1
      /\ p = "caddy" => todo[r] = 2 /\ Len(StepsOf(r)) > 1
  BY <1>1, StepsFacts DEF Undoing
<1> QED
  BY <1>1, <1>2 DEF Undoing, Control

(* The control invariant after a step was applied, failed or was undone. *)
MidTransaction(r) == pc[r] \notin {"load", "ready", "audit", "save", "done", "dead"}

LEMMA AppliedControl ==
    ASSUME TypeOK, NEW r \in Requests, Control(r), MidTransaction(r), StepApplied(r),
           status[r] = "running", done[r] < 3, done[r] + 1 <= Len(StepsOf(r)),
           Len(StepsOf(r)) > 1 => mem'[r].dns # Nobody,
           Len(StepsOf(r)) > 1 /\ done[r] >= 1 => mem'[r].caddy # Nobody
    PROVE  Control(r)'
<1>1. ProviderMutations[r] /\ todo[r] <= done[r]
  BY DEF Control, MidTransaction
<1>2. done[r] \in 0..3 /\ todo[r] \in 0..3
  BY DEF TypeOK
<1>3. /\ pc'[r] = "run" /\ done'[r] = done[r] + 1
      /\ status'[r] = status[r] /\ todo'[r] = todo[r]
  BY StepAppliedFacts
<1> QED
  BY <1>1, <1>2, <1>3, BackInLoop

LEMMA FailedControl ==
    ASSUME TypeOK, NEW r \in Requests, Control(r), MidTransaction(r), Compensate(r),
           UNCHANGED mem
    PROVE  Control(r)'
<1>1. /\ ProviderMutations[r] /\ done[r] <= Len(StepsOf(r))
      /\ Len(StepsOf(r)) > 1 /\ done[r] >= 1 => mem[r].dns # Nobody
      /\ Len(StepsOf(r)) > 1 /\ done[r] >= 2 => mem[r].caddy # Nobody
  BY DEF Control, MidTransaction
<1>2. done[r] \in 0..3
  BY DEF TypeOK
<1>3. /\ pc'[r] = "run" /\ done'[r] = done[r] /\ todo'[r] = done[r]
      /\ status'[r] = "compensating"
  BY CompensateFacts
<1> QED
  BY <1>1, <1>2, <1>3, BackInLoop

LEMMA UndoneControl ==
    ASSUME TypeOK, NEW r \in Requests, Control(r), MidTransaction(r),
           NEW p \in Providers, NEW result \in {"rolled_back", "rollback_failed"},
           StepUndone(r, p, result), status[r] = "compensating", todo[r] > 0,
           UNCHANGED mem
    PROVE  Control(r)'
<1>1. /\ ProviderMutations[r] /\ done[r] <= Len(StepsOf(r)) /\ todo[r] <= done[r]
      /\ Len(StepsOf(r)) > 1 /\ done[r] >= 1 => mem[r].dns # Nobody
      /\ Len(StepsOf(r)) > 1 /\ done[r] >= 2 => mem[r].caddy # Nobody
  BY DEF Control, MidTransaction
<1>2. done[r] \in 0..3 /\ todo[r] \in 0..3
  BY DEF TypeOK
<1>3. /\ pc'[r] = "run" /\ done'[r] = done[r] /\ todo'[r] = todo[r] - 1
      /\ status'[r] = "compensating"
  BY StepUndoneFacts
<1> QED
  BY <1>1, <1>2, <1>3, BackInLoop

(* A thread that moves without touching its executor. *)
LEMMA GotoFacts ==
    ASSUME TypeOK, NEW r \in Requests, NEW position \in Positions, Goto(r, position)
    PROVE  /\ pc' \in [Requests -> Positions] /\ pc'[r] = position
           /\ \A s \in Requests \ {r} : pc'[s] = pc[s]
  BY DEF Goto, TypeOK

-----------------------------------------------------------------------------
LEMMA DnsTypeInv ==
    ASSUME TypeInv, NEW r \in Requests, DnsStep(r)
    PROVE  TypeInv'
<1>r. /\ TypeOK /\ ControlOK /\ Control(r) /\ mem[r] \in Locals
      /\ Host(r) \in Hosts /\ Address(r) \in Addresses
      /\ dns[Host(r)] \in SUBSET Addresses /\ dns[Host(r)] # Nobody
  BY RouteAssumption, NobodyAssumption DEF TypeInv, ControlOK, TypeOK, Host, Address
<1>p. /\ "dns" \in Providers
      /\ {"dns_add", "dns_undo"} \subseteq Positions
  BY DEF Providers, Positions
<1>q. ASSUME Fault PROVE faults' \in 0..MaxFaults
  BY <1>q, <1>r, BoundAssumption DEF Fault, TypeOK
<1> SUFFICES TypeOK' /\ Control(r)' /\ \A s \in Requests \ {r} : Same(s)
  BY <1>r, OthersControl DEF TypeInv
<1>1. CASE DnsConflict(r)
  <2>1. TypeOK' /\ \A s \in Requests \ {r} : Same(s)
    BY <1>1, <1>r, StepFailedFacts DEF DnsConflict, TypeOK, disk, providers, Same
  <2>2. Control(r)'
    BY <1>1, <1>r, <1>p, ApplyingFacts, FailedControl DEF DnsConflict, StepFailed, MidTransaction
  <2> QED
    BY <2>1, <2>2
<1>2. CASE DnsAlreadyAnswers(r)
  <2>1. Applying(r, "dns") /\ StepApplied(r) /\ mem' = [mem EXCEPT ![r].dns = dns[Host(r)]]
    BY <1>2 DEF DnsAlreadyAnswers
  <2>2. done[r] < 3 /\ done[r] = 0 /\ status[r] = "running" /\ done[r] + 1 <= Len(StepsOf(r))
    BY <1>r, <1>p, <2>1, ApplyingFacts
  <2>3. mem' \in [Requests -> Locals] /\ mem'[r].dns = dns[Host(r)]
    BY <1>r, <2>1, AssignFacts DEF TypeOK
  <2>4. TypeOK' /\ \A s \in Requests \ {r} : Same(s)
    BY <1>2, <1>r, <2>1, <2>2, <2>3, StepAppliedFacts
    DEF DnsAlreadyAnswers, TypeOK, disk, providers, Same
  <2>5. Control(r)'
    BY <1>r, <1>p, <2>1, <2>2, <2>3, ApplyingFacts, AppliedControl DEF MidTransaction
  <2> QED
    BY <2>4, <2>5
<1>3. CASE DnsSnapshot(r)
  <2>1. Applying(r, "dns") /\ Goto(r, "dns_add") /\ mem' = [mem EXCEPT ![r].dns = dns[Host(r)]]
    BY <1>3 DEF DnsSnapshot
  <2>2. done[r] = 0 /\ status[r] = "running" /\ pc[r] = "run" /\ Len(StepsOf(r)) > 1
    BY <1>r, <1>p, <2>1, ApplyingFacts
  <2>3. mem' \in [Requests -> Locals] /\ mem'[r].dns = dns[Host(r)]
    BY <1>r, <2>1, AssignFacts DEF TypeOK
  <2>4. TypeOK' /\ \A s \in Requests \ {r} : Same(s)
    BY <1>3, <1>r, <1>p, <2>1, <2>3, GotoFacts
    DEF DnsSnapshot, TypeOK, disk, providers, executor, Same
  <2>5. Control(r)'
    BY <1>3, <1>r, <1>p, <2>1, <2>2, <2>3, GotoFacts DEF DnsSnapshot, Control, executor
  <2> QED
    BY <2>4, <2>5
<1>4. CASE DnsAdd(r)
  <2>1. StepApplied(r) /\ pc[r] = "dns_add" /\ UNCHANGED mem
    BY <1>4 DEF DnsAdd
  <2>2. /\ done[r] < 3 /\ done[r] = 0 /\ status[r] = "running" /\ mem[r].dns # Nobody
        /\ done[r] + 1 <= Len(StepsOf(r))
    BY <1>r, <2>1, StepsFacts DEF Control
  <2>3. TypeOK' /\ \A s \in Requests \ {r} : Same(s)
    BY <1>4, <1>r, <2>1, <2>2, StepAppliedFacts DEF DnsAdd, TypeOK, disk, Same
  <2>4. Control(r)'
    BY <1>r, <2>1, <2>2, AppliedControl DEF MidTransaction
  <2> QED
    BY <2>3, <2>4
<1>5. CASE DnsFails(r)
  <2>1. StepFailed(r) /\ UNCHANGED mem /\ MidTransaction(r) /\ Fault
    BY <1>5, <1>r, <1>p, ApplyingFacts DEF DnsFails, MidTransaction
  <2>2. dns' \in [Hosts -> SUBSET Addresses]
    BY <1>5, <1>r DEF DnsFails, TypeOK
  <2>3. TypeOK' /\ \A s \in Requests \ {r} : Same(s)
    BY <1>5, <1>r, <1>q, <2>1, <2>2, StepFailedFacts DEF DnsFails, TypeOK, disk, Same
  <2>4. Control(r)'
    BY <1>r, <2>1, FailedControl DEF StepFailed
  <2> QED
    BY <2>3, <2>4
<1>6. CASE DnsUndoList(r)
  <2>1. Undoing(r, "dns") /\ Goto(r, "dns_undo") /\ mem' = [mem EXCEPT ![r].seen = dns[Host(r)]]
    BY <1>6 DEF DnsUndoList
  <2>2. /\ todo[r] = 1 /\ status[r] = "compensating" /\ mem[r].dns # Nobody /\ pc[r] = "run"
    BY <1>r, <1>p, <2>1, UndoingFacts
  <2>3. /\ mem' \in [Requests -> Locals] /\ mem'[r].seen = dns[Host(r)]
        /\ mem'[r].dns = mem[r].dns /\ mem'[r].caddy = mem[r].caddy
    BY <1>r, <2>1, AssignFacts DEF TypeOK
  <2>4. TypeOK' /\ \A s \in Requests \ {r} : Same(s)
    BY <1>6, <1>r, <1>p, <2>1, <2>3, GotoFacts
    DEF DnsUndoList, TypeOK, disk, providers, executor, Same
  <2>5. Control(r)'
    BY <1>6, <1>r, <1>p, <2>1, <2>2, <2>3, GotoFacts DEF DnsUndoList, Control, executor
  <2> QED
    BY <2>4, <2>5
<1>7. CASE DnsUndo(r)
  <2>1. StepUndone(r, "dns", "rolled_back") /\ UNCHANGED mem /\ pc[r] = "dns_undo"
    BY <1>7 DEF DnsUndo
  <2>2. /\ todo[r] > 0 /\ status[r] = "compensating"
        /\ mem[r].dns \in SUBSET Addresses
    BY <1>r, <2>1 DEF Control, Locals
  <2>3. dns' \in [Hosts -> SUBSET Addresses]
    BY <1>7, <1>r, <2>2 DEF DnsUndo, Restored, Lost, TypeOK
  <2>4. TypeOK' /\ \A s \in Requests \ {r} : Same(s)
    BY <1>7, <1>r, <1>p, <2>1, <2>2, <2>3, StepUndoneFacts DEF DnsUndo, TypeOK, disk, Same
  <2>5. Control(r)'
    BY <1>r, <1>p, <2>1, <2>2, UndoneControl DEF MidTransaction
  <2> QED
    BY <2>4, <2>5
<1>8. CASE DnsUndoFails(r)
  <2>1. StepUndone(r, "dns", "rollback_failed") /\ UNCHANGED mem /\ Fault
    BY <1>8 DEF DnsUndoFails
  <2>2. todo[r] > 0 /\ status[r] = "compensating" /\ MidTransaction(r)
    BY <1>8, <1>r, <1>p, UndoingFacts DEF DnsUndoFails, Control, MidTransaction
  <2>3. dns' \in [Hosts -> SUBSET Addresses]
    <3>1. CASE UNCHANGED dns
      BY <3>1, <1>r DEF TypeOK
    <3>2. ASSUME pc[r] = "dns_undo", NEW gone \in SUBSET Stale(r), NEW back \in SUBSET Lost(r),
                 dns' = [dns EXCEPT ![Host(r)] = (dns[Host(r)] \ gone) \cup back]
          PROVE  <2>3
      <4>1. mem[r].dns \in SUBSET Addresses
        BY <3>2, <1>r DEF Control, Locals
      <4>2. (dns[Host(r)] \ gone) \cup back \in SUBSET Addresses
        BY <4>1, <3>2, <1>r DEF Lost
      <4> QED
        BY <4>2, <3>2, <1>r DEF TypeOK
    <3> QED
      BY <1>8, <3>1, <3>2 DEF DnsUndoFails
  <2>4. TypeOK' /\ \A s \in Requests \ {r} : Same(s)
    BY <1>8, <1>r, <1>p, <1>q, <2>1, <2>2, <2>3, StepUndoneFacts DEF DnsUndoFails, TypeOK, disk, Same
  <2>5. Control(r)'
    BY <1>r, <1>p, <2>1, <2>2, UndoneControl
  <2> QED
    BY <2>4, <2>5
<1> QED
  BY <1>1, <1>2, <1>3, <1>4, <1>5, <1>6, <1>7, <1>8 DEF DnsStep

LEMMA CaddyTypeInv ==
    ASSUME TypeInv, NEW r \in Requests, CaddyStep(r)
    PROVE  TypeInv'
<1>r. TypeOK /\ ControlOK /\ Control(r) /\ mem[r] \in Locals /\ caddyFile # Nobody
  BY NobodyAssumption DEF TypeInv, ControlOK, TypeOK
<1>p. /\ "caddy" \in Providers
      /\ {"caddy_install", "caddy_reload", "caddy_restore", "caddy_undo_reload"} \subseteq Positions
  BY DEF Providers, Positions
<1>q. ASSUME Fault PROVE faults' \in 0..MaxFaults
  BY <1>q, <1>r, BoundAssumption DEF Fault, TypeOK
<1>m. mem[r].caddy # Nobody => mem[r].caddy \subseteq Requests
  BY <1>r DEF Locals
<1> SUFFICES TypeOK' /\ Control(r)' /\ \A s \in Requests \ {r} : Same(s)
  BY <1>r, OthersControl DEF TypeInv
<1>1. CASE CaddyRead(r)
  <2>1. Applying(r, "caddy") /\ Goto(r, "caddy_install") /\ mem' = [mem EXCEPT ![r].caddy = caddyFile]
    BY <1>1 DEF CaddyRead
  <2>2. done[r] = 1 /\ status[r] = "running" /\ pc[r] = "run" /\ Len(StepsOf(r)) > 1
    BY <1>r, <1>p, <2>1, ApplyingFacts
  <2>3. mem' \in [Requests -> Locals] /\ mem'[r].caddy = caddyFile /\ mem'[r].dns = mem[r].dns
    BY <1>r, <2>1, AssignFacts DEF TypeOK
  <2>4. TypeOK' /\ \A s \in Requests \ {r} : Same(s)
    BY <1>1, <1>r, <1>p, <2>1, <2>3, GotoFacts
    DEF CaddyRead, TypeOK, disk, providers, executor, Same
  <2>5. Control(r)'
    BY <1>1, <1>r, <1>p, <2>1, <2>2, <2>3, GotoFacts DEF CaddyRead, Control, executor
  <2> QED
    BY <2>4, <2>5
<1>2. CASE CaddyInstall(r)
  <2>1. Goto(r, "caddy_reload") /\ pc[r] = "caddy_install"
    BY <1>2 DEF CaddyInstall
  <2>2. caddyFile' # Nobody /\ caddyFile' \subseteq Requests
    BY <1>2, NobodyAssumption DEF CaddyInstall, ProxyConfig
  <2>3. TypeOK' /\ \A s \in Requests \ {r} : Same(s)
    BY <1>2, <1>r, <1>p, <2>1, <2>2, GotoFacts DEF CaddyInstall, TypeOK, disk, executor, Same
  <2>4. Control(r)'
    BY <1>2, <1>r, <1>p, <2>1, GotoFacts DEF CaddyInstall, Control, executor
  <2> QED
    BY <2>3, <2>4
<1>3. CASE CaddyReload(r)
  <2>1. StepApplied(r) /\ pc[r] = "caddy_reload" /\ UNCHANGED mem
    BY <1>3 DEF CaddyReload
  <2>2. /\ done[r] < 3 /\ done[r] = 1 /\ status[r] = "running"
        /\ mem[r].caddy # Nobody /\ mem[r].dns # Nobody /\ done[r] + 1 <= Len(StepsOf(r))
    BY <1>r, <2>1, StepsFacts DEF Control
  <2>3. TypeOK' /\ \A s \in Requests \ {r} : Same(s)
    BY <1>3, <1>r, <2>1, <2>2, StepAppliedFacts DEF CaddyReload, TypeOK, disk, Same
  <2>4. Control(r)'
    BY <1>r, <2>1, <2>2, AppliedControl DEF MidTransaction
  <2> QED
    BY <2>3, <2>4
<1>4. CASE CaddyFails(r)
  <2>1. /\ Goto(r, "caddy_restore") /\ pc[r] \in {"caddy_install", "caddy_reload"} /\ Fault
        /\ caddyRunning' # Nobody /\ caddyRunning' \subseteq Requests
    BY <1>4, <1>r DEF CaddyFails, TypeOK
  <2>2. TypeOK' /\ \A s \in Requests \ {r} : Same(s)
    BY <1>4, <1>r, <1>p, <1>q, <2>1, GotoFacts DEF CaddyFails, TypeOK, disk, executor, Same
  <2>3. Control(r)'
    BY <1>4, <1>r, <1>p, <2>1, GotoFacts DEF CaddyFails, Control, executor
  <2> QED
    BY <2>2, <2>3
<1>5. CASE CaddyRestore(r)
  <2>1. /\ StepFailed(r) /\ UNCHANGED mem /\ MidTransaction(r)
        /\ caddyFile' # Nobody /\ caddyFile' \subseteq Requests
    BY <1>5, <1>r, <1>m DEF CaddyRestore, MidTransaction, Control
  <2>2. TypeOK' /\ \A s \in Requests \ {r} : Same(s)
    BY <1>5, <1>r, <2>1, StepFailedFacts DEF CaddyRestore, TypeOK, disk, Same
  <2>3. Control(r)'
    BY <1>r, <2>1, FailedControl DEF StepFailed
  <2> QED
    BY <2>2, <2>3
<1>6. CASE CaddyRestoreFails(r)
  <2>1. /\ StepFailedUnclean(r, "caddy") /\ UNCHANGED mem /\ MidTransaction(r) /\ Fault
        /\ caddyFile' # Nobody /\ caddyFile' \subseteq Requests
    BY <1>6, <1>r, <1>m DEF CaddyRestoreFails, MidTransaction, Control, TypeOK
  <2>2. TypeOK' /\ \A s \in Requests \ {r} : Same(s)
    BY <1>6, <1>r, <1>q, <2>1, StepFailedUncleanFacts DEF CaddyRestoreFails, TypeOK, disk, Same
  <2>3. Control(r)'
    BY <1>r, <2>1, FailedControl DEF StepFailedUnclean
  <2> QED
    BY <2>2, <2>3
<1>7. CASE CaddyUndo(r)
  <2>1. Undoing(r, "caddy") /\ Goto(r, "caddy_undo_reload")
    BY <1>7 DEF CaddyUndo
  <2>2. /\ todo[r] = 2 /\ status[r] = "compensating" /\ mem[r].caddy # Nobody
        /\ pc[r] = "run" /\ caddyFile' # Nobody /\ caddyFile' \subseteq Requests
    BY <1>7, <1>r, <1>p, <1>m, <2>1, UndoingFacts DEF CaddyUndo
  <2>3. TypeOK' /\ \A s \in Requests \ {r} : Same(s)
    BY <1>7, <1>r, <1>p, <2>1, <2>2, GotoFacts DEF CaddyUndo, TypeOK, disk, executor, Same
  <2>4. Control(r)'
    BY <1>7, <1>r, <1>p, <2>1, <2>2, GotoFacts DEF CaddyUndo, Control, executor
  <2> QED
    BY <2>3, <2>4
<1>8. CASE CaddyUndoReload(r)
  <2>1. StepUndone(r, "caddy", "rolled_back") /\ UNCHANGED mem /\ pc[r] = "caddy_undo_reload"
    BY <1>8 DEF CaddyUndoReload
  <2>2. todo[r] > 0 /\ status[r] = "compensating"
    BY <1>r, <2>1 DEF Control
  <2>3. TypeOK' /\ \A s \in Requests \ {r} : Same(s)
    BY <1>8, <1>r, <1>p, <2>1, <2>2, StepUndoneFacts DEF CaddyUndoReload, TypeOK, disk, Same
  <2>4. Control(r)'
    BY <1>r, <1>p, <2>1, <2>2, UndoneControl DEF MidTransaction
  <2> QED
    BY <2>3, <2>4
<1>9. CASE CaddyUndoFails(r)
  <2>1. /\ StepUndone(r, "caddy", "rollback_failed") /\ UNCHANGED mem /\ Fault
        /\ caddyRunning' # Nobody /\ caddyRunning' \subseteq Requests
    BY <1>9, <1>r DEF CaddyUndoFails, TypeOK
  <2>2. todo[r] > 0 /\ status[r] = "compensating" /\ MidTransaction(r)
    BY <1>9, <1>r, <1>p, UndoingFacts DEF CaddyUndoFails, Control, MidTransaction
  <2>3. TypeOK' /\ \A s \in Requests \ {r} : Same(s)
    BY <1>9, <1>r, <1>p, <1>q, <2>1, <2>2, StepUndoneFacts DEF CaddyUndoFails, TypeOK, disk, Same
  <2>4. Control(r)'
    BY <1>r, <1>p, <2>1, <2>2, UndoneControl
  <2> QED
    BY <2>3, <2>4
<1> QED
  BY <1>1, <1>2, <1>3, <1>4, <1>5, <1>6, <1>7, <1>8, <1>9 DEF CaddyStep

LEMMA PangolinTypeInv ==
    ASSUME TypeInv, NEW r \in Requests, PangolinStep(r)
    PROVE  TypeInv'
<1>r. TypeOK /\ ControlOK /\ Control(r) /\ mem[r] \in Locals
  BY DEF TypeInv, ControlOK, TypeOK
<1>p. "pangolin" \in Providers /\ {"pangolin_publish", "pangolin_restore"} \subseteq Positions
  BY DEF Providers, Positions
<1>q. ASSUME Fault PROVE faults' \in 0..MaxFaults
  BY <1>q, <1>r, BoundAssumption DEF Fault, TypeOK
<1>a. PublishedAs(r) \in Requests
  BY <1>r DEF PublishedAs, Locals
<1> SUFFICES TypeOK' /\ Control(r)' /\ \A s \in Requests \ {r} : Same(s)
  BY <1>r, OthersControl DEF TypeInv
<1>1. CASE PangolinAmbiguous(r)
  <2>1. StepFailed(r) /\ UNCHANGED mem /\ MidTransaction(r)
    BY <1>1, <1>r, <1>p, ApplyingFacts DEF PangolinAmbiguous, MidTransaction
  <2>2. TypeOK' /\ \A s \in Requests \ {r} : Same(s)
    BY <1>1, <1>r, <2>1, StepFailedFacts DEF PangolinAmbiguous, TypeOK, disk, providers, Same
  <2>3. Control(r)'
    BY <1>r, <2>1, FailedControl DEF StepFailed
  <2> QED
    BY <2>2, <2>3
<1>2. CASE PangolinLookup(r)
  <2>1. Applying(r, "pangolin") /\ Goto(r, "pangolin_publish")
    BY <1>2 DEF PangolinLookup
  <2>2. /\ done[r] + 1 <= Len(StepsOf(r)) /\ done[r] < 3
        /\ Len(StepsOf(r)) > 1 => done[r] = 2
        /\ status[r] = "running" /\ pc[r] = "run"
    BY <1>r, <1>p, <2>1, ApplyingFacts
  <2>3. /\ mem' \in [Requests -> Locals]
        /\ mem'[r].dns = mem[r].dns /\ mem'[r].caddy = mem[r].caddy
        /\ \A s \in Requests \ {r} : mem'[s] = mem[s]
    <3>1. CASE UNCHANGED mem
      BY <3>1, <1>r DEF TypeOK
    <3>2. ASSUME NEW c \in Requests,
                 mem' = [mem EXCEPT ![r].found = c, ![r].content = resource[c]]
          PROVE  <2>3
      <4>1. resource[c] \in Requests \cup {Nobody} /\ mem \in [Requests -> Locals]
        BY <1>r DEF TypeOK
      <4>2. /\ mem' \in [Requests -> Locals]
            /\ mem'[r].dns = mem[r].dns /\ mem'[r].caddy = mem[r].caddy
        BY <3>2, <4>1, AssignFacts
      <4>3. \A s \in Requests \ {r} : mem'[s] = mem[s]
        BY <3>2, <4>1
      <4> QED
        BY <4>2, <4>3
    <3> QED
      BY <1>2, <3>1, <3>2 DEF PangolinLookup
  <2>4. TypeOK' /\ \A s \in Requests \ {r} : Same(s)
    BY <1>2, <1>r, <1>p, <2>1, <2>3, GotoFacts
    DEF PangolinLookup, TypeOK, disk, providers, executor, Same
  <2>5. Control(r)'
    BY <1>2, <1>r, <1>p, <2>1, <2>2, <2>3, GotoFacts DEF PangolinLookup, Control, executor
  <2> QED
    BY <2>4, <2>5
<1>3. CASE PangolinPublish(r)
  <2>1. StepApplied(r) /\ UNCHANGED mem /\ pc[r] = "pangolin_publish"
    BY <1>3 DEF PangolinPublish
  <2>2. /\ done[r] < 3 /\ done[r] + 1 <= Len(StepsOf(r)) /\ status[r] = "running"
        /\ Len(StepsOf(r)) > 1 => mem[r].dns # Nobody /\ mem[r].caddy # Nobody
    BY <1>r, <2>1, StepsFacts DEF Control
  <2>3. /\ resource' \in [Requests -> Requests \cup {Nobody}]
        /\ target' \in [Requests -> Requests \cup {Nobody}]
    BY <1>3, <1>r, <1>a DEF PangolinPublish, TypeOK
  <2>4. TypeOK' /\ \A s \in Requests \ {r} : Same(s)
    BY <1>3, <1>r, <2>1, <2>2, <2>3, StepAppliedFacts DEF PangolinPublish, TypeOK, disk, Same
  <2>5. Control(r)'
    BY <1>r, <2>1, <2>2, AppliedControl DEF MidTransaction
  <2> QED
    BY <2>4, <2>5
<1>4. CASE PangolinFails(r)
  <2>1. StepFailed(r) /\ UNCHANGED mem /\ MidTransaction(r) /\ Fault
    BY <1>4, <1>r, <1>p, ApplyingFacts DEF PangolinFails, MidTransaction
  <2>2. resource' \in [Requests -> Requests \cup {Nobody}]
    BY <1>4, <1>r DEF PangolinFails, TypeOK
  <2>3. TypeOK' /\ \A s \in Requests \ {r} : Same(s)
    BY <1>4, <1>r, <1>q, <2>1, <2>2, StepFailedFacts DEF PangolinFails, TypeOK, disk, Same
  <2>4. Control(r)'
    BY <1>r, <2>1, FailedControl DEF StepFailed
  <2> QED
    BY <2>3, <2>4
<1>5. CASE PangolinBreaksNew(r) \/ PangolinBreaksAdopted(r) \/ PangolinBreaksGone(r)
  <2>1. /\ Goto(r, "pangolin_restore") /\ pc[r] = "pangolin_publish"
        /\ Fault \/ UNCHANGED faults
    BY <1>5 DEF PangolinBreaksNew, PangolinBreaksAdopted, PangolinBreaksGone
  <2>2. /\ mem' \in [Requests -> Locals]
        /\ mem'[r].dns = mem[r].dns /\ mem'[r].caddy = mem[r].caddy
        /\ \A s \in Requests \ {r} : mem'[s] = mem[s]
    <3>1. CASE UNCHANGED mem
      BY <3>1, <1>r DEF TypeOK
    <3>2. CASE mem' = [mem EXCEPT ![r].target = target[mem[r].found]] /\ mem[r].found # Nobody
      <4>1. target[mem[r].found] \in Requests \cup {Nobody} /\ mem \in [Requests -> Locals]
        BY <3>2, <1>r DEF TypeOK, Locals
      <4>2. /\ mem' \in [Requests -> Locals]
            /\ mem'[r].dns = mem[r].dns /\ mem'[r].caddy = mem[r].caddy
        BY <3>2, <4>1, AssignTargetFacts
      <4>3. \A s \in Requests \ {r} : mem'[s] = mem[s]
        BY <3>2, <4>1
      <4> QED
        BY <4>2, <4>3
    <3> QED
      BY <1>5, <3>1, <3>2 DEF PangolinBreaksNew, PangolinBreaksAdopted, PangolinBreaksGone
  <2>3. /\ resource' \in [Requests -> Requests \cup {Nobody}]
        /\ target' \in [Requests -> Requests \cup {Nobody}]
    <3>1. mem[r].found # Nobody => mem[r].found \in Requests
      BY <1>r DEF Locals
    <3>2. /\ \A c \in Requests :
                /\ [resource EXCEPT ![c] = r] \in [Requests -> Requests \cup {Nobody}]
                /\ [target EXCEPT ![c] = r] \in [Requests -> Requests \cup {Nobody}]
          /\ resource \in [Requests -> Requests \cup {Nobody}]
          /\ target \in [Requests -> Requests \cup {Nobody}]
      BY <1>r DEF TypeOK
    <3> QED
      BY <1>5, <3>1, <3>2
      DEF PangolinBreaksNew, PangolinBreaksAdopted, PangolinBreaksGone, providers
  <2>4. TypeOK' /\ \A s \in Requests \ {r} : Same(s)
    <3>1. UNCHANGED <<disk, dns, caddyFile, caddyRunning, executor, reply>>
      BY <1>5 DEF PangolinBreaksNew, PangolinBreaksAdopted, PangolinBreaksGone, providers
    <3> QED
      BY <1>r, <1>p, <1>q, <2>1, <2>2, <2>3, <3>1, GotoFacts DEF TypeOK, disk, executor, Same
  <2>5. Control(r)'
    <3>1. UNCHANGED executor
      BY <1>5 DEF PangolinBreaksNew, PangolinBreaksAdopted, PangolinBreaksGone
    <3> QED
      BY <1>r, <1>p, <2>1, <2>2, <3>1, GotoFacts DEF Control, executor
  <2> QED
    BY <2>4, <2>5
<1>6. CASE PangolinRestore(r) \/ PangolinRestoreFails(r)
  <2>1. /\ StepFailed(r) \/ StepFailedUnclean(r, "pangolin")
        /\ UNCHANGED <<disk, dns, caddyFile, caddyRunning, mem, reply>>
        /\ MidTransaction(r) /\ (Fault \/ UNCHANGED faults)
    BY <1>6 DEF PangolinRestore, PangolinRestoreFails, MidTransaction
  <2>2. /\ resource' \in [Requests -> Requests \cup {Nobody}]
        /\ target' \in [Requests -> Requests \cup {Nobody}]
    <3>1. /\ mem[r].found # Nobody => mem[r].found \in Requests
          /\ {mem[r].content, mem[r].target} \subseteq Requests \cup {Nobody}
      BY <1>r DEF Locals
    <3>2. /\ RestoredSettings(r) \in [Requests -> Requests \cup {Nobody}]
          /\ RestoredTarget(r) \in [Requests -> Requests \cup {Nobody}]
          /\ resource \in [Requests -> Requests \cup {Nobody}]
          /\ target \in [Requests -> Requests \cup {Nobody}]
      BY <1>r, <3>1 DEF TypeOK, RestoredSettings, RestoredTarget
    <3> QED
      BY <1>6, <3>2 DEF PangolinRestore, PangolinRestoreFails
  <2>3. TypeOK' /\ \A s \in Requests \ {r} : Same(s)
    BY <1>r, <1>q, <2>1, <2>2, StepFailedFacts, StepFailedUncleanFacts DEF TypeOK, disk, Same
  <2>4. Control(r)'
    BY <1>r, <2>1, FailedControl DEF StepFailed, StepFailedUnclean
  <2> QED
    BY <2>3, <2>4
<1> QED
  BY <1>1, <1>2, <1>3, <1>4, <1>5, <1>6 DEF PangolinStep

(* The handler answers. *)
LEMMA AnswerFacts ==
    ASSUME TypeOK, NEW r \in Requests, NEW what \in Replies, Answer(r, what)
    PROVE  /\ reply' \in [Requests -> Replies] /\ mem' \in [Requests -> Locals]
           /\ pc' \in [Requests -> Positions] /\ pc'[r] = "done"
           /\ mem'[r] = NoLocals
           /\ \A s \in Requests \ {r} : pc'[s] = pc[s] /\ mem'[s] = mem[s]
<1>1. "done" \in Positions
  BY DEF Positions
<1> QED
  BY <1>1, NoLocalsType DEF Answer, Goto, TypeOK

LEMMA HandlerTypeInv ==
    ASSUME TypeInv, NEW r \in Requests, HandlerStep(r)
    PROVE  TypeInv'
<1>r. TypeOK /\ ControlOK /\ Control(r) /\ mem[r] \in Locals
  BY DEF TypeInv, ControlOK, TypeOK
<1>p. /\ {"run", "audit", "save"} \subseteq Positions
      /\ {"rejected", "applied", "conflict", "saved", "error"} \subseteq Replies
      /\ {"applied", "rolled_back", "rollback_failed"} \subseteq Statuses
  BY DEF Positions, Replies, Statuses
<1>q. ASSUME Fault PROVE faults' \in 0..MaxFaults
  BY <1>q, <1>r, BoundAssumption DEF Fault, TypeOK
<1>h. Host(r) \in Hosts
  BY RouteAssumption DEF Host
<1>d. Desired(r) \in [Hosts -> Requests \cup {Nobody}]
  BY <1>r, <1>h DEF Desired, Locals
<1> SUFFICES TypeOK' /\ Control(r)' /\ \A s \in Requests \ {r} : Same(s)
  BY <1>r, OthersControl DEF TypeInv
<1>1. CASE LoadRoutes(r)
  <2>1. /\ pc[r] = "load" /\ mem' = [mem EXCEPT ![r].routes = routes]
        /\ \/ ProviderMutations[r] /\ Goto(r, "run")
           \/ ~ ProviderMutations[r] /\ Goto(r, "save")
    BY <1>1 DEF LoadRoutes
  <2>2. pc' \in [Requests -> Positions] /\ \A s \in Requests \ {r} : pc'[s] = pc[s]
    BY <1>r, <1>p, <2>1, GotoFacts
  <2>3. \/ ProviderMutations[r] /\ pc'[r] = "run"
        \/ ~ ProviderMutations[r] /\ pc'[r] = "save"
    <3>1. CASE ProviderMutations[r]
      BY <3>1, <1>r, <1>p, <2>1, GotoFacts
    <3>2. CASE ~ ProviderMutations[r]
      BY <3>2, <1>r, <1>p, <2>1, GotoFacts
    <3> QED
      BY <3>1, <3>2
  <2>4. mem' \in [Requests -> Locals]
    BY <1>r, <2>1, AssignFacts DEF TypeOK
  <2>5. TypeOK' /\ \A s \in Requests \ {r} : Same(s)
    BY <1>1, <1>r, <2>1, <2>2, <2>4 DEF LoadRoutes, TypeOK, disk, providers, executor, Same
  <2>6. Control(r)'
    BY <1>1, <1>r, <2>1, <2>3 DEF LoadRoutes, Control, executor
  <2> QED
    BY <2>5, <2>6
<1>2. CASE IntegrationMissing(r)
  <2>1. Answer(r, "rejected")
    BY <1>2 DEF IntegrationMissing
  <2>2. TypeOK' /\ \A s \in Requests \ {r} : Same(s)
    BY <1>2, <1>r, <1>p, <2>1, AnswerFacts
    DEF IntegrationMissing, TypeOK, disk, providers, executor, Same
  <2>3. Control(r)'
    BY <1>2, <1>r, <1>p, <2>1, AnswerFacts DEF IntegrationMissing, Control, executor
  <2> QED
    BY <2>2, <2>3
<1>3. CASE ReturnApplied(r)
  <2>1. Goto(r, "audit") /\ pc[r] = "run" /\ status' = [status EXCEPT ![r] = "applied"]
    BY <1>3 DEF ReturnApplied
  <2>2. TypeOK' /\ \A s \in Requests \ {r} : Same(s)
    BY <1>3, <1>r, <1>p, <2>1, GotoFacts DEF ReturnApplied, TypeOK, disk, providers, Same
  <2>3. Control(r)'
    BY <1>3, <1>r, <1>p, <2>1, GotoFacts DEF ReturnApplied, Control
  <2> QED
    BY <2>2, <2>3
<1>4. CASE ReturnRolledBack(r)
  <2>1. PICK what \in {"rolled_back", "rollback_failed"} :
           /\ Goto(r, "audit") /\ pc[r] = "run"
           /\ status' = [status EXCEPT ![r] = what]
    BY <1>4 DEF ReturnRolledBack
  <2>2. TypeOK' /\ \A s \in Requests \ {r} : Same(s)
    BY <1>4, <1>r, <1>p, <2>1, GotoFacts DEF ReturnRolledBack, TypeOK, disk, providers, Same
  <2>3. Control(r)'
    BY <1>4, <1>r, <1>p, <2>1, GotoFacts DEF ReturnRolledBack, Control
  <2> QED
    BY <2>2, <2>3
<1>5. CASE Audit(r)
  <2>1. audited' \subseteq Requests /\ pc[r] = "audit"
    BY <1>5, <1>r DEF Audit, TypeOK
  <2>2. CASE Goto(r, "save") /\ UNCHANGED <<mem, reply>>
    <3>1. TypeOK' /\ \A s \in Requests \ {r} : Same(s)
      BY <1>5, <1>r, <1>p, <2>1, <2>2, GotoFacts DEF Audit, TypeOK, providers, executor, Same
    <3>2. Control(r)'
      BY <1>5, <1>r, <1>p, <2>1, <2>2, GotoFacts DEF Audit, Control, executor
    <3> QED
      BY <3>1, <3>2
  <2>3. ASSUME NEW what \in {"conflict", "saved"}, Answer(r, what)
        PROVE  TypeOK' /\ Control(r)' /\ \A s \in Requests \ {r} : Same(s)
    <3>1. TypeOK' /\ \A s \in Requests \ {r} : Same(s)
      BY <1>5, <1>r, <1>p, <2>1, <2>3, AnswerFacts DEF Audit, TypeOK, providers, executor, Same
    <3>2. Control(r)'
      BY <1>5, <1>r, <1>p, <2>3, AnswerFacts DEF Audit, Control, executor
    <3> QED
      BY <3>1, <3>2
  <2> QED
    BY <1>5, <2>2, <2>3 DEF Audit
<1>6. CASE Save(r)
  <2>1. routes' \in [Hosts -> Requests \cup {Nobody}] /\ pc[r] = "save"
    BY <1>6, <1>d DEF Save
  <2>2. CASE Goto(r, "audit") /\ UNCHANGED <<mem, reply>>
    <3>1. TypeOK' /\ \A s \in Requests \ {r} : Same(s)
      BY <1>6, <1>r, <1>p, <2>1, <2>2, GotoFacts DEF Save, TypeOK, providers, executor, Same
    <3>2. Control(r)'
      BY <1>6, <1>r, <1>p, <2>1, <2>2, GotoFacts DEF Save, Control, executor
    <3> QED
      BY <3>1, <3>2
  <2>3. CASE Answer(r, "applied")
    <3>1. TypeOK' /\ \A s \in Requests \ {r} : Same(s)
      BY <1>6, <1>r, <1>p, <2>1, <2>3, AnswerFacts DEF Save, TypeOK, providers, executor, Same
    <3>2. Control(r)'
      BY <1>6, <1>r, <1>p, <2>3, AnswerFacts DEF Save, Control, executor
    <3> QED
      BY <3>1, <3>2
  <2> QED
    BY <1>6, <2>2, <2>3 DEF Save
<1>7. CASE StoreFails(r)
  <2>1. Answer(r, "error") /\ Fault /\ audited' \subseteq Requests
    BY <1>7, <1>r DEF StoreFails, TypeOK
  <2>2. TypeOK' /\ \A s \in Requests \ {r} : Same(s)
    BY <1>7, <1>r, <1>p, <1>q, <2>1, AnswerFacts
    DEF StoreFails, TypeOK, providers, executor, Same
  <2>3. Control(r)'
    BY <1>7, <1>r, <1>p, <2>1, AnswerFacts DEF StoreFails, Control, executor
  <2> QED
    BY <2>2, <2>3
<1> QED
  BY <1>1, <1>2, <1>3, <1>4, <1>5, <1>6, <1>7 DEF HandlerStep

LEMMA StartTypeInv ==
    ASSUME TypeInv, NEW r \in Requests, Start(r)
    PROVE  TypeInv'
<1>r. TypeOK /\ ControlOK /\ Control(r) /\ "load" \in Positions
  BY DEF TypeInv, ControlOK, Positions
<1>1. Goto(r, "load") /\ pc[r] = "ready" /\ UNCHANGED <<disk, providers, executor, mem, reply, faults>>
  BY DEF Start
<1>2. TypeOK' /\ \A s \in Requests \ {r} : Same(s)
  BY <1>r, <1>1, GotoFacts DEF TypeOK, disk, providers, executor, Same
<1>3. Control(r)'
  BY <1>r, <1>1, GotoFacts DEF Control, executor
<1> QED
  BY <1>r, <1>2, <1>3, OthersControl DEF TypeInv

LEMMA CrashTypeInv ==
    ASSUME TypeInv, Crash
    PROVE  TypeInv'
<1>r. TypeOK /\ ControlOK /\ "dead" \in Positions
  BY DEF TypeInv, Positions
<1>q. faults' \in 0..MaxFaults
  BY <1>r, BoundAssumption DEF Crash, Fault, TypeOK
<1>1. TypeOK'
  <2>1. pc' \in [Requests -> Positions]
    BY <1>r DEF Crash, TypeOK
  <2>2. mem' \in [Requests -> Locals]
    BY NoLocalsType DEF Crash
  <2> QED
    BY <1>r, <1>q, <2>1, <2>2 DEF Crash, TypeOK, disk, executor
<1>2. ASSUME NEW r \in Requests PROVE Control(r)'
  <2>1. Control(r) /\ UNCHANGED executor
    BY <1>r DEF ControlOK, Crash
  <2>2. CASE InProgress(r)
    <3>1. pc'[r] = "dead"
      BY <2>2 DEF Crash
    <3> QED
      BY <2>1, <3>1 DEF Control, executor
  <2>3. CASE ~ InProgress(r)
    <3>1. pc'[r] = pc[r]
      BY <2>3 DEF Crash
    <3>2. pc[r] \in {"ready", "done", "dead"}
      BY <2>3 DEF InProgress
    <3> QED
      BY <2>1, <3>1, <3>2 DEF Control, executor
  <2> QED
    BY <2>2, <2>3
<1> QED
  BY <1>1, <1>2 DEF TypeInv, ControlOK

LEMMA NextTypeInv == TypeInv /\ [Next]_vars => TypeInv'
<1> SUFFICES ASSUME TypeInv, [Next]_vars PROVE TypeInv'
  OBVIOUS
<1>1. ASSUME NEW r \in Requests, Start(r) PROVE TypeInv'
  BY <1>1, StartTypeInv
<1>2. ASSUME NEW r \in Requests, Thread(r) PROVE TypeInv'
  BY <1>2, DnsTypeInv, CaddyTypeInv, PangolinTypeInv, HandlerTypeInv DEF Thread
<1>3. CASE Crash
  BY <1>3, CrashTypeInv
<1>4. CASE UNCHANGED vars
  BY <1>4 DEF vars, disk, providers, executor, TypeInv, TypeOK, ControlOK, Control
<1> QED
  BY <1>1, <1>2, <1>3, <1>4 DEF Next

(* No interleaving of requests, faults and crashes takes the service out of
   its types: a thread never undoes without the snapshot or the file its step
   remembered, and its executor never counts beyond the steps of its plan. *)
THEOREM TypeCorrect == SafeSpec => []TypeOK
<1>1. TypeInv => TypeOK
  BY DEF TypeInv
<1> QED
  BY InitTypeInv, NextTypeInv, <1>1, PTL DEF SafeSpec

-----------------------------------------------------------------------------
(* What a step of a thread between its loading and its save leaves alone. *)
KeepsLists(r) ==
    /\ UNCHANGED <<routes, audited>>
    /\ \A s \in Requests : mem'[s].routes = mem[s].routes
    /\ \A s \in Requests : pc'[s] = "save" => pc[s] = "save"
    /\ \A s \in Requests : status[s] = "applied" => status'[s] = "applied"

LEMMA StepKeepsLists ==
    ASSUME TypeInv, NEW r \in Requests, DnsStep(r) \/ CaddyStep(r) \/ PangolinStep(r)
    PROVE  KeepsLists(r)
<1>r. /\ pc \in [Requests -> Positions] /\ mem \in [Requests -> Locals]
      /\ status \in [Requests -> Statuses] /\ Control(r)
  BY DEF TypeInv, TypeOK, ControlOK
<1>1. UNCHANGED <<routes, audited>>
  BY DEF DnsStep, DnsConflict, DnsAlreadyAnswers, DnsSnapshot, DnsAdd, DnsFails,
         DnsUndoList, DnsUndo, DnsUndoFails, CaddyStep, CaddyRead, CaddyInstall,
         CaddyReload, CaddyFails, CaddyRestore, CaddyRestoreFails, CaddyUndo,
         CaddyUndoReload, CaddyUndoFails, PangolinStep, PangolinAmbiguous,
         PangolinLookup, PangolinPublish, PangolinFails, PangolinBreaksNew, PangolinBreaksAdopted, PangolinBreaksGone,
         PangolinRestore, PangolinRestoreFails, disk
<1>2. \A s \in Requests : mem'[s].routes = mem[s].routes
  <2>1. mem[r] \in Locals
    BY <1>r
  <2>2. CASE UNCHANGED mem
    BY <2>2
  <2>3. ASSUME NEW X, \/ mem' = [mem EXCEPT ![r].dns = X]
                      \/ mem' = [mem EXCEPT ![r].seen = X]
                      \/ mem' = [mem EXCEPT ![r].caddy = X]
        PROVE  <1>2
    BY <1>r, <2>1, <2>3 DEF Locals
  <2>4. ASSUME NEW c, NEW X, \/ mem' = [mem EXCEPT ![r].found = c, ![r].content = X]
                             \/ mem' = [mem EXCEPT ![r].target = X]
        PROVE  <1>2
    BY <1>r, <2>1, <2>4 DEF Locals
  <2>5. CASE DnsStep(r)
    BY <2>2, <2>3, <2>5
    DEF DnsStep, DnsConflict, DnsAlreadyAnswers, DnsSnapshot, DnsAdd, DnsFails,
        DnsUndoList, DnsUndo, DnsUndoFails
  <2>6. CASE CaddyStep(r)
    BY <2>2, <2>3, <2>6
    DEF CaddyStep, CaddyRead, CaddyInstall, CaddyReload, CaddyFails, CaddyRestore,
        CaddyRestoreFails, CaddyUndo, CaddyUndoReload, CaddyUndoFails
  <2>7. CASE PangolinStep(r)
    BY <2>2, <2>4, <2>7
    DEF PangolinStep, PangolinAmbiguous, PangolinLookup, PangolinPublish, PangolinFails, PangolinBreaksNew, PangolinBreaksAdopted, PangolinBreaksGone,
        PangolinRestore, PangolinRestoreFails
  <2> QED
    BY <2>5, <2>6, <2>7
<1>3. \A s \in Requests : pc'[s] = "save" => pc[s] = "save"
  <2>1. PICK position \in Positions \ {"save"} : Goto(r, position)
    BY DEF DnsStep, DnsConflict, DnsAlreadyAnswers, DnsSnapshot, DnsAdd, DnsFails,
         DnsUndoList, DnsUndo, DnsUndoFails, CaddyStep, CaddyRead, CaddyInstall,
         CaddyReload, CaddyFails, CaddyRestore, CaddyRestoreFails, CaddyUndo,
         CaddyUndoReload, CaddyUndoFails, PangolinStep, PangolinAmbiguous,
         PangolinLookup, PangolinPublish, PangolinFails, PangolinBreaksNew, PangolinBreaksAdopted, PangolinBreaksGone,
         PangolinRestore, PangolinRestoreFails, StepApplied, StepFailed,
         StepFailedUnclean, Compensate, StepUndone, Positions
  <2> QED
    BY <1>r, <2>1 DEF Goto
<1>4. \A s \in Requests : status[s] = "applied" => status'[s] = "applied"
  <2>1. \/ status' = status
        \/ status[r] # "applied" /\ Compensate(r)
    <3>1. status[r] = "applied" =>
             pc[r] \in {"audit", "save", "done", "dead"}
      BY <1>r DEF Control
    <3>2. CASE DnsStep(r)
      BY <3>1, <3>2
      DEF DnsStep, DnsConflict, DnsAlreadyAnswers, DnsSnapshot, DnsAdd, DnsFails,
          DnsUndoList, DnsUndo, DnsUndoFails, StepApplied, StepFailed,
          StepUndone, Applying, executor
    <3>3. CASE CaddyStep(r)
      BY <3>1, <3>3
      DEF CaddyStep, CaddyRead, CaddyInstall, CaddyReload, CaddyFails, CaddyRestore,
          CaddyRestoreFails, CaddyUndo, CaddyUndoReload, CaddyUndoFails, StepApplied,
          StepFailed, StepFailedUnclean, StepUndone, Applying, executor
    <3>4. CASE PangolinStep(r)
      BY <3>1, <3>4
      DEF PangolinStep, PangolinAmbiguous, PangolinLookup, PangolinPublish, PangolinFails, PangolinBreaksNew, PangolinBreaksAdopted, PangolinBreaksGone,
          PangolinRestore, PangolinRestoreFails,
          StepApplied, StepFailed, StepFailedUnclean, Applying, executor
    <3> QED
      BY <3>2, <3>3, <3>4
  <2> QED
    BY <1>r, <2>1 DEF Compensate
<1> QED
  BY <1>1, <1>2, <1>3, <1>4 DEF KeepsLists

(* A route of a table belongs there: under its own hostname, its transaction
   applied and audited. *)
Belongs(h, c) ==
    /\ Host(c) = h
    /\ ProviderMutations[c] => status[c] = "applied" /\ c \in audited

Earned(list) == \A h \in Hosts : list[h] # Nobody => Belongs(h, list[h])

(* SavedOnlyAfterApplied is not inductive: a save writes what its thread once
   loaded, so the tables in the threads' memory must have been earned too, and
   so must the save. *)
SavedInv ==
    /\ Earned(routes)
    /\ \A r \in Requests : Earned(mem[r].routes)
    /\ \A r \in Requests :
          pc[r] = "save" /\ ProviderMutations[r] => status[r] = "applied" /\ r \in audited

LEMMA InitSavedInv == Init => SavedInv
  BY DEF Init, SavedInv, Earned, NoRoutes, NoLocals

(* Nothing is lost that the tables rest on. *)
LEMMA BelongsStays ==
    ASSUME TypeInv, SavedInv, audited \subseteq audited',
           \A s \in Requests : status[s] = "applied" => status'[s] = "applied",
           UNCHANGED routes \/ (\E r \in Requests : routes' = Desired(r) /\ pc[r] = "save"),
           \A s \in Requests : mem'[s].routes \in {mem[s].routes, routes, NoRoutes}
    PROVE  Earned(routes)' /\ \A r \in Requests : Earned(mem[r].routes)'
<1> DEFINE Later(h, c) ==
               /\ Host(c) = h
               /\ ProviderMutations[c] => status'[c] = "applied" /\ c \in audited'
<1>r. /\ routes \in [Hosts -> Requests \cup {Nobody}]
      /\ \A s \in Requests : mem[s].routes \in [Hosts -> Requests \cup {Nobody}]
  BY DEF TypeInv, TypeOK, Locals
<1>h. \A r \in Requests : Host(r) \in Hosts
  BY RouteAssumption DEF Host
<1> HIDE DEF Later
<1>1. \A h \in Hosts, c \in Requests : Belongs(h, c) => Later(h, c)
  BY DEF Belongs, Later
<1>2. ASSUME NEW h \in Hosts, routes'[h] # Nobody PROVE Later(h, routes'[h])
  <2>1. CASE UNCHANGED routes
    BY <1>1, <1>2, <1>r, <2>1 DEF SavedInv, Earned
  <2>2. ASSUME NEW r \in Requests, routes' = Desired(r), pc[r] = "save"
        PROVE  Later(h, routes'[h])
    <3>1. Belongs(Host(r), r)
      BY <2>2 DEF SavedInv, Belongs
    <3>2. CASE h = Host(r)
      <4>1. routes'[h] = r
        BY <2>2, <3>2, <1>r, <1>h DEF Desired
      <4> QED
        BY <4>1, <3>1, <3>2, <1>1
    <3>3. CASE h # Host(r)
      <4>1. routes'[h] = mem[r].routes[h] /\ mem[r].routes[h] \in Requests
        BY <1>2, <2>2, <3>3, <1>r, <1>h DEF Desired
      <4>2. Belongs(h, mem[r].routes[h])
        BY <1>2, <4>1 DEF SavedInv, Earned
      <4> QED
        BY <4>1, <4>2, <1>1
    <3> QED
      BY <3>2, <3>3
  <2> QED
    BY <2>1, <2>2
<1>3. ASSUME NEW r \in Requests, NEW h \in Hosts, mem'[r].routes[h] # Nobody
      PROVE  Later(h, mem'[r].routes[h])
  <2>1. CASE mem'[r].routes = mem[r].routes
    BY <2>1, <1>1, <1>3, <1>r DEF SavedInv, Earned
  <2>2. CASE mem'[r].routes = routes
    BY <2>2, <1>1, <1>3, <1>r DEF SavedInv, Earned
  <2>3. CASE mem'[r].routes = NoRoutes
    BY <2>3, <1>3 DEF NoRoutes
  <2> QED
    BY <2>1, <2>2, <2>3
<1>4. Earned(routes)'
  BY <1>2 DEF Earned, Belongs, Later, Host
<1>5. \A r \in Requests : Earned(mem[r].routes)'
  BY <1>3 DEF Earned, Belongs, Later, Host
<1> QED
  BY <1>4, <1>5

(* The steps of a handler outside its transaction. *)
LEMMA HandlerKeepsEarned ==
    ASSUME TypeInv, NEW r \in Requests, HandlerStep(r)
    PROVE  /\ audited \subseteq audited'
           /\ \A s \in Requests : status[s] = "applied" => status'[s] = "applied"
           /\ UNCHANGED routes \/ (routes' = Desired(r) /\ pc[r] = "save")
           /\ \A s \in Requests : mem'[s].routes \in {mem[s].routes, routes, NoRoutes}
           /\ \A s \in Requests : pc'[s] = "save" /\ ProviderMutations[s] =>
                 \/ pc[s] = "save" /\ status'[s] = status[s]
                 \/ status'[s] = "applied" /\ s \in audited'
<1>r. /\ pc \in [Requests -> Positions] /\ mem \in [Requests -> Locals]
      /\ status \in [Requests -> Statuses] /\ mem[r] \in Locals
  BY DEF TypeInv, TypeOK
<1>1. ASSUME NEW what, Answer(r, what)
      PROVE  /\ \A s \in Requests : mem'[s].routes \in {mem[s].routes, NoRoutes}
             /\ \A s \in Requests : pc'[s] = "save" => pc[s] = "save"
  BY <1>1, <1>r DEF Answer, Goto, NoLocals
<1>2. ASSUME NEW position, Goto(r, position), position # "save"
      PROVE  \A s \in Requests : pc'[s] = "save" => pc[s] = "save"
  BY <1>2, <1>r DEF Goto
<1>3. CASE LoadRoutes(r)
  <2>1. \A s \in Requests : mem'[s].routes \in {mem[s].routes, routes}
    BY <1>3, <1>r DEF LoadRoutes, Locals
  <2>2. \A s \in Requests : pc'[s] = "save" /\ ProviderMutations[s] => pc[s] = "save"
    <3>1. CASE ProviderMutations[r]
      BY <1>2, <1>3, <3>1 DEF LoadRoutes
    <3>2. CASE ~ ProviderMutations[r]
      BY <1>3, <1>r, <3>2 DEF LoadRoutes, Goto
    <3> QED
      BY <3>1, <3>2
  <2> QED
    BY <1>3, <2>1, <2>2 DEF LoadRoutes, disk, executor
<1>4. CASE IntegrationMissing(r)
  BY <1>1, <1>4 DEF IntegrationMissing, disk, executor
<1>5. CASE ReturnApplied(r)
  <2>1. \A s \in Requests : pc'[s] = "save" => pc[s] = "save" /\ s # r
    BY <1>5, <1>r DEF ReturnApplied, Goto
  <2> QED
    BY <1>5, <1>r, <2>1 DEF ReturnApplied, disk
<1>6. CASE ReturnRolledBack(r)
  <2>1. \A s \in Requests : pc'[s] = "save" => pc[s] = "save" /\ s # r
    BY <1>6, <1>r DEF ReturnRolledBack, Goto
  <2> QED
    BY <1>6, <1>r, <2>1 DEF ReturnRolledBack, disk
<1>7. CASE Audit(r)
  <2>1. CASE status[r] = "applied" /\ Goto(r, "save") /\ UNCHANGED <<mem, reply>>
    <3>1. \A s \in Requests : pc'[s] = "save" => pc[s] = "save" \/ s = r
      BY <2>1, <1>r DEF Goto
    <3> QED
      BY <1>7, <2>1, <3>1 DEF Audit, executor
  <2>2. ASSUME NEW what, Answer(r, what)
        PROVE  /\ \A s \in Requests : mem'[s].routes \in {mem[s].routes, NoRoutes}
               /\ \A s \in Requests : pc'[s] = "save" => pc[s] = "save"
    BY <1>1, <2>2
  <2> QED
    BY <1>7, <2>1, <2>2 DEF Audit, executor
<1>8. CASE Save(r)
  <2>1. /\ \A s \in Requests : mem'[s].routes \in {mem[s].routes, NoRoutes}
        /\ \A s \in Requests : pc'[s] = "save" => pc[s] = "save"
    BY <1>1, <1>2, <1>8 DEF Save
  <2> QED
    BY <1>8, <2>1 DEF Save, executor
<1>9. CASE StoreFails(r)
  BY <1>1, <1>9 DEF StoreFails, executor
<1> QED
  BY <1>3, <1>4, <1>5, <1>6, <1>7, <1>8, <1>9 DEF HandlerStep

LEMMA NextSavedInv == TypeInv /\ SavedInv /\ [Next]_vars => SavedInv'
<1> SUFFICES ASSUME TypeInv, SavedInv, [Next]_vars PROVE SavedInv'
  OBVIOUS
<1>1. ASSUME NEW r \in Requests, Start(r) PROVE SavedInv'
  <2>1. /\ UNCHANGED <<routes, audited, status, mem>>
        /\ \A s \in Requests : pc'[s] = "save" => pc[s] = "save"
    BY <1>1 DEF Start, Goto, disk, executor, TypeInv, TypeOK
  <2> QED
    BY <2>1 DEF SavedInv, Earned, Belongs
<1>2. ASSUME NEW r \in Requests, DnsStep(r) \/ CaddyStep(r) \/ PangolinStep(r)
      PROVE  SavedInv'
  <2>1. KeepsLists(r)
    BY <1>2, StepKeepsLists
  <2>2. Earned(routes)' /\ \A s \in Requests : Earned(mem[s].routes)'
    BY <2>1, BelongsStays DEF KeepsLists
  <2> QED
    BY <2>1, <2>2 DEF SavedInv, KeepsLists
<1>3. ASSUME NEW r \in Requests, HandlerStep(r) PROVE SavedInv'
  <2>1. Earned(routes)' /\ \A s \in Requests : Earned(mem[s].routes)'
    BY <1>3, HandlerKeepsEarned, BelongsStays
  <2>2. \A s \in Requests :
           pc'[s] = "save" /\ ProviderMutations[s] => status'[s] = "applied" /\ s \in audited'
    BY <1>3, HandlerKeepsEarned DEF SavedInv
  <2> QED
    BY <2>1, <2>2 DEF SavedInv
<1>4. CASE Crash
  <2>1. UNCHANGED <<routes, audited, status>>
    BY <1>4 DEF Crash, disk, executor
  <2>2. \A s \in Requests : mem'[s].routes = NoRoutes
    BY <1>4 DEF Crash, NoLocals
  <2>3. \A s \in Requests : pc'[s] # "save"
    BY <1>4 DEF Crash, InProgress
  <2> QED
    BY <2>1, <2>2, <2>3, BelongsStays DEF SavedInv
<1>5. CASE UNCHANGED vars
  BY <1>5 DEF vars, disk, executor, SavedInv, Earned, Belongs
<1> QED
  BY <1>1, <1>2, <1>3, <1>4, <1>5 DEF Next, Thread

(* No interleaving of any number of requests, faults and crashes gets a route
   into routes.json whose transaction did not return "applied", or was not
   audited, or under a hostname that is not its own. *)
THEOREM SaveCorrectness == SafeSpec => []SavedOnlyAfterApplied
<1>1. TypeInv /\ SavedInv => SavedOnlyAfterApplied
  BY DEF SavedInv, Earned, Belongs, SavedOnlyAfterApplied
<1> QED
  BY InitTypeInv, NextTypeInv, InitSavedInv, NextSavedInv, <1>1, PTL DEF SafeSpec

-----------------------------------------------------------------------------
(* A configuration with one route for each hostname. *)
OnePerHost(config) == \A r, s \in config : Host(r) = Host(s) => r = s

(* Caddy never has two routes for one hostname, on disk or running. *)
OneProxyRoutePerHost == OnePerHost(caddyFile) /\ OnePerHost(caddyRunning)

(* It is not inductive either: a restore or a rollback writes the configuration
   its thread remembered. *)
ProxyInv ==
    /\ OnePerHost(caddyFile)
    /\ OnePerHost(caddyRunning)
    /\ \A r \in Requests : mem[r].caddy # Nobody => OnePerHost(mem[r].caddy)

LEMMA ProxyConfigIsOnePerHost ==
    ASSUME NEW list PROVE OnePerHost(ProxyConfig(list))
  BY DEF OnePerHost, ProxyConfig

LEMMA InitProxyInv == Init => ProxyInv
  BY DEF Init, ProxyInv, OnePerHost, NoLocals

(* A thread remembers the file, or nothing. *)
LEMMA RemembersTheFile ==
    ASSUME TypeInv, NEW r \in Requests, Thread(r)
    PROVE  \A s \in Requests : mem'[s].caddy \in {mem[s].caddy, caddyFile, Nobody}
<1>r. mem \in [Requests -> Locals] /\ mem[r] \in Locals
  BY DEF TypeInv, TypeOK
<1>1. CASE UNCHANGED mem
  BY <1>1
<1>2. ASSUME NEW X, \/ mem' = [mem EXCEPT ![r].dns = X]
                    \/ mem' = [mem EXCEPT ![r].seen = X]
                    \/ mem' = [mem EXCEPT ![r].routes = X]
      PROVE  \A s \in Requests : mem'[s].caddy = mem[s].caddy
  BY <1>r, <1>2 DEF Locals
<1>3. ASSUME NEW c, NEW X, \/ mem' = [mem EXCEPT ![r].found = c, ![r].content = X]
                           \/ mem' = [mem EXCEPT ![r].target = X]
      PROVE  \A s \in Requests : mem'[s].caddy = mem[s].caddy
  BY <1>r, <1>3 DEF Locals
<1>4. ASSUME mem' = [mem EXCEPT ![r].caddy = caddyFile]
      PROVE  \A s \in Requests : mem'[s].caddy \in {mem[s].caddy, caddyFile}
  BY <1>r, <1>4 DEF Locals
<1>5. ASSUME mem' = [mem EXCEPT ![r] = NoLocals]
      PROVE  \A s \in Requests : mem'[s].caddy \in {mem[s].caddy, Nobody}
  BY <1>r, <1>5 DEF NoLocals
<1>6. CASE DnsStep(r)
  BY <1>1, <1>2, <1>6
  DEF DnsStep, DnsConflict, DnsAlreadyAnswers, DnsSnapshot, DnsAdd, DnsFails,
      DnsUndoList, DnsUndo, DnsUndoFails
<1>7. CASE CaddyStep(r)
  BY <1>1, <1>4, <1>7
  DEF CaddyStep, CaddyRead, CaddyInstall, CaddyReload, CaddyFails, CaddyRestore,
      CaddyRestoreFails, CaddyUndo, CaddyUndoReload, CaddyUndoFails
<1>8. CASE PangolinStep(r)
  BY <1>1, <1>3, <1>8
  DEF PangolinStep, PangolinAmbiguous, PangolinLookup, PangolinPublish, PangolinFails, PangolinBreaksNew, PangolinBreaksAdopted, PangolinBreaksGone,
      PangolinRestore, PangolinRestoreFails
<1>9. CASE HandlerStep(r)
  BY <1>1, <1>2, <1>5, <1>9
  DEF HandlerStep, LoadRoutes, IntegrationMissing, ReturnApplied, ReturnRolledBack,
      Audit, Save, StoreFails, Answer
<1> QED
  BY <1>6, <1>7, <1>8, <1>9 DEF Thread

LEMMA NextProxyInv == TypeInv /\ ProxyInv /\ [Next]_vars => ProxyInv'
<1> SUFFICES ASSUME TypeInv, ProxyInv, [Next]_vars PROVE ProxyInv'
  OBVIOUS
<1>1. ASSUME NEW r \in Requests, Thread(r) PROVE ProxyInv'
  <2>1. Control(r) /\ TypeOK /\ "caddy" \in Providers
    BY DEF TypeInv, ControlOK, Providers
  <2>2. /\ \/ caddyFile' \in {caddyFile, ProxyConfig(Desired(r))}
           \/ caddyFile' = mem[r].caddy /\ mem[r].caddy # Nobody
        /\ caddyRunning' \in {caddyRunning, caddyFile}
    <3>1. CASE DnsStep(r)
      BY <3>1
      DEF DnsStep, DnsConflict, DnsAlreadyAnswers, DnsSnapshot, DnsAdd, DnsFails,
          DnsUndoList, DnsUndo, DnsUndoFails, providers
    <3>2. CASE CaddyStep(r)
      <4>1. CASE CaddyRestore(r)
        BY <2>1, <4>1 DEF CaddyRestore, Control
      <4>2. CASE CaddyUndo(r)
        BY <2>1, <4>2, UndoingFacts DEF CaddyUndo
      <4>3. CASE CaddyRestoreFails(r)
        BY <2>1, <4>3 DEF CaddyRestoreFails, Control
      <4> QED
        BY <3>2, <4>1, <4>2, <4>3
        DEF CaddyStep, CaddyRead, CaddyInstall, CaddyReload, CaddyFails,
            CaddyUndoReload, CaddyUndoFails, providers
    <3>3. CASE PangolinStep(r)
      BY <3>3
      DEF PangolinStep, PangolinAmbiguous, PangolinLookup, PangolinPublish,
          PangolinFails, PangolinBreaksNew, PangolinBreaksAdopted, PangolinBreaksGone,
          PangolinRestore, PangolinRestoreFails, providers
    <3>4. CASE HandlerStep(r)
      BY <3>4
      DEF HandlerStep, LoadRoutes, IntegrationMissing, ReturnApplied, ReturnRolledBack,
          Audit, Save, StoreFails, providers
    <3> QED
      BY <1>1, <3>1, <3>2, <3>3, <3>4 DEF Thread
  <2>3. OnePerHost(caddyFile') /\ OnePerHost(caddyRunning')
    BY <2>2, ProxyConfigIsOnePerHost DEF ProxyInv
  <2>4. \A s \in Requests : mem'[s].caddy # Nobody => OnePerHost(mem'[s].caddy)
    BY <1>1, RemembersTheFile DEF ProxyInv
  <2> QED
    BY <2>3, <2>4 DEF ProxyInv, OnePerHost, Host
<1>2. ASSUME NEW r \in Requests, Start(r) PROVE ProxyInv'
  BY <1>2 DEF Start, providers, ProxyInv, OnePerHost, Host
<1>3. CASE Crash
  <2>1. caddyFile' = caddyFile /\ caddyRunning' = caddyFile
    BY <1>3 DEF Crash
  <2>2. \A r \in Requests : mem'[r].caddy = Nobody
    BY <1>3 DEF Crash, NoLocals
  <2> QED
    BY <2>1, <2>2 DEF ProxyInv, OnePerHost, Host
<1>4. CASE UNCHANGED vars
  BY <1>4 DEF vars, providers, ProxyInv, OnePerHost, Host
<1> QED
  BY <1>1, <1>2, <1>3, <1>4 DEF Next

(* Whatever threads build, restore, reload and lose Caddy's configuration, the
   file and the running Caddy have at most one route for a hostname. *)
THEOREM ProxyCorrectness == SafeSpec => []OneProxyRoutePerHost
<1>1. TypeInv /\ ProxyInv => OneProxyRoutePerHost
  BY DEF ProxyInv, OnePerHost, OneProxyRoutePerHost
<1> QED
  BY InitTypeInv, NextTypeInv, InitProxyInv, NextProxyInv, <1>1, PTL DEF SafeSpec

-----------------------------------------------------------------------------
(* A rollback is recorded for a provider of the plan only, and only after one
   of its steps failed. *)
Recorded(r) ==
    /\ \A p \in Providers :
          rollback[r][p] # "none" =>
              /\ status[r] # "running"
              /\ \E i \in 1..Len(StepsOf(r)) : StepsOf(r)[i] = p
    /\ pc[r] = "dns_undo" => Len(StepsOf(r)) > 1

RecordInv == \A r \in Requests : Recorded(r)

LEMMA InitRecordInv == Init => RecordInv
  BY DEF Init, RecordInv, Recorded

(* Everything a step of a thread does to its executor. *)
ExecutorStep(r) ==
    \/ UNCHANGED executor
    \/ /\ StepApplied(r)
       /\ status[r] = "running" /\ done[r] < Len(StepsOf(r))
    \/ /\ Compensate(r)
       /\ status[r] = "running" /\ done[r] < Len(StepsOf(r))
    \/ /\ \E p \in Providers, result \in {"rolled_back", "rollback_failed"} :
             StepUndone(r, p, result) /\ StepsOf(r)[todo[r]] = p
       /\ status[r] = "compensating" /\ todo[r] > 0
    \/ ReturnApplied(r)
    \/ ReturnRolledBack(r)

LEMMA DnsExecutes ==
    ASSUME TypeInv, RecordInv, NEW r \in Requests, DnsStep(r)
    PROVE  /\ ExecutorStep(r)
           /\ pc'[r] = "dns_undo" => Len(StepsOf(r)) > 1
<1>r. TypeOK /\ Control(r) /\ "dns" \in Providers /\ Recorded(r)
  BY DEF TypeInv, ControlOK, RecordInv, Providers
<1>a. Applying(r, "dns") \/ pc[r] = "dns_add" =>
         status[r] = "running" /\ done[r] < Len(StepsOf(r))
  BY <1>r, StepsFacts DEF Applying, Control
<1>u. Undoing(r, "dns") \/ pc[r] = "dns_undo" =>
         /\ status[r] = "compensating" /\ todo[r] > 0
         /\ StepsOf(r)[todo[r]] = "dns" /\ Len(StepsOf(r)) > 1
  <2>1. pc[r] = "dns_undo" => todo[r] = 1 /\ Len(StepsOf(r)) > 1 /\ StepsOf(r)[1] = "dns"
    BY <1>r, StepsFacts DEF Control, Recorded
  <2>2. Undoing(r, "dns") => todo[r] \in 1..Len(StepsOf(r)) /\ StepsOf(r)[todo[r]] = "dns"
    BY <1>r, StepsFacts DEF Undoing, Control, TypeOK
  <2> QED
    BY <1>r, <2>1, <2>2, StepsFacts DEF Undoing, Control
<1>g. pc \in [Requests -> Positions]
  BY <1>r DEF TypeOK
<1>1. CASE DnsConflict(r) \/ DnsFails(r)
  BY <1>1, <1>a, <1>g DEF DnsConflict, DnsFails, ExecutorStep, StepFailed, Compensate, Goto
<1>2. CASE DnsAlreadyAnswers(r) \/ DnsAdd(r)
  BY <1>2, <1>a, <1>g DEF DnsAlreadyAnswers, DnsAdd, ExecutorStep, StepApplied, Goto
<1>3. CASE DnsSnapshot(r)
  BY <1>3, <1>g DEF DnsSnapshot, ExecutorStep, Goto
<1>4. CASE DnsUndoList(r)
  BY <1>4, <1>u DEF DnsUndoList, ExecutorStep
<1>5. CASE DnsUndo(r) \/ DnsUndoFails(r)
  BY <1>5, <1>r, <1>u, <1>g DEF DnsUndo, DnsUndoFails, ExecutorStep, StepUndone, Goto
<1> QED
  BY <1>1, <1>2, <1>3, <1>4, <1>5 DEF DnsStep

LEMMA CaddyExecutes ==
    ASSUME TypeInv, NEW r \in Requests, CaddyStep(r)
    PROVE  ExecutorStep(r) /\ pc'[r] # "dns_undo"
<1>r. TypeOK /\ Control(r) /\ "caddy" \in Providers
  BY DEF TypeInv, ControlOK, Providers
<1>a. pc[r] \in {"caddy_install", "caddy_reload", "caddy_restore"} =>
         status[r] = "running" /\ done[r] < Len(StepsOf(r))
  BY <1>r, StepsFacts DEF Control
<1>u. Undoing(r, "caddy") \/ pc[r] = "caddy_undo_reload" =>
         /\ status[r] = "compensating" /\ todo[r] > 0
         /\ StepsOf(r)[todo[r]] = "caddy"
  <2>1. pc[r] = "caddy_undo_reload" => todo[r] = 2 /\ 2 \in 1..Len(StepsOf(r))
    BY <1>r, StepsFacts DEF Control, TypeOK
  <2>2. pc[r] = "caddy_undo_reload" => StepsOf(r)[2] = "caddy"
    BY <2>1, StepsFacts
  <2> QED
    BY <1>r, <2>1, <2>2 DEF Undoing, Control
<1>g. pc \in [Requests -> Positions]
  BY <1>r DEF TypeOK
<1>1. CASE CaddyRead(r) \/ CaddyInstall(r) \/ CaddyFails(r) \/ CaddyUndo(r)
  BY <1>1, <1>g DEF CaddyRead, CaddyInstall, CaddyFails, CaddyUndo, ExecutorStep, Goto
<1>2. CASE CaddyReload(r)
  BY <1>2, <1>a, <1>g DEF CaddyReload, ExecutorStep, StepApplied, Goto
<1>3. CASE CaddyRestore(r) \/ CaddyRestoreFails(r)
  BY <1>3, <1>a, <1>g DEF CaddyRestore, CaddyRestoreFails, ExecutorStep, StepFailed,
      StepFailedUnclean, Compensate, Goto
<1>4. CASE CaddyUndoReload(r) \/ CaddyUndoFails(r)
  BY <1>4, <1>r, <1>u, <1>g DEF CaddyUndoReload, CaddyUndoFails, ExecutorStep, StepUndone, Goto
<1> QED
  BY <1>1, <1>2, <1>3, <1>4 DEF CaddyStep

LEMMA PangolinExecutes ==
    ASSUME TypeInv, NEW r \in Requests, PangolinStep(r)
    PROVE  ExecutorStep(r) /\ pc'[r] # "dns_undo"
<1>r. TypeOK /\ Control(r)
  BY DEF TypeInv, ControlOK
<1>a. Applying(r, "pangolin") \/ pc[r] \in {"pangolin_publish", "pangolin_restore"} =>
         status[r] = "running" /\ done[r] < Len(StepsOf(r))
  BY <1>r, StepsFacts DEF Applying, Control, TypeOK
<1>g. pc \in [Requests -> Positions]
  BY <1>r DEF TypeOK
<1>1. CASE \/ PangolinAmbiguous(r) \/ PangolinFails(r)
           \/ PangolinRestore(r) \/ PangolinRestoreFails(r)
  <2>1. /\ Compensate(r)
        /\ Applying(r, "pangolin") \/ pc[r] \in {"pangolin_publish", "pangolin_restore"}
    BY <1>1 DEF PangolinAmbiguous, PangolinFails, PangolinRestore, PangolinRestoreFails,
                StepFailed, StepFailedUnclean
  <2> QED
    BY <1>a, <1>g, <2>1 DEF ExecutorStep, Compensate, Goto
<1>4. CASE PangolinBreaksNew(r) \/ PangolinBreaksAdopted(r) \/ PangolinBreaksGone(r)
  BY <1>4, <1>g DEF PangolinBreaksNew, PangolinBreaksAdopted, PangolinBreaksGone, ExecutorStep, Goto
<1>2. CASE PangolinLookup(r)
  BY <1>2, <1>g DEF PangolinLookup, ExecutorStep, Goto
<1>3. CASE PangolinPublish(r)
  BY <1>3, <1>a, <1>g DEF PangolinPublish, ExecutorStep, StepApplied, Goto
<1> QED
  BY <1>1, <1>2, <1>3, <1>4 DEF PangolinStep

LEMMA HandlerExecutes ==
    ASSUME TypeInv, NEW r \in Requests, HandlerStep(r)
    PROVE  ExecutorStep(r) /\ pc'[r] # "dns_undo"
<1>g. pc \in [Requests -> Positions]
  BY DEF TypeInv, TypeOK
<1>1. CASE LoadRoutes(r)
  BY <1>1, <1>g DEF LoadRoutes, ExecutorStep, Goto
<1>2. CASE ReturnApplied(r) \/ ReturnRolledBack(r)
  BY <1>2, <1>g DEF ReturnApplied, ReturnRolledBack, ExecutorStep, Goto
<1>3. CASE IntegrationMissing(r) \/ Audit(r) \/ Save(r) \/ StoreFails(r)
  BY <1>3, <1>g DEF IntegrationMissing, Audit, Save, StoreFails, Answer, ExecutorStep, Goto
<1> QED
  BY <1>1, <1>2, <1>3 DEF HandlerStep

(* What the types and the control of one executor amount to. *)
LEMMA ExecutorFacts ==
    ASSUME TypeInv, NEW r \in Requests
    PROVE  /\ TypeOK /\ Control(r)
           /\ done[r] \in 0..3 /\ todo[r] \in 0..3 /\ Len(StepsOf(r)) \in 1..3
           /\ todo[r] <= done[r] /\ done[r] <= Len(StepsOf(r))
           /\ rollback[r] \in [Providers -> {"none", "rolled_back", "rollback_failed"}]
<1>1. TypeOK /\ Control(r)
  BY DEF TypeInv, ControlOK
<1>2. todo[r] <= done[r] /\ done[r] <= Len(StepsOf(r))
  BY <1>1 DEF Control
<1>3. /\ done[r] \in 0..3 /\ todo[r] \in 0..3
      /\ rollback[r] \in [Providers -> {"none", "rolled_back", "rollback_failed"}]
  BY <1>1 DEF TypeOK
<1> QED
  BY <1>1, <1>2, <1>3, StepsFacts

(* The step of the executor that each of them is. *)
LEMMA AppliedRuns ==
    ASSUME TypeInv, NEW r \in Requests, Recorded(r), StepApplied(r),
           status[r] = "running", done[r] < Len(StepsOf(r))
    PROVE  Tx(r)!Next
<1> DEFINE n == Len(StepsOf(r))
           carried == [i \in 1..n |-> i <= done[r] /\ rollback[r][StepsOf(r)[i]] # "rolled_back"]
<1>r. TypeOK /\ done[r] \in 0..3 /\ n \in 1..3
  BY ExecutorFacts
<1>l. done[r] < 3
  <2>1. \A a \in 0..3, b \in 1..3 : a < b => a < 3
    OBVIOUS
  <2> QED
    BY <1>r, <2>1
<1>1. /\ done'[r] = done[r] + 1
      /\ status'[r] = status[r] /\ todo'[r] = todo[r] /\ rollback'[r] = rollback[r]
  BY <1>r, <1>l, StepAppliedFacts
<1>2. \A i \in 1..n : rollback[r][StepsOf(r)[i]] = "none"
  BY StepsFacts DEF Recorded
<1>3. carried' = [carried EXCEPT ![done[r] + 1] = TRUE]
  <2>1. \A i \in 1..n : (i <= done[r] + 1) <=> (i = done[r] + 1 \/ i <= done[r])
    BY <1>r
  <2>2. carried' = [i \in 1..n |-> i <= done[r] + 1]
    BY <1>1, <1>2
  <2> QED
    BY <1>2, <2>1, <2>2
<1>4. Tx(r)!ApplySucceeds
  BY <1>1, <1>3 DEF Tx!ApplySucceeds
<1> QED
  BY <1>4 DEF Tx!Next

LEMMA FailedRuns ==
    ASSUME TypeInv, NEW r \in Requests, Compensate(r),
           status[r] = "running", done[r] < Len(StepsOf(r))
    PROVE  Tx(r)!Next
<1> DEFINE n == Len(StepsOf(r))
           carried == [i \in 1..n |-> i <= done[r] /\ rollback[r][StepsOf(r)[i]] # "rolled_back"]
<1>r. TypeOK /\ done[r] \in 0..3 /\ n \in 1..3
  BY ExecutorFacts
<1>1. /\ status'[r] = "compensating" /\ todo'[r] = done[r]
      /\ done'[r] = done[r] /\ rollback'[r] = rollback[r]
  BY <1>r, CompensateFacts
<1>2. carried' = carried
  BY <1>1
<1>3. carried = [carried EXCEPT ![done[r] + 1] = FALSE]
  <2>1. ~ (done[r] + 1 <= done[r])
    BY <1>r
  <2> QED
    BY <2>1
<1>4. Tx(r)!FailAndUndo(done[r])
  BY <1>1, <1>2, <1>3 DEF Tx!FailAndUndo
<1> QED
  BY <1>4 DEF Tx!ApplyFails, Tx!Next

LEMMA UndoneRuns ==
    ASSUME TypeInv, NEW r \in Requests,
           NEW p \in Providers, NEW result \in {"rolled_back", "rollback_failed"},
           StepUndone(r, p, result), StepsOf(r)[todo[r]] = p,
           status[r] = "compensating", todo[r] > 0
    PROVE  Tx(r)!Next
<1> DEFINE n == Len(StepsOf(r))
           recorded == [i \in 1..n |-> rollback[r][StepsOf(r)[i]]]
           carried == [i \in 1..n |-> i <= done[r] /\ rollback[r][StepsOf(r)[i]] # "rolled_back"]
<1>r. /\ TypeOK /\ todo[r] \in 1..n /\ todo[r] <= done[r]
      /\ rollback[r] \in [Providers -> {"none", "rolled_back", "rollback_failed"}]
  BY ExecutorFacts
<1>1. /\ todo'[r] = todo[r] - 1 /\ status'[r] = status[r] /\ done'[r] = done[r]
  BY <1>r, StepUndoneFacts
<1>2. rollback'[r] = [rollback[r] EXCEPT ![p] = result]
  BY <1>r DEF StepUndone, TypeOK
<1>3. \A i \in 1..n : StepsOf(r)[i] \in Providers /\ (StepsOf(r)[i] = p <=> i = todo[r])
  BY <1>r, StepsFacts DEF Providers
<1>4. \A i \in 1..n :
         rollback'[r][StepsOf(r)[i]] = IF i = todo[r] THEN result ELSE rollback[r][StepsOf(r)[i]]
  BY <1>r, <1>2, <1>3
<1>5. recorded' = [recorded EXCEPT ![todo[r]] = result]
  BY <1>4
<1>6. carried' = [carried EXCEPT ![todo[r]] = (result # "rolled_back")]
  BY <1>1, <1>4, <1>r
<1>7. Tx(r)!Undo(todo[r], result, result # "rolled_back", todo[r] - 1)
  BY <1>1, <1>5, <1>6 DEF Tx!Undo
<1>8. CASE result = "rolled_back"
  BY <1>7, <1>8 DEF Tx!RollbackSucceeds, Tx!Next
<1>9. CASE result = "rollback_failed"
  BY <1>7, <1>9 DEF Tx!RollbackFails, Tx!Next
<1> QED
  BY <1>8, <1>9

LEMMA ReturnRuns ==
    ASSUME TypeInv, NEW r \in Requests, Recorded(r),
           ReturnApplied(r) \/ ReturnRolledBack(r)
    PROVE  Tx(r)!Next
<1>r. status \in [Requests -> Statuses]
  BY DEF TypeInv, TypeOK
<1>1. CASE ReturnApplied(r)
  <2>1. /\ status'[r] = "applied" /\ UNCHANGED <<done, todo, rollback>>
        /\ status[r] = "running" /\ done[r] = Len(StepsOf(r))
    BY <1>1, <1>r DEF ReturnApplied
  <2> QED
    BY <2>1 DEF Tx!ReturnApplied, Tx!Return, Tx!Next
<1>2. CASE ReturnRolledBack(r)
  <2> DEFINE failed == \E p \in Providers : rollback[r][p] = "rollback_failed"
  <2>1. /\ status'[r] = IF failed THEN "rollback_failed" ELSE "rolled_back"
        /\ UNCHANGED <<done, todo, rollback>>
        /\ status[r] = "compensating" /\ todo[r] = 0
    BY <1>2, <1>r DEF ReturnRolledBack
  <2>2. failed <=> \E s \in Tx(r)!Steps :
                      [i \in 1..Len(StepsOf(r)) |-> rollback[r][StepsOf(r)[i]]][s] = "rollback_failed"
    BY StepsFacts DEF Recorded, Tx!Steps
  <2> QED
    BY <2>1, <2>2 DEF Tx!ReturnRolledBack, Tx!Return, Tx!Next
<1> QED
  BY <1>1, <1>2

LEMMA ExecutorStepRuns ==
    ASSUME TypeInv, RecordInv, NEW r \in Requests, ExecutorStep(r),
           pc'[r] = "dns_undo" => Len(StepsOf(r)) > 1
    PROVE  Recorded(r)' /\ [Tx(r)!Next]_(Tx(r)!vars)
<1>r. TypeOK /\ Control(r) /\ Recorded(r)
  BY DEF TypeInv, ControlOK, RecordInv
<1>1. Recorded(r)'
  <2> SUFFICES ASSUME NEW p \in Providers, rollback'[r][p] # "none"
               PROVE  /\ status'[r] # "running"
                      /\ \E i \in 1..Len(StepsOf(r)) : StepsOf(r)[i] = p
    BY DEF Recorded
  <2>1. CASE rollback'[r][p] = rollback[r][p]
    <3>1. status[r] # "running" => status'[r] # "running"
      BY <1>r DEF ExecutorStep, executor, StepApplied, Compensate, StepUndone, TypeOK,
                  ReturnApplied, ReturnRolledBack
    <3> QED
      BY <1>r, <2>1, <3>1 DEF Recorded
  <2>2. ASSUME NEW q \in Providers, NEW result,
               StepUndone(r, q, result), StepsOf(r)[todo[r]] = q,
               status[r] = "compensating", todo[r] > 0, q = p
        PROVE  /\ status'[r] # "running"
               /\ \E i \in 1..Len(StepsOf(r)) : StepsOf(r)[i] = p
    <3>1. todo[r] \in 1..Len(StepsOf(r)) /\ status' = status
      BY <2>2, ExecutorFacts DEF StepUndone
    <3> QED
      BY <2>2, <3>1
  <2>3. \/ rollback'[r][p] = rollback[r][p]
        \/ \E q \in Providers, result \in {"rolled_back", "rollback_failed"} :
              /\ StepUndone(r, q, result) /\ StepsOf(r)[todo[r]] = q
              /\ status[r] = "compensating" /\ todo[r] > 0 /\ q = p
    BY <1>r DEF ExecutorStep, executor, StepApplied, Compensate, StepUndone, TypeOK,
                ReturnApplied, ReturnRolledBack
  <2> QED
    BY <2>1, <2>2, <2>3
<1>2. UNCHANGED executor => UNCHANGED Tx(r)!vars
  BY DEF Tx!vars, executor
<1>3. [Tx(r)!Next]_(Tx(r)!vars)
  BY <1>r, <1>2, AppliedRuns, FailedRuns, UndoneRuns, ReturnRuns DEF ExecutorStep
<1> QED
  BY <1>1, <1>3

(* The other threads' executors do not notice. *)
LEMMA OthersExecutors ==
    ASSUME TypeInv, NEW r \in Requests, Thread(r), NEW s \in Requests \ {r}
    PROVE  /\ status'[s] = status[s] /\ done'[s] = done[s] /\ todo'[s] = todo[s]
           /\ rollback'[s] = rollback[s] /\ pc'[s] = pc[s]
<1>r. /\ status \in [Requests -> Statuses] /\ pc \in [Requests -> Positions]
      /\ done \in [Requests -> 0..3] /\ todo \in [Requests -> 0..3]
      /\ rollback \in [Requests -> [Providers -> {"none", "rolled_back", "rollback_failed"}]]
  BY DEF TypeInv, TypeOK
<1>1. CASE DnsStep(r)
  BY <1>r, <1>1
  DEF DnsStep, DnsConflict, DnsAlreadyAnswers, DnsSnapshot, DnsAdd, DnsFails,
      DnsUndoList, DnsUndo, DnsUndoFails, executor, StepApplied, StepFailed, StepFailedUnclean,
      Compensate, StepUndone, Goto
<1>2. CASE CaddyStep(r)
  BY <1>r, <1>2
  DEF CaddyStep, CaddyRead, CaddyInstall, CaddyReload, CaddyFails, CaddyRestore,
      CaddyRestoreFails, CaddyUndo, CaddyUndoReload, CaddyUndoFails, executor,
      StepApplied, StepFailed, StepFailedUnclean,
      Compensate, StepUndone, Goto
<1>3. CASE PangolinStep(r)
  BY <1>r, <1>3
  DEF PangolinStep, PangolinAmbiguous, PangolinLookup, PangolinPublish,
      PangolinFails, PangolinBreaksNew, PangolinBreaksAdopted, PangolinBreaksGone,
      PangolinRestore, PangolinRestoreFails, executor, StepApplied, StepFailed, StepFailedUnclean,
      Compensate, Goto
<1>4. CASE HandlerStep(r)
  BY <1>r, <1>4
  DEF HandlerStep, LoadRoutes, IntegrationMissing, ReturnApplied, ReturnRolledBack,
      Audit, Save, StoreFails, Answer, executor, Goto
<1> QED
  BY <1>1, <1>2, <1>3, <1>4 DEF Thread

EachRuns == \A r \in Requests : [Tx(r)!Next]_(Tx(r)!vars)

LEMMA NextRuns == TypeInv /\ RecordInv /\ [Next]_vars => RecordInv' /\ EachRuns
<1> SUFFICES ASSUME TypeInv, RecordInv, [Next]_vars PROVE RecordInv' /\ EachRuns
  OBVIOUS
<1>0. ASSUME UNCHANGED executor,
             \A s \in Requests : pc'[s] = "dns_undo" => pc[s] = "dns_undo"
      PROVE  RecordInv' /\ EachRuns
  BY <1>0 DEF RecordInv, Recorded, EachRuns, executor, Tx!vars
<1>1. ASSUME NEW r \in Requests, Thread(r) PROVE RecordInv' /\ EachRuns
  <2>1. ExecutorStep(r) /\ (pc'[r] = "dns_undo" => Len(StepsOf(r)) > 1)
    BY <1>1, DnsExecutes, CaddyExecutes, PangolinExecutes, HandlerExecutes DEF Thread
  <2>2. Recorded(r)' /\ [Tx(r)!Next]_(Tx(r)!vars)
    BY <2>1, ExecutorStepRuns
  <2>3. ASSUME NEW s \in Requests \ {r} PROVE Recorded(s)' /\ UNCHANGED Tx(s)!vars
    <3>1. /\ status'[s] = status[s] /\ done'[s] = done[s] /\ todo'[s] = todo[s]
          /\ rollback'[s] = rollback[s] /\ pc'[s] = pc[s]
      BY <1>1, OthersExecutors
    <3> QED
      BY <3>1 DEF RecordInv, Recorded, Tx!vars
  <2> QED
    BY <2>2, <2>3 DEF RecordInv, EachRuns
<1>2. ASSUME NEW r \in Requests, Start(r) PROVE RecordInv' /\ EachRuns
  BY <1>0, <1>2 DEF Start, Goto, TypeInv, TypeOK
<1>3. CASE Crash
  BY <1>0, <1>3 DEF Crash
<1>4. CASE UNCHANGED vars
  BY <1>0, <1>4 DEF vars
<1> QED
  BY <1>1, <1>2, <1>3, <1>4 DEF Next

LEMMA InitRuns == Init => \A r \in Requests : Tx(r)!Init
<1> SUFFICES ASSUME Init, NEW r \in Requests PROVE Tx(r)!Init
  OBVIOUS
<1>1. \A i \in 1..Len(StepsOf(r)) : StepsOf(r)[i] \in Providers
  BY StepsFacts
<1>2. \A i \in 1..Len(StepsOf(r)) : ~ (i <= 0)
  BY StepsFacts
<1> QED
  BY <1>1, <1>2 DEF Init, Tx!Init, Tx!Steps

(* Whatever the requests do to each other, however their calls fail, take
   effect unseen or are cut off, the thread of each request steps through the
   executor of TransactionExecutor.run and nothing else: what module
   TransactionProofs proves of that executor holds of every request. *)
THEOREM TransactionRefinement == SafeSpec => RunsTransactions
<1>1. EachRuns <=> \A r \in Requests : [Tx(r)!Next]_(Tx(r)!vars)
  BY DEF EachRuns
<1> QED
  BY InitTypeInv, NextTypeInv, InitRecordInv, NextRuns, InitRuns, <1>1, PTL
  DEF SafeSpec, RunsTransactions
=============================================================================
