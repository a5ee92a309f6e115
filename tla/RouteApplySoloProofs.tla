------------------------ MODULE RouteApplySoloProofs -------------------------
(***************************************************************************)
(* Theorems about modules RouteApply and RouteAudit when requests do not   *)
(* overlap: with one in progress at a time, what a save, a rollback, an    *)
(* audit and the inventory promise; with one at a time for each hostname,  *)
(* what becomes of DNS and Pangolin.  The code enforces neither.           *)
(***************************************************************************)
EXTENDS RouteApplyProofs, RouteAudit, FiniteSetTheorems

Alone == \A r, s \in Requests : InProgress(r) /\ InProgress(s) => r = s

(* The table that a thread holds is the one on disk, unless it saved it. *)
Holds(r) ==
    pc[r] \in {"run", "dns_add", "caddy_install", "caddy_reload", "caddy_restore",
               "pangolin_publish", "pangolin_restore", "caddy_undo_reload", "dns_undo",
               "audit", "save"}

Current(r) ==
    /\ Holds(r) /\ (pc[r] = "audit" => ProviderMutations[r]) => mem[r].routes = routes
    /\ pc[r] = "audit" /\ ~ ProviderMutations[r] => routes[Host(r)] # Nobody
    /\ pc[r] \notin {"done", "dead"} /\ ~ ProviderMutations[r] => status[r] = "running"

(* AppliedIsKept is inductive only together with what the thread that will
   save next holds in its memory. *)
KeepInv == Alone /\ (\A r \in Requests : Current(r)) /\ AppliedIsKept

(* A step of the thread of r, for the other requests. *)
Still(s) ==
    /\ pc'[s] = pc[s] /\ mem'[s] = mem[s] /\ reply'[s] = reply[s]
    /\ status'[s] = status[s] /\ done'[s] = done[s] /\ todo'[s] = todo[s]
    /\ rollback'[s] = rollback[s]
    /\ \A p \in {"caddy", "pangolin"} : s \in unclean'[p] <=> s \in unclean[p]

LEMMA ThreadIsItsOwn ==
    ASSUME TypeInv, NEW r \in Requests, Thread(r)
    PROVE  /\ InProgress(r) /\ pc'[r] \notin {"ready", "load"}
           /\ \A s \in Requests \ {r} : Still(s)
<1>r. /\ pc \in [Requests -> Positions] /\ mem \in [Requests -> Locals]
      /\ status \in [Requests -> Statuses] /\ done \in [Requests -> 0..3]
      /\ todo \in [Requests -> 0..3] /\ reply \in [Requests -> Replies]
      /\ rollback \in [Requests -> [Providers -> {"none", "rolled_back", "rollback_failed"}]]
      /\ unclean \in [{"caddy", "pangolin"} -> SUBSET Requests]
  BY DEF TypeInv, TypeOK
<1>1. CASE DnsStep(r)
  BY <1>1, <1>r
  DEF DnsStep, DnsConflict, DnsAlreadyAnswers, DnsSnapshot, DnsAdd, DnsFails,
      DnsUndoList, DnsUndo, DnsUndoFails, Applying, Undoing, StepApplied,
      StepFailed, StepFailedUnclean, Compensate, StepUndone, Goto, InProgress,
      Still, executor
<1>2. CASE CaddyStep(r)
  BY <1>2, <1>r
  DEF CaddyStep, CaddyRead, CaddyInstall, CaddyReload, CaddyFails, CaddyRestore,
      CaddyRestoreFails, CaddyUndo, CaddyUndoReload, CaddyUndoFails, Applying,
      Undoing, StepApplied, StepFailed, StepFailedUnclean, Compensate, StepUndone,
      Goto, InProgress, Still, executor
<1>3. CASE PangolinStep(r)
  <2>1. /\ pc[r] \in {"run", "pangolin_publish", "pangolin_restore"} /\ UNCHANGED reply
        /\ \E position \in Positions : Goto(r, position)
        /\ \/ StepApplied(r) \/ StepFailed(r) \/ StepFailedUnclean(r, "pangolin")
           \/ UNCHANGED executor
        /\ \/ UNCHANGED mem
           \/ \E c \in Requests :
                 mem' = [mem EXCEPT ![r].found = c, ![r].content = resource[c]]
           \/ mem' = [mem EXCEPT ![r].target = target[mem[r].found]]
    BY <1>3
    DEF PangolinStep, PangolinAmbiguous, PangolinLookup, PangolinPublish,
        PangolinFails, PangolinBreaksNew, PangolinBreaksAdopted, PangolinBreaksGone,
        PangolinRestore, PangolinRestoreFails, Applying, StepApplied, StepFailed,
        StepFailedUnclean, Compensate, Positions
  <2>2. InProgress(r) /\ pc'[r] \notin {"ready", "load"}
    BY <1>3, <1>r
    DEF InProgress, Goto, PangolinStep, PangolinAmbiguous, PangolinLookup,
        PangolinPublish, PangolinFails, PangolinBreaksNew, PangolinBreaksAdopted,
        PangolinBreaksGone, PangolinRestore, PangolinRestoreFails, Applying,
        StepApplied, StepFailed, StepFailedUnclean, Compensate
  <2>3. \A s \in Requests \ {r} : pc'[s] = pc[s] /\ mem'[s] = mem[s]
    BY <2>1, <1>r DEF Goto
  <2>4. \A s \in Requests \ {r} :
           /\ status'[s] = status[s] /\ done'[s] = done[s] /\ todo'[s] = todo[s]
           /\ rollback'[s] = rollback[s]
           /\ \A p \in {"caddy", "pangolin"} : s \in unclean'[p] <=> s \in unclean[p]
    BY <2>1, <1>r
    DEF StepApplied, StepFailed, StepFailedUnclean, Compensate, Goto, executor
  <2> QED
    BY <2>1, <2>2, <2>3, <2>4 DEF Still
<1>4. CASE HandlerStep(r)
  BY <1>4, <1>r
  DEF HandlerStep, LoadRoutes, IntegrationMissing, ReturnApplied, ReturnRolledBack,
      Audit, Save, StoreFails, Answer, Goto, InProgress, Still, executor
<1> QED
  BY <1>1, <1>2, <1>3, <1>4 DEF Thread

(* While the thread of r takes a step, no other request is in progress. *)
LEMMA OthersIdle ==
    ASSUME TypeInv, Alone, NEW r \in Requests, Thread(r)
    PROVE  \A s \in Requests \ {r} : Still(s) /\ ~ InProgress(s) /\ ~ InProgress(s)'
  BY ThreadIsItsOwn DEF Alone, Still, InProgress

(* With one request in progress at a time, a request starts when there is
   none. *)
LEMMA StartsAlone ==
    ASSUME TypeInv, Alone, MaxInFlight = 1, NEW r \in Requests, Start(r)
    PROVE  \A s \in Requests : ~ InProgress(s)
<1> DEFINE Busy == {s \in Requests : InProgress(s)}
<1>1. Cardinality(Busy) < 1
  BY DEF Start
<1> HIDE DEF Busy
<1>2. ASSUME NEW s \in Requests, InProgress(s) PROVE FALSE
  <2>1. Busy = {s}
    BY <1>2 DEF Busy, Alone
  <2>2. Cardinality(Busy) = 1
    BY <2>1, FS_Singleton
  <2> QED
    BY <1>1, <2>2
<1> QED
  BY <1>2

LEMMA NextAlone ==
    ASSUME TypeInv, Alone, MaxInFlight = 1, [Next]_vars
    PROVE  Alone'
<1>r. pc \in [Requests -> Positions]
  BY DEF TypeInv, TypeOK
<1>1. ASSUME NEW r \in Requests, Start(r) PROVE Alone'
  <2>1. \A s \in Requests \ {r} : ~ InProgress(s)'
    BY <1>1, <1>r, StartsAlone DEF Start, Goto, InProgress
  <2> QED
    BY <2>1 DEF Alone
<1>2. ASSUME NEW r \in Requests, Thread(r) PROVE Alone'
  BY <1>2, OthersIdle DEF Alone
<1>3. CASE Crash
  BY <1>3 DEF Crash, Alone, InProgress
<1>4. CASE UNCHANGED vars
  BY <1>4 DEF vars, Alone, InProgress
<1> QED
  BY <1>1, <1>2, <1>3, <1>4 DEF Next

-----------------------------------------------------------------------------
LEMMA InitKeepInv == Init => KeepInv
  BY DEF Init, KeepInv, Alone, InProgress, Current, Holds, AppliedIsKept

(* The steps between loading and saving. *)
LEMMA StepKeepInv ==
    ASSUME TypeInv, KeepInv, NEW r \in Requests,
           DnsStep(r) \/ CaddyStep(r) \/ PangolinStep(r)
    PROVE  (\A s \in Requests : Current(s)') /\ AppliedIsKept'
<1>1. /\ KeepsLists(r) /\ InProgress(r)
      /\ \A s \in Requests \ {r} : Still(s) /\ ~ InProgress(s) /\ ~ InProgress(s)'
  BY StepKeepsLists, OthersIdle, ThreadIsItsOwn DEF Thread, KeepInv
<1>2. Control(r) /\ Current(r)
  BY DEF TypeInv, ControlOK, KeepInv
<1>3. Holds(r) /\ pc[r] \notin {"audit", "save"} /\ UNCHANGED reply
  BY DEF Holds, DnsStep, DnsConflict, DnsAlreadyAnswers, DnsSnapshot, DnsAdd,
         DnsFails, DnsUndoList, DnsUndo, DnsUndoFails, CaddyStep, CaddyRead,
         CaddyInstall, CaddyReload, CaddyFails, CaddyRestore, CaddyRestoreFails,
         CaddyUndo, CaddyUndoReload, CaddyUndoFails, PangolinStep,
         PangolinAmbiguous, PangolinLookup, PangolinPublish, PangolinFails,
         PangolinBreaksNew, PangolinBreaksAdopted, PangolinBreaksGone,
         PangolinRestore, PangolinRestoreFails, Applying, Undoing
<1>4. ProviderMutations[r]
  BY <1>2, <1>3 DEF Control, Holds
<1>5. Current(r)'
  BY <1>1, <1>2, <1>3, <1>4 DEF Current, KeepsLists
<1>6. \A s \in Requests \ {r} : Current(s)'
  BY <1>1 DEF Current, Holds, InProgress, Still, KeepInv
<1>7. AppliedIsKept'
  BY <1>1, <1>3 DEF AppliedIsKept, KeepInv, KeepsLists, Host
<1> QED
  BY <1>5, <1>6, <1>7

LEMMA HandlerKeepInv ==
    ASSUME TypeInv, KeepInv, NEW r \in Requests, HandlerStep(r)
    PROVE  (\A s \in Requests : Current(s)') /\ AppliedIsKept'
<1>r. /\ pc \in [Requests -> Positions] /\ mem \in [Requests -> Locals]
      /\ status \in [Requests -> Statuses] /\ reply \in [Requests -> Replies]
      /\ routes \in [Hosts -> Requests \cup {Nobody}]
      /\ mem[r].routes \in [Hosts -> Requests \cup {Nobody}]
      /\ Control(r) /\ Current(r) /\ AppliedIsKept
      /\ \A s \in Requests : Host(s) \in Hosts /\ s # Nobody
  BY RouteAssumption, NobodyAssumption
  DEF TypeInv, TypeOK, ControlOK, KeepInv, Locals, Host
<1>i. /\ InProgress(r)
      /\ \A s \in Requests \ {r} : Still(s) /\ ~ InProgress(s) /\ ~ InProgress(s)'
  BY OthersIdle, ThreadIsItsOwn DEF Thread, KeepInv
<1>o. \A s \in Requests \ {r} : Current(s)'
  BY <1>i DEF Current, Holds, InProgress, Still, KeepInv
<1>a. ASSUME NEW what \in Replies, Answer(r, what)
      PROVE  /\ Current(r)' /\ reply'[r] = what
             /\ \A s \in Requests \ {r} : reply'[s] = reply[s]
  BY <1>a, <1>r DEF Answer, Goto, Current, Holds
<1>s. ASSUME UNCHANGED <<routes, reply>> PROVE AppliedIsKept'
  BY <1>s, <1>r DEF AppliedIsKept, Host
<1>1. CASE LoadRoutes(r)
  <2>1. mem'[r].routes = routes /\ UNCHANGED <<routes, status, reply>>
    BY <1>1, <1>r DEF LoadRoutes, Locals, disk, executor
  <2>2. pc'[r] \in {"run", "save"}
    BY <1>1, <1>r DEF LoadRoutes, Goto
  <2>3. pc[r] = "load"
    BY <1>1 DEF LoadRoutes
  <2>4. Current(r)'
    BY <2>1, <2>2, <2>3, <1>r DEF Current
  <2> QED
    BY <2>1, <2>4, <1>s, <1>o
<1>2. CASE IntegrationMissing(r)
  <2>1. Answer(r, "rejected") /\ UNCHANGED routes
    BY <1>2 DEF IntegrationMissing, disk
  <2>2. AppliedIsKept'
    BY <2>1, <1>a, <1>r DEF AppliedIsKept, Host, Replies
  <2> QED
    BY <2>1, <2>2, <1>a, <1>o DEF Replies
<1>3. CASE ReturnApplied(r) \/ ReturnRolledBack(r)
  <2>1. /\ UNCHANGED <<routes, mem, reply>> /\ pc'[r] = "audit" /\ pc[r] = "run"
    BY <1>3, <1>r DEF ReturnApplied, ReturnRolledBack, Goto, disk
  <2>2. ProviderMutations[r]
    BY <2>1, <1>r DEF Control
  <2>3. Current(r)'
    BY <2>1, <2>2, <1>r DEF Current, Holds
  <2> QED
    BY <2>1, <2>3, <1>s, <1>o
<1>4. CASE Audit(r)
  <2>1. UNCHANGED <<routes, status>> /\ pc[r] = "audit"
    BY <1>4 DEF Audit, executor
  <2>2. CASE status[r] = "applied" /\ Goto(r, "save") /\ UNCHANGED <<mem, reply>>
    <3>1. pc'[r] = "save" /\ ProviderMutations[r]
      BY <2>1, <2>2, <1>r DEF Goto, Current
    <3>2. Current(r)'
      BY <2>1, <2>2, <3>1, <1>r DEF Current, Holds
    <3> QED
      BY <2>1, <2>2, <3>2, <1>s, <1>o
  <2>3. CASE Answer(r, "conflict")
    <3>1. AppliedIsKept'
      BY <2>1, <2>3, <1>a, <1>r DEF AppliedIsKept, Host, Replies
    <3> QED
      BY <2>3, <3>1, <1>a, <1>o DEF Replies
  <2>4. CASE ~ ProviderMutations[r] /\ Answer(r, "saved")
    <3>1. routes[Host(r)] # Nobody
      BY <2>1, <2>4, <1>r DEF Current
    <3>2. AppliedIsKept'
      BY <2>1, <2>4, <3>1, <1>a, <1>r DEF AppliedIsKept, Host, Replies
    <3> QED
      BY <2>4, <3>2, <1>a, <1>o DEF Replies
  <2> QED
    BY <1>4, <2>2, <2>3, <2>4 DEF Audit
<1>5. CASE Save(r)
  <2>1. /\ mem[r].routes = routes /\ routes' = [routes EXCEPT ![Host(r)] = r]
        /\ UNCHANGED status /\ pc[r] = "save"
    BY <1>5, <1>r DEF Save, Current, Holds, Desired, executor
  <2>2. routes'[Host(r)] # Nobody /\ \A h \in Hosts : routes[h] # Nobody => routes'[h] # Nobody
    BY <2>1, <1>r
  <2>3. CASE Answer(r, "applied")
    <3>1. AppliedIsKept'
      BY <2>2, <2>3, <1>a, <1>r DEF AppliedIsKept, Host, Replies
    <3> QED
      BY <2>3, <3>1, <1>a, <1>o DEF Replies
  <2>4. CASE ~ ProviderMutations[r] /\ Goto(r, "audit") /\ UNCHANGED <<mem, reply>>
    <3>1. AppliedIsKept'
      BY <2>2, <2>4, <1>r DEF AppliedIsKept, Host
    <3>2. Current(r)'
      <4>1. pc'[r] = "audit" /\ status'[r] = "running"
        BY <2>1, <2>4, <1>r DEF Goto, Current
      <4>2. routes'[Host(r)] # Nobody
        BY <2>2
      <4> QED
        BY <2>4, <4>1, <4>2 DEF Current, Host
    <3> QED
      BY <3>1, <3>2, <1>o
  <2> QED
    BY <1>5, <2>3, <2>4 DEF Save
<1>6. CASE StoreFails(r)
  <2>1. Answer(r, "error") /\ UNCHANGED routes
    BY <1>6 DEF StoreFails, disk
  <2>2. AppliedIsKept'
    BY <2>1, <1>a, <1>r DEF AppliedIsKept, Host, Replies
  <2> QED
    BY <2>1, <2>2, <1>a, <1>o DEF Replies
<1> QED
  BY <1>1, <1>2, <1>3, <1>4, <1>5, <1>6 DEF HandlerStep

LEMMA NextKeepInv ==
    ASSUME MaxInFlight = 1, TypeInv, KeepInv, [Next]_vars
    PROVE  KeepInv'
<1> SUFFICES (\A s \in Requests : Current(s)') /\ AppliedIsKept'
  BY NextAlone DEF KeepInv
<1>r. pc \in [Requests -> Positions]
  BY DEF TypeInv, TypeOK
<1>1. ASSUME NEW r \in Requests, Start(r)
      PROVE  (\A s \in Requests : Current(s)') /\ AppliedIsKept'
  <2>1. /\ pc'[r] = "load" /\ pc[r] = "ready" /\ \A s \in Requests \ {r} : pc'[s] = pc[s]
        /\ UNCHANGED <<routes, status, mem, reply>>
    BY <1>1, <1>r DEF Start, Goto, disk, executor
  <2> QED
    BY <2>1 DEF Current, Holds, AppliedIsKept, KeepInv, Host
<1>2. ASSUME NEW r \in Requests, Thread(r)
      PROVE  (\A s \in Requests : Current(s)') /\ AppliedIsKept'
  BY <1>2, StepKeepInv, HandlerKeepInv DEF Thread
<1>3. CASE Crash
  <2>1. /\ UNCHANGED <<routes, status, reply>>
        /\ \A s \in Requests : pc'[s] \in {"ready", "done", "dead"} /\ pc'[s] \in {pc[s], "dead"}
    BY <1>3, <1>r DEF Crash, InProgress, disk, executor
  <2> QED
    BY <2>1 DEF Current, Holds, AppliedIsKept, KeepInv, Host
<1>4. CASE UNCHANGED vars
  BY <1>4 DEF vars, disk, executor, Current, Holds, AppliedIsKept, KeepInv, Host
<1> QED
  BY <1>1, <1>2, <1>3, <1>4 DEF Next

(* When requests come one at a time, a route that was answered "applied" or
   "saved" is never lost from routes.json: whatever fails, and however often the
   container stops, only another route for its hostname can replace it. *)
THEOREM KeptCorrectness == MaxInFlight = 1 /\ SafeSpec => []AppliedIsKept
<1> SUFFICES ASSUME MaxInFlight = 1 PROVE SafeSpec => []AppliedIsKept
  OBVIOUS
<1>1. KeepInv => AppliedIsKept
  BY DEF KeepInv
<1>2. TypeInv /\ KeepInv /\ [Next]_vars => KeepInv'
  BY NextKeepInv
<1> QED
  BY InitTypeInv, NextTypeInv, InitKeepInv, <1>1, <1>2, PTL DEF SafeSpec

(* When requests come one at a time, a save leaves the routes of the other
   hostnames as they are, although it writes the whole table its thread loaded
   before the provider calls. *)
THEOREM SaveScope == MaxInFlight = 1 /\ SafeSpec => SavesTouchOneHost
<1> SUFFICES ASSUME MaxInFlight = 1 PROVE SafeSpec => [][SavesItsOwnRoute]_vars
  BY DEF SavesTouchOneHost
<1>1. TypeInv /\ KeepInv /\ [Next]_vars => SavesItsOwnRoute
  <2> SUFFICES ASSUME TypeInv, KeepInv, [Next]_vars,
                      NEW r \in Requests, pc[r] = "save", pc'[r] # "save",
                      NEW h \in Hosts \ {Host(r)}
               PROVE  routes'[h] = routes[h]
    BY DEF SavesItsOwnRoute
  <2>r. /\ routes \in [Hosts -> Requests \cup {Nobody}] /\ Host(r) \in Hosts
        /\ Current(r) /\ InProgress(r)
    BY RouteAssumption DEF TypeInv, TypeOK, KeepInv, Host, InProgress
  <2>1. ASSUME NEW s \in Requests, Start(s) PROVE UNCHANGED routes
    BY <2>1 DEF Start, disk
  <2>2. ASSUME NEW s \in Requests, Thread(s) PROVE routes'[h] = routes[h]
    <3>1. s = r
      BY <2>2, <2>r, ThreadIsItsOwn DEF KeepInv, Alone
    <3>2. CASE Save(r)
      <4>1. routes' = [routes EXCEPT ![Host(r)] = r]
        BY <3>2, <2>r DEF Save, Desired, Current, Holds
      <4> QED
        BY <4>1, <2>r
    <3>3. CASE HandlerStep(r) /\ ~ Save(r)
      BY <3>3 DEF HandlerStep, LoadRoutes, IntegrationMissing, ReturnApplied,
                  ReturnRolledBack, Audit, StoreFails, disk
    <3>4. CASE DnsStep(r) \/ CaddyStep(r) \/ PangolinStep(r)
      BY <3>4, StepKeepsLists DEF KeepsLists
    <3> QED
      BY <2>2, <3>1, <3>2, <3>3, <3>4 DEF Thread
  <2>3. CASE Crash
    BY <2>3 DEF Crash, disk
  <2>4. CASE UNCHANGED vars
    BY <2>4 DEF vars, disk
  <2> QED
    BY <2>1, <2>2, <2>3, <2>4 DEF Next
<1>2. TypeInv /\ KeepInv /\ [Next]_vars => KeepInv'
  BY NextKeepInv
<1> QED
  BY InitTypeInv, NextTypeInv, InitKeepInv, <1>1, <1>2, PTL DEF SafeSpec

-----------------------------------------------------------------------------
(* What the executor of r reports of its rollbacks: of its two compensable
   steps, each is undone once, the Caddy step first. *)
Reports(r) ==
    /\ status[r] \in {"running", "applied"} =>
          /\ todo[r] = 0 /\ \A p \in Providers : rollback[r][p] = "none"
          /\ r \notin unclean["caddy"] \cup unclean["pangolin"]
    /\ status[r] = "compensating" =>
          /\ done[r] < Len(StepsOf(r))
          /\ todo[r] > 0 => rollback[r]["dns"] = "none"
          /\ todo[r] > 1 => rollback[r]["caddy"] = "none"
    /\ status[r] = "rolled_back" =>
          /\ done[r] < Len(StepsOf(r)) /\ todo[r] = 0
          /\ \A p \in Providers : rollback[r][p] # "rollback_failed"
    /\ pc[r] \in {"ready", "load", "audit", "save"} => status[r] # "compensating"

(* No rollback failed, neither in a request that was answered nor in the one in
   progress: one that a restart cut off does not count. *)
Sound ==
    \A s \in Requests :
        /\ status[s] # "rollback_failed"
        /\ InProgress(s) => \A p \in Providers : rollback[s][p] # "rollback_failed"

(* Its plan has steps with a rollback, DNS and Caddy. *)
Compensable(r) == Len(StepsOf(r)) > 1

(* The DNS step of r was applied and is not undone. *)
InForce(r) ==
    /\ Compensable(r)
    /\ \/ status[r] = "running" /\ done[r] > 0
       \/ status[r] = "compensating" /\ todo[r] > 0

(* The answers of the hostname are the ones found, or those and the added one
   while the DNS step is in force. *)
DnsKnown(r) ==
    /\ status[r] = "running" /\ done[r] = 0 /\ pc[r] # "dns_add" => mem[r].dns = Nobody
    /\ ~ Compensable(r) => mem[r].dns = Nobody
    /\ pc[r] = "dns_add" => dns[Host(r)] = mem[r].dns
    /\ InForce(r) => dns[Host(r)] = mem[r].dns \cup {Address(r)}
    /\ pc[r] = "dns_undo" => mem[r].seen = dns[Host(r)]
    /\ (/\ status[r] \in {"compensating", "rolled_back"} /\ todo[r] = 0
        /\ mem[r].dns # Nobody /\ rollback[r]["dns"] # "rollback_failed") =>
          dns[Host(r)] = mem[r].dns

(* The adopted resource is as found until r publishes, and again when a failing
   publication took itself back; what is to be put back then is known. *)
PangolinKnown(r) ==
    /\ status[r] = "running" /\ pc[r] # "pangolin_restore" => mem[r].target = Nobody
    /\ mem[r].found # Nobody /\ done[r] < Len(StepsOf(r)) =>
        /\ mem[r].content # Nobody
        /\ pc[r] = "pangolin_restore" => resource[mem[r].found] # Nobody
        /\ pc[r] # "pangolin_restore" /\ r \notin unclean["pangolin"] =>
              /\ resource[mem[r].found] = mem[r].content
              /\ mem[r].target # Nobody => target[mem[r].found] = mem[r].target

(* What is known of r whatever failed. *)
Known(r) ==
    /\ Reports(r)
    /\ pc[r] \in {"ready", "load"} =>
          /\ mem[r].dns = Nobody /\ mem[r].caddy = Nobody
          /\ mem[r].found = Nobody /\ mem[r].target = Nobody
    /\ InProgress(r) => DnsKnown(r) /\ PangolinKnown(r)

(* Caddy's file is the one found, or the running Caddy still has it, until the
   Caddy step is in force; it is the one found when the step was undone.
   Outside the calls that change it, Caddy runs what its file says.  What a
   failing step could not take back is excepted. *)
CaddyKnown(r) ==
    /\ pc[r] \in {"load", "run", "dns_add"} /\ status[r] = "running" /\ done[r] < 2 =>
          mem[r].caddy = Nobody
    /\ ~ Compensable(r) => mem[r].caddy = Nobody
    /\ pc[r] \in {"caddy_install", "caddy_undo_reload"} => caddyFile = mem[r].caddy
    /\ pc[r] \in {"caddy_reload", "caddy_restore"} /\ unclean["caddy"] = {} =>
          caddyRunning = mem[r].caddy
    /\ (/\ status[r] \in {"compensating", "rolled_back"} /\ todo[r] < 2
        /\ mem[r].caddy # Nobody /\ r \notin unclean["caddy"]) =>
          caddyFile = mem[r].caddy
    /\ (/\ pc[r] \notin {"caddy_reload", "caddy_restore", "caddy_undo_reload"}
        /\ unclean["caddy"] = {}) =>
          caddyRunning = caddyFile

(* Only a request whose steps were all applied has a resource of its own, or one
   whose publication failed and did not take itself back, or not yet. *)
Created ==
    \A r \in Requests :
        resource[r] # Nobody =>
            \/ done[r] = Len(StepsOf(r)) \/ pc[r] = "dead"
            \/ pc[r] = "pangolin_restore" /\ mem[r].found = Nobody
            \/ r \in unclean["pangolin"]

(* RolledBackRestores is inductive only together with what the providers hold
   at every point of a transaction, forwards and back. *)
SoloInv ==
    /\ Alone /\ Created
    /\ \A r \in Requests : Known(r)
    /\ Sound =>
          /\ Quiet /\ unclean["caddy"] = {} => caddyRunning = caddyFile
          /\ \A r \in Requests : InProgress(r) => CaddyKnown(r)

LEMMA InitSoloInv == Init => SoloInv
<1> SUFFICES ASSUME Init PROVE SoloInv
  OBVIOUS
<1>1. \A r \in Requests : Known(r)
  BY DEF Init, Known, Reports, NoLocals, InProgress
<1> QED
  BY <1>1 DEF Init, SoloInv, Alone, Created, InProgress

(* What a step makes of Caddy's configuration. *)
CaddyFine(r) ==
    IF InProgress(r) THEN CaddyKnown(r)
    ELSE unclean["caddy"] = {} => caddyRunning = caddyFile

(* Assigning a local variable keeps the other ones. *)
LEMMA OtherLocals ==
    ASSUME mem \in [Requests -> Locals], NEW r \in Requests, NEW X
    PROVE  /\ mem' = [mem EXCEPT ![r].routes = X] =>
                 /\ mem'[r].dns = mem[r].dns /\ mem'[r].seen = mem[r].seen
                 /\ mem'[r].caddy = mem[r].caddy
                 /\ mem'[r].found = mem[r].found /\ mem'[r].content = mem[r].content
                 /\ mem'[r].target = mem[r].target
           /\ mem' = [mem EXCEPT ![r].dns = X] =>
                 /\ mem'[r].dns = X /\ mem'[r].seen = mem[r].seen
                 /\ mem'[r].caddy = mem[r].caddy
                 /\ mem'[r].found = mem[r].found /\ mem'[r].content = mem[r].content
                 /\ mem'[r].target = mem[r].target
           /\ mem' = [mem EXCEPT ![r].seen = X] =>
                 /\ mem'[r].dns = mem[r].dns /\ mem'[r].seen = X
                 /\ mem'[r].caddy = mem[r].caddy
                 /\ mem'[r].found = mem[r].found /\ mem'[r].content = mem[r].content
                 /\ mem'[r].target = mem[r].target
           /\ mem' = [mem EXCEPT ![r].caddy = X] =>
                 /\ mem'[r].dns = mem[r].dns /\ mem'[r].seen = mem[r].seen
                 /\ mem'[r].caddy = X
                 /\ mem'[r].found = mem[r].found /\ mem'[r].content = mem[r].content
                 /\ mem'[r].target = mem[r].target
           /\ mem' = [mem EXCEPT ![r].target = X] =>
                 /\ mem'[r].dns = mem[r].dns /\ mem'[r].seen = mem[r].seen
                 /\ mem'[r].caddy = mem[r].caddy
                 /\ mem'[r].found = mem[r].found /\ mem'[r].content = mem[r].content
                 /\ mem'[r].target = X
<1>1. mem[r] \in Locals
  OBVIOUS
<1> QED
  BY <1>1 DEF Locals

LEMMA FoundLocals ==
    ASSUME mem \in [Requests -> Locals], NEW r \in Requests, NEW c \in Requests,
           mem' = [mem EXCEPT ![r].found = c, ![r].content = resource[c]]
    PROVE  /\ mem'[r].dns = mem[r].dns /\ mem'[r].seen = mem[r].seen
           /\ mem'[r].caddy = mem[r].caddy
           /\ mem'[r].found = c /\ mem'[r].content = resource[c]
           /\ mem'[r].target = mem[r].target
<1> DEFINE before == mem[r]
           after == [before EXCEPT !.found = c, !.content = resource[c]]
<1>1. before \in Locals /\ mem'[r] = after
  OBVIOUS
<1> HIDE DEF before
<1>2. /\ after.dns = before.dns /\ after.seen = before.seen /\ after.caddy = before.caddy
      /\ after.found = c /\ after.content = resource[c] /\ after.target = before.target
  BY <1>1 DEF Locals
<1> HIDE DEF after
<1> QED
  BY <1>1, <1>2 DEF before

(* A rollback reports for its own step. *)
LEMMA UndoneReport ==
    ASSUME TypeOK, NEW r \in Requests, NEW p \in Providers, NEW result,
           StepUndone(r, p, result)
    PROVE  /\ rollback'[r][p] = result
           /\ \A q \in Providers \ {p} : rollback'[r][q] = rollback[r][q]
  BY DEF StepUndone, TypeOK

(* A failed rollback is on record. *)
LEMMA FailureIsNoted ==
    ASSUME NEW r \in Requests, NEW p \in Providers, pc'[r] = "run",
           rollback'[r][p] = "rollback_failed"
    PROVE  ~ Sound'
  BY DEF Sound, InProgress

(* No request that has steps to apply has a resource, so counting one more
   step keeps Created. *)
LEMMA CreatedStays ==
    ASSUME TypeInv, Created, NEW r \in Requests, UNCHANGED resource,
           pc[r] \notin {"pangolin_restore", "dead"},
           done'[r] # done[r] =>
               done[r] < Len(StepsOf(r)) /\ r \notin unclean["pangolin"],
           unclean["pangolin"] \subseteq unclean'["pangolin"],
           \A s \in Requests \ {r} :
               done'[s] = done[s] /\ pc'[s] = pc[s] /\ mem'[s] = mem[s]
    PROVE  Created'
<1>1. done[r] \in Nat /\ Len(StepsOf(r)) \in Nat
  BY StepsFacts DEF TypeInv, TypeOK
<1>2. \A s \in Requests : StepsOf(s)' = StepsOf(s)
  BY DEF StepsOf
<1> QED
  BY <1>1, <1>2 DEF Created

LEMMA DnsSolo ==
    ASSUME TypeInv, Created, ~ HiddenFaults, NEW r \in Requests, Known(r), DnsStep(r)
    PROVE  Known(r)' /\ Created' /\ (CaddyKnown(r) /\ Sound' => CaddyFine(r)')
<1>r. /\ TypeOK /\ Control(r) /\ mem \in [Requests -> Locals]
      /\ done[r] \in 0..3 /\ todo[r] \in 0..3 /\ Len(StepsOf(r)) \in 1..3
      /\ "dns" \in Providers /\ "caddy" \in Providers
      /\ Host(r) \in Hosts /\ dns \in [Hosts -> SUBSET Addresses]
      /\ Len(StepsOf(r))' = Len(StepsOf(r)) /\ Compensable(r)' = Compensable(r)
      /\ Host(r)' = Host(r) /\ Address(r)' = Address(r)
  BY StepsFacts, RouteAssumption
  DEF TypeInv, TypeOK, ControlOK, Providers, Host, Address, StepsOf, Compensable
<1>p. {"dns_add", "dns_undo"} \subseteq Positions
  BY DEF Positions
<1>c. /\ UNCHANGED <<resource, target, unclean, caddyFile, caddyRunning>>
      /\ \A s \in Requests \ {r} :
            done'[s] = done[s] /\ pc'[s] = pc[s] /\ mem'[s] = mem[s]
      /\ pc[r] \notin {"pangolin_restore", "dead"}
  BY ThreadIsItsOwn
  DEF Applying, Undoing, StepApplied, StepFailed, StepUndone, executor, Thread, Still, DnsStep, DnsConflict, DnsAlreadyAnswers, DnsSnapshot, DnsAdd, DnsFails,
      DnsUndoList, DnsUndo, DnsUndoFails, providers
<1>i. /\ InProgress(r)
      /\ status[r] = "running" => r \notin unclean["caddy"] \cup unclean["pangolin"]
  BY ThreadIsItsOwn DEF Thread, Known, Reports
<1>f. ASSUME StepFailed(r), UNCHANGED <<mem, dns>>, done[r] = 0, Compensable(r),
             pc[r] = "dns_add" \/ (pc[r] = "run" /\ status[r] = "running")
      PROVE  Known(r)' /\ Created' /\ (CaddyKnown(r) /\ Sound' => CaddyFine(r)')
  <2>1. /\ status'[r] = "compensating" /\ todo'[r] = 0 /\ done'[r] = 0 /\ pc'[r] = "run"
        /\ rollback'[r] = rollback[r] /\ mem'[r] = mem[r] /\ status[r] = "running"
    BY <1>r, <1>f, StepFailedFacts DEF Control
  <2>2. Known(r)'
    <3>1. Reports(r)'
      BY <2>1, <1>r, <1>c, <1>i, <1>f DEF Known, Reports, Compensable
    <3>2. DnsKnown(r)'
      BY <2>1, <1>r, <1>i, <1>f DEF Known, DnsKnown, InForce
    <3>3. PangolinKnown(r)'
      BY <2>1, <1>r, <1>c, <1>i, <1>f DEF Known, PangolinKnown
    <3> QED
      BY <2>1, <3>1, <3>2, <3>3 DEF Known
  <2>3. CaddyKnown(r) => CaddyFine(r)'
    BY <2>1, <1>r, <1>c, <1>f DEF CaddyKnown, CaddyFine, InProgress
  <2> QED
    BY <2>1, <2>2, <2>3, <1>c, <1>i, <1>f, CreatedStays
<1>1. CASE DnsConflict(r)
  BY <1>1, <1>f, <1>r, ApplyingFacts DEF Compensable, DnsConflict, providers
<1>2. CASE DnsAlreadyAnswers(r)
  <2>1. /\ pc[r] = "run" /\ status[r] = "running" /\ done[r] = 0 /\ Compensable(r)
        /\ mem'[r].dns = dns[Host(r)] /\ dns[Host(r)] = {Address(r)} /\ UNCHANGED dns
        /\ mem'[r].found = mem[r].found /\ mem'[r].content = mem[r].content
        /\ mem'[r].target = mem[r].target
        /\ mem'[r].caddy = mem[r].caddy
    BY <1>2, <1>r, ApplyingFacts, OtherLocals DEF Compensable, DnsAlreadyAnswers, providers
  <2>2. /\ pc'[r] = "run" /\ done'[r] = 1
        /\ status'[r] = "running" /\ todo'[r] = todo[r] /\ rollback'[r] = rollback[r]
    BY <1>2, <1>r, <2>1, StepAppliedFacts DEF DnsAlreadyAnswers
  <2>3. Known(r)'
    <3>1. Reports(r)'
      BY <2>1, <2>2, <1>r, <1>c, <1>i DEF Known, Reports
    <3>2. DnsKnown(r)'
      BY <2>1, <2>2, <1>r DEF DnsKnown, InForce
    <3>3. PangolinKnown(r)'
      BY <2>1, <2>2, <1>r, <1>c, <1>i DEF Known, PangolinKnown
    <3> QED
      BY <2>2, <3>1, <3>2, <3>3 DEF Known
  <2>4. CaddyKnown(r) => CaddyFine(r)'
    BY <2>1, <2>2, <1>r, <1>c DEF CaddyKnown, CaddyFine, InProgress
  <2> QED
    BY <2>1, <2>3, <2>4, <1>c, <1>i, <1>r, CreatedStays DEF Compensable
<1>3. CASE DnsSnapshot(r)
  <2>1. /\ pc[r] = "run" /\ status[r] = "running" /\ done[r] = 0 /\ Compensable(r)
        /\ mem'[r].dns = dns[Host(r)] /\ UNCHANGED dns
        /\ mem'[r].found = mem[r].found /\ mem'[r].content = mem[r].content
        /\ mem'[r].target = mem[r].target
        /\ mem'[r].caddy = mem[r].caddy
    BY <1>3, <1>r, ApplyingFacts, OtherLocals DEF Compensable, DnsSnapshot, providers
  <2>2. /\ pc'[r] = "dns_add" /\ done'[r] = done[r]
        /\ status'[r] = status[r] /\ todo'[r] = todo[r] /\ rollback'[r] = rollback[r]
    BY <1>3, <1>r, <1>p, GotoFacts DEF DnsSnapshot, executor
  <2>3. Known(r)'
    <3>1. Reports(r)'
      BY <2>1, <2>2, <1>r, <1>c, <1>i DEF Known, Reports
    <3>2. DnsKnown(r)'
      BY <2>1, <2>2, <1>r DEF DnsKnown, InForce
    <3>3. PangolinKnown(r)'
      BY <2>1, <2>2, <1>r, <1>c, <1>i DEF Known, PangolinKnown
    <3> QED
      BY <2>2, <3>1, <3>2, <3>3 DEF Known
  <2>4. CaddyKnown(r) => CaddyFine(r)'
    BY <2>1, <2>2, <1>r, <1>c DEF CaddyKnown, CaddyFine, InProgress
  <2> QED
    BY <2>1, <2>2, <2>3, <2>4, <1>c, <1>i, CreatedStays
<1>4. CASE DnsAdd(r)
  <2>1. /\ pc[r] = "dns_add" /\ status[r] = "running" /\ done[r] = 0 /\ Compensable(r)
        /\ dns'[Host(r)] = dns[Host(r)] \cup {Address(r)} /\ UNCHANGED mem
    BY <1>4, <1>r DEF DnsAdd, Control, Compensable
  <2>2. /\ pc'[r] = "run" /\ done'[r] = 1
        /\ status'[r] = "running" /\ todo'[r] = todo[r] /\ rollback'[r] = rollback[r]
    BY <1>4, <1>r, <2>1, StepAppliedFacts DEF DnsAdd
  <2>3. Known(r)'
    <3>1. Reports(r)'
      BY <2>1, <2>2, <1>r, <1>c, <1>i DEF Known, Reports
    <3>2. DnsKnown(r)'
      BY <2>1, <2>2, <1>r, <1>i DEF Known, DnsKnown, InForce
    <3>3. PangolinKnown(r)'
      BY <2>1, <2>2, <1>r, <1>c, <1>i DEF Known, PangolinKnown
    <3> QED
      BY <2>2, <3>1, <3>2, <3>3 DEF Known
  <2>4. CaddyKnown(r) => CaddyFine(r)'
    BY <2>1, <2>2, <1>r, <1>c DEF CaddyKnown, CaddyFine, InProgress
  <2> QED
    BY <2>1, <2>3, <2>4, <1>c, <1>i, <1>r, CreatedStays DEF Compensable
<1>5. CASE DnsFails(r)
  <2>1. UNCHANGED <<mem, dns>> /\ StepFailed(r)
    BY <1>5 DEF DnsFails
  <2>2. CASE Applying(r, "dns")
    BY <2>1, <2>2, <1>f, <1>r, ApplyingFacts DEF Compensable
  <2>3. CASE pc[r] = "dns_add"
    BY <2>1, <2>3, <1>f, <1>r DEF Control, Compensable
  <2> QED
    BY <1>5, <2>2, <2>3 DEF DnsFails
<1>6. CASE DnsUndoList(r)
  <2>1. /\ pc[r] = "run" /\ status[r] = "compensating" /\ todo[r] = 1
        /\ mem'[r].dns = mem[r].dns /\ mem'[r].seen = dns[Host(r)] /\ UNCHANGED dns
        /\ mem'[r].found = mem[r].found /\ mem'[r].content = mem[r].content
        /\ mem'[r].target = mem[r].target
        /\ mem'[r].caddy = mem[r].caddy
    BY <1>6, <1>r, UndoingFacts, OtherLocals DEF DnsUndoList, providers
  <2>2. /\ pc'[r] = "dns_undo" /\ done'[r] = done[r]
        /\ status'[r] = status[r] /\ todo'[r] = todo[r] /\ rollback'[r] = rollback[r]
    BY <1>6, <1>r, <1>p, GotoFacts DEF DnsUndoList, executor
  <2>3. Known(r)'
    BY <2>1, <2>2, <1>r, <1>c, <1>i
    DEF Known, Reports, DnsKnown, PangolinKnown, InForce, InProgress
  <2>4. CaddyKnown(r) => CaddyFine(r)'
    BY <2>1, <2>2, <1>r, <1>c DEF CaddyKnown, CaddyFine, InProgress
  <2> QED
    BY <2>1, <2>2, <2>3, <2>4, <1>c, <1>i, CreatedStays
<1>7. CASE DnsUndo(r)
  <2>1. /\ pc[r] = "dns_undo" /\ status[r] = "compensating" /\ todo[r] = 1
        /\ mem[r].dns # Nobody /\ mem[r].seen = dns[Host(r)] /\ UNCHANGED mem
    BY <1>7, <1>r, <1>i DEF DnsUndo, Control, Known, DnsKnown
  <2>2. dns'[Host(r)] = mem[r].dns
    <3>1. mem[r].dns \in SUBSET Addresses
      BY <1>r, <2>1 DEF Locals
    <3>2. dns'[Host(r)] = Restored(r)
      BY <1>7, <1>r DEF DnsUndo
    <3> QED
      BY <2>1, <3>1, <3>2 DEF Restored, Stale, Lost
  <2>3. /\ pc'[r] = "run" /\ done'[r] = done[r] /\ status'[r] = "compensating"
        /\ todo'[r] = 0 /\ rollback'[r]["dns"] = "rolled_back"
        /\ \A q \in Providers \ {"dns"} : rollback'[r][q] = rollback[r][q]
    BY <1>7, <1>r, <2>1, StepUndoneFacts, UndoneReport DEF DnsUndo
  <2>4. Known(r)'
    BY <2>1, <2>2, <2>3, <1>r, <1>c, <1>i
    DEF Known, Reports, DnsKnown, PangolinKnown, InForce, InProgress
  <2>5. CaddyKnown(r) => CaddyFine(r)'
    BY <2>1, <2>3, <1>r, <1>c DEF CaddyKnown, CaddyFine, InProgress
  <2> QED
    BY <2>3, <2>4, <2>5, <1>c, <1>i, CreatedStays
<1>8. CASE DnsUndoFails(r)
  <2>1. /\ pc[r] \in {"run", "dns_undo"} /\ status[r] = "compensating" /\ todo[r] = 1
        /\ UNCHANGED mem
    BY <1>8, <1>r, UndoingFacts DEF DnsUndoFails, Control
  <2>2. /\ pc'[r] = "run" /\ done'[r] = done[r] /\ status'[r] = "compensating"
        /\ todo'[r] = 0 /\ rollback'[r]["dns"] = "rollback_failed"
        /\ \A q \in Providers \ {"dns"} : rollback'[r][q] = rollback[r][q]
    BY <1>8, <1>r, <2>1, StepUndoneFacts, UndoneReport DEF DnsUndoFails
  <2>3. Known(r)'
    BY <2>1, <2>2, <1>r, <1>c, <1>i
    DEF Known, Reports, DnsKnown, PangolinKnown, InForce, InProgress
  <2> QED
    BY <2>2, <2>3, <1>r, <1>c, <1>i, CreatedStays, FailureIsNoted
<1> QED
  BY <1>1, <1>2, <1>3, <1>4, <1>5, <1>6, <1>7, <1>8 DEF DnsStep

LEMMA CaddySolo ==
    ASSUME TypeInv, Created, ~ HiddenFaults, NEW r \in Requests, Known(r), CaddyStep(r)
    PROVE  Known(r)' /\ Created' /\ (CaddyKnown(r) /\ Sound' => CaddyFine(r)')
<1>r. /\ TypeOK /\ Control(r) /\ mem \in [Requests -> Locals]
      /\ done[r] \in 0..3 /\ todo[r] \in 0..3 /\ Len(StepsOf(r)) \in 1..3
      /\ "dns" \in Providers /\ "caddy" \in Providers
      /\ Len(StepsOf(r))' = Len(StepsOf(r)) /\ Compensable(r)' = Compensable(r)
      /\ Host(r)' = Host(r) /\ Address(r)' = Address(r)
  BY StepsFacts
  DEF TypeInv, TypeOK, ControlOK, Providers, Host, Address, StepsOf, Compensable
<1>p. {"caddy_install", "caddy_reload", "caddy_restore", "caddy_undo_reload"} \subseteq Positions
  BY DEF Positions
<1>c. /\ UNCHANGED <<resource, target, dns>>
      /\ \A s \in Requests \ {r} :
            done'[s] = done[s] /\ pc'[s] = pc[s] /\ mem'[s] = mem[s]
      /\ pc[r] \notin {"pangolin_restore", "dead"}
  BY ThreadIsItsOwn
  DEF Applying, Undoing, Thread, Still, CaddyStep, CaddyRead, CaddyInstall, CaddyReload, CaddyFails,
      CaddyRestore, CaddyRestoreFails, CaddyUndo, CaddyUndoReload, CaddyUndoFails, providers
<1>i. /\ InProgress(r)
      /\ status[r] = "running" => r \notin unclean["caddy"] \cup unclean["pangolin"]
  BY ThreadIsItsOwn DEF Thread, Known, Reports
<1>1. CASE CaddyRead(r)
  <2>1. /\ pc[r] = "run" /\ status[r] = "running" /\ done[r] = 1 /\ Compensable(r)
        /\ mem'[r].caddy = caddyFile /\ UNCHANGED <<caddyFile, caddyRunning>>
        /\ mem'[r].dns = mem[r].dns /\ mem'[r].seen = mem[r].seen
        /\ mem'[r].found = mem[r].found /\ mem'[r].content = mem[r].content
        /\ mem'[r].target = mem[r].target
    BY <1>1, <1>r, ApplyingFacts, OtherLocals DEF CaddyRead, Compensable, providers
  <2>2. /\ UNCHANGED unclean /\ pc'[r] = "caddy_install"
        /\ done'[r] = done[r]
        /\ status'[r] = status[r] /\ todo'[r] = todo[r] /\ rollback'[r] = rollback[r]
    BY <1>1, <1>p, <1>r, GotoFacts DEF CaddyRead, executor
  <2>3. Known(r)'
    <3>1. Reports(r)'
      BY <2>1, <2>2, <1>r, <1>c, <1>i DEF Known, Reports, Compensable
    <3>2. DnsKnown(r)'
      BY <2>1, <2>2, <1>r, <1>c, <1>i DEF Known, DnsKnown, InForce
    <3>3. PangolinKnown(r)'
      BY <2>1, <2>2, <1>r, <1>c, <1>i DEF Known, PangolinKnown
    <3> QED
      BY <2>2, <3>1, <3>2, <3>3 DEF Known
  <2>4. CaddyKnown(r) => CaddyFine(r)'
    BY <2>1, <2>2, <1>r DEF CaddyKnown, CaddyFine, InProgress
  <2> QED
    BY <2>2, <2>3, <2>4, <1>c, <1>i, CreatedStays
<1>2. CASE CaddyInstall(r)
  <2>1. /\ pc[r] = "caddy_install" /\ status[r] = "running" /\ done[r] = 1
        /\ Compensable(r) /\ UNCHANGED <<mem, caddyRunning>>
    BY <1>2, <1>r DEF CaddyInstall, Compensable, Control
  <2>2. /\ UNCHANGED unclean /\ pc'[r] = "caddy_reload"
        /\ done'[r] = done[r]
        /\ status'[r] = status[r] /\ todo'[r] = todo[r] /\ rollback'[r] = rollback[r]
    BY <1>2, <1>p, <1>r, GotoFacts DEF CaddyInstall, executor
  <2>3. Known(r)'
    <3>1. Reports(r)'
      BY <2>1, <2>2, <1>r, <1>c, <1>i DEF Known, Reports, Compensable
    <3>2. DnsKnown(r)'
      BY <2>1, <2>2, <1>r, <1>c, <1>i DEF Known, DnsKnown, InForce
    <3>3. PangolinKnown(r)'
      BY <2>1, <2>2, <1>r, <1>c, <1>i DEF Known, PangolinKnown
    <3> QED
      BY <2>2, <3>1, <3>2, <3>3 DEF Known
  <2>4. CaddyKnown(r) => CaddyFine(r)'
    BY <2>1, <2>2, <1>r DEF CaddyKnown, CaddyFine, InProgress
  <2> QED
    BY <2>2, <2>3, <2>4, <1>c, <1>i, CreatedStays
<1>3. CASE CaddyReload(r)
  <2>1. /\ pc[r] = "caddy_reload" /\ status[r] = "running" /\ done[r] = 1
        /\ Compensable(r) /\ UNCHANGED <<mem, caddyFile>> /\ caddyRunning' = caddyFile
    BY <1>3, <1>r DEF CaddyReload, Compensable, Control
  <2>2. /\ UNCHANGED unclean /\ pc'[r] = "run"
        /\ done'[r] = 2
        /\ status'[r] = status[r] /\ todo'[r] = todo[r] /\ rollback'[r] = rollback[r]
    BY <1>3, <2>1, <1>r, StepAppliedFacts DEF CaddyReload
  <2>3. Known(r)'
    <3>1. Reports(r)'
      BY <2>1, <2>2, <1>r, <1>c, <1>i DEF Known, Reports, Compensable
    <3>2. DnsKnown(r)'
      BY <2>1, <2>2, <1>r, <1>c, <1>i DEF Known, DnsKnown, InForce
    <3>3. PangolinKnown(r)'
      BY <2>1, <2>2, <1>r, <1>c, <1>i DEF Known, PangolinKnown
    <3> QED
      BY <2>2, <3>1, <3>2, <3>3 DEF Known
  <2>4. CaddyKnown(r) => CaddyFine(r)'
    BY <2>1, <2>2, <1>r DEF CaddyKnown, CaddyFine, InProgress
  <2> QED
    BY <2>1, <2>2, <2>3, <2>4, <1>c, <1>i, <1>r, CreatedStays DEF Compensable
<1>4. CASE CaddyFails(r)
  <2>1. /\ pc[r] \in {"caddy_install", "caddy_reload"} /\ status[r] = "running"
        /\ done[r] = 1 /\ Compensable(r) /\ UNCHANGED <<mem, caddyFile, caddyRunning>>
    BY <1>4, <1>r DEF CaddyFails, Compensable, Control
  <2>2. /\ UNCHANGED unclean /\ pc'[r] = "caddy_restore"
        /\ done'[r] = done[r]
        /\ status'[r] = status[r] /\ todo'[r] = todo[r] /\ rollback'[r] = rollback[r]
    BY <1>4, <1>p, <1>r, GotoFacts DEF CaddyFails, executor
  <2>3. Known(r)'
    <3>1. Reports(r)'
      BY <2>1, <2>2, <1>r, <1>c, <1>i DEF Known, Reports, Compensable
    <3>2. DnsKnown(r)'
      BY <2>1, <2>2, <1>r, <1>c, <1>i DEF Known, DnsKnown, InForce
    <3>3. PangolinKnown(r)'
      BY <2>1, <2>2, <1>r, <1>c, <1>i DEF Known, PangolinKnown
    <3> QED
      BY <2>2, <3>1, <3>2, <3>3 DEF Known
  <2>4. CaddyKnown(r) => CaddyFine(r)'
    BY <2>1, <2>2, <1>r DEF CaddyKnown, CaddyFine, InProgress
  <2> QED
    BY <2>2, <2>3, <2>4, <1>c, <1>i, CreatedStays
<1>5. CASE CaddyRestore(r)
  <2>1. /\ pc[r] = "caddy_restore" /\ status[r] = "running" /\ done[r] = 1
        /\ Compensable(r) /\ UNCHANGED <<mem, caddyRunning>> /\ caddyFile' = mem[r].caddy
    BY <1>5, <1>r DEF CaddyRestore, Compensable, Control
  <2>2. /\ UNCHANGED unclean /\ pc'[r] = "run"
        /\ done'[r] = done[r] /\ status'[r] = "compensating"
        /\ todo'[r] = 1 /\ rollback'[r] = rollback[r]
    BY <1>5, <2>1, <1>r, StepFailedFacts DEF CaddyRestore
  <2>3. Known(r)'
    <3>1. Reports(r)'
      BY <2>1, <2>2, <1>r, <1>c, <1>i DEF Known, Reports, Compensable
    <3>2. DnsKnown(r)'
      BY <2>1, <2>2, <1>r, <1>c, <1>i DEF Known, DnsKnown, InForce
    <3>3. PangolinKnown(r)'
      BY <2>1, <2>2, <1>r, <1>c, <1>i DEF Known, PangolinKnown
    <3> QED
      BY <2>2, <3>1, <3>2, <3>3 DEF Known
  <2>4. CaddyKnown(r) => CaddyFine(r)'
    BY <2>1, <2>2, <1>r DEF CaddyKnown, CaddyFine, InProgress
  <2> QED
    BY <2>2, <2>3, <2>4, <1>c, <1>i, CreatedStays
<1>6. CASE CaddyRestoreFails(r)
  <2>1. /\ pc[r] = "caddy_restore" /\ status[r] = "running" /\ done[r] = 1
        /\ Compensable(r) /\ UNCHANGED mem
    BY <1>6, <1>r DEF CaddyRestoreFails, Compensable, Control
  <2>2. /\ pc'[r] = "run" /\ done'[r] = done[r] /\ status'[r] = "compensating"
        /\ todo'[r] = 1 /\ rollback'[r] = rollback[r]
        /\ r \in unclean'["caddy"] /\ unclean'["pangolin"] = unclean["pangolin"]
    BY <1>6, <2>1, <1>r, StepFailedUncleanFacts DEF CaddyRestoreFails
  <2>3. Known(r)'
    <3>1. Reports(r)'
      BY <2>1, <2>2, <1>r, <1>c, <1>i DEF Known, Reports, Compensable
    <3>2. DnsKnown(r)'
      BY <2>1, <2>2, <1>r, <1>c, <1>i DEF Known, DnsKnown, InForce
    <3>3. PangolinKnown(r)'
      BY <2>1, <2>2, <1>r, <1>c, <1>i DEF Known, PangolinKnown
    <3> QED
      BY <2>2, <3>1, <3>2, <3>3 DEF Known
  <2>4. CaddyKnown(r) => CaddyFine(r)'
    BY <2>1, <2>2, <1>r DEF CaddyKnown, CaddyFine, InProgress
  <2> QED
    BY <2>2, <2>3, <2>4, <1>c, <1>i, CreatedStays
<1>7. CASE CaddyUndo(r)
  <2>1. /\ pc[r] = "run" /\ status[r] = "compensating" /\ todo[r] = 2
        /\ UNCHANGED <<mem, caddyRunning>> /\ caddyFile' = mem[r].caddy
    BY <1>7, <1>r, UndoingFacts DEF CaddyUndo
  <2>2. /\ UNCHANGED unclean /\ pc'[r] = "caddy_undo_reload"
        /\ done'[r] = done[r]
        /\ status'[r] = status[r] /\ todo'[r] = todo[r] /\ rollback'[r] = rollback[r]
    BY <1>7, <1>p, <1>r, GotoFacts DEF CaddyUndo, executor
  <2>3. Known(r)'
    <3>1. Reports(r)'
      BY <2>1, <2>2, <1>r, <1>c, <1>i DEF Known, Reports, Compensable
    <3>2. DnsKnown(r)'
      BY <2>1, <2>2, <1>r, <1>c, <1>i DEF Known, DnsKnown, InForce
    <3>3. PangolinKnown(r)'
      BY <2>1, <2>2, <1>r, <1>c, <1>i DEF Known, PangolinKnown
    <3> QED
      BY <2>2, <3>1, <3>2, <3>3 DEF Known
  <2>4. CaddyKnown(r) => CaddyFine(r)'
    BY <2>1, <2>2, <1>r DEF CaddyKnown, CaddyFine, InProgress
  <2> QED
    BY <2>2, <2>3, <2>4, <1>c, <1>i, CreatedStays
<1>8. CASE CaddyUndoReload(r)
  <2>1. /\ pc[r] = "caddy_undo_reload" /\ status[r] = "compensating" /\ todo[r] = 2
        /\ UNCHANGED <<mem, caddyFile>> /\ caddyRunning' = caddyFile
    BY <1>8, <1>r DEF CaddyUndoReload, Control
  <2>2. /\ UNCHANGED unclean /\ pc'[r] = "run"
        /\ done'[r] = done[r] /\ status'[r] = "compensating"
        /\ todo'[r] = 1 /\ rollback'[r]["caddy"] = "rolled_back"
        /\ \A q \in Providers \ {"caddy"} : rollback'[r][q] = rollback[r][q]
    BY <1>8, <2>1, <1>r, StepUndoneFacts, UndoneReport DEF CaddyUndoReload
  <2>3. Known(r)'
    <3>1. Reports(r)'
      BY <2>1, <2>2, <1>r, <1>c, <1>i DEF Known, Reports, Compensable
    <3>2. DnsKnown(r)'
      BY <2>1, <2>2, <1>r, <1>c, <1>i DEF Known, DnsKnown, InForce
    <3>3. PangolinKnown(r)'
      BY <2>1, <2>2, <1>r, <1>c, <1>i DEF Known, PangolinKnown
    <3> QED
      BY <2>2, <3>1, <3>2, <3>3 DEF Known
  <2>4. CaddyKnown(r) => CaddyFine(r)'
    BY <2>1, <2>2, <1>r DEF CaddyKnown, CaddyFine, InProgress
  <2> QED
    BY <2>2, <2>3, <2>4, <1>c, <1>i, CreatedStays
<1>9. CASE CaddyUndoFails(r)
  <2>1. /\ pc[r] \in {"run", "caddy_undo_reload"} /\ status[r] = "compensating"
        /\ todo[r] = 2 /\ UNCHANGED mem
    BY <1>9, <1>r, UndoingFacts DEF CaddyUndoFails, Control
  <2>2. /\ UNCHANGED unclean /\ pc'[r] = "run"
        /\ done'[r] = done[r] /\ status'[r] = "compensating"
        /\ todo'[r] = 1 /\ rollback'[r]["caddy"] = "rollback_failed"
        /\ \A q \in Providers \ {"caddy"} : rollback'[r][q] = rollback[r][q]
    BY <1>9, <2>1, <1>r, StepUndoneFacts, UndoneReport DEF CaddyUndoFails
  <2>3. Known(r)'
    <3>1. Reports(r)'
      BY <2>1, <2>2, <1>r, <1>c, <1>i DEF Known, Reports, Compensable
    <3>2. DnsKnown(r)'
      BY <2>1, <2>2, <1>r, <1>c, <1>i DEF Known, DnsKnown, InForce
    <3>3. PangolinKnown(r)'
      BY <2>1, <2>2, <1>r, <1>c, <1>i DEF Known, PangolinKnown
    <3> QED
      BY <2>2, <3>1, <3>2, <3>3 DEF Known
  <2> QED
    BY <2>2, <2>3, <1>r, <1>c, <1>i, CreatedStays, FailureIsNoted
<1> QED
  BY <1>1, <1>2, <1>3, <1>4, <1>5, <1>6, <1>7, <1>8, <1>9 DEF CaddyStep

LEMMA PangolinSolo ==
    ASSUME TypeInv, Created, ~ HiddenFaults, NEW r \in Requests, Known(r), PangolinStep(r)
    PROVE  Known(r)' /\ Created' /\ (CaddyKnown(r) /\ Sound' => CaddyFine(r)')
<1>r. /\ TypeOK /\ Control(r) /\ mem \in [Requests -> Locals]
      /\ resource \in [Requests -> Requests \cup {Nobody}] /\ r # Nobody
      /\ target \in [Requests -> Requests \cup {Nobody}]
      /\ done[r] \in 0..3 /\ todo[r] \in 0..3 /\ Len(StepsOf(r)) \in 1..3
      /\ "dns" \in Providers /\ "caddy" \in Providers /\ "pangolin" \in Providers
      /\ Len(StepsOf(r))' = Len(StepsOf(r)) /\ Compensable(r)' = Compensable(r)
      /\ Host(r)' = Host(r) /\ Address(r)' = Address(r)
  BY StepsFacts, NobodyAssumption
  DEF TypeInv, TypeOK, ControlOK, Providers, Host, Address, StepsOf, Compensable
<1>p. {"pangolin_publish", "pangolin_restore"} \subseteq Positions
  BY DEF Positions
<1>c. /\ UNCHANGED <<dns, caddyFile, caddyRunning>>
      /\ \A s \in Requests \ {r} :
            done'[s] = done[s] /\ pc'[s] = pc[s] /\ mem'[s] = mem[s]
  BY ThreadIsItsOwn
  DEF Thread, Still, PangolinStep, PangolinAmbiguous, PangolinLookup,
      PangolinPublish, PangolinFails, PangolinBreaksNew, PangolinBreaksAdopted,
      PangolinBreaksGone, PangolinRestore, PangolinRestoreFails, providers
<1>i. /\ InProgress(r)
      /\ status[r] = "running" => r \notin unclean["caddy"] \cup unclean["pangolin"]
  BY ThreadIsItsOwn DEF Thread, Known, Reports
<1>a. ASSUME Applying(r, "pangolin") \/ pc[r] \in {"pangolin_publish", "pangolin_restore"}
      PROVE  /\ pc[r] \in {"run", "pangolin_publish", "pangolin_restore"}
             /\ status[r] = "running"
             /\ done[r] < Len(StepsOf(r)) /\ done[r] < 3
             /\ Compensable(r) => done[r] = 2 /\ Len(StepsOf(r)) = 3
             /\ ~ Compensable(r) => done[r] = 0 /\ Len(StepsOf(r)) = 1
  <2>1. /\ pc[r] \in {"run", "pangolin_publish", "pangolin_restore"}
        /\ status[r] = "running" /\ done[r] + 1 <= Len(StepsOf(r))
        /\ Len(StepsOf(r)) > 1 => done[r] = 2
    BY <1>a, <1>r, ApplyingFacts DEF Control
  <2> DEFINE n == Len(StepsOf(r))
  <2>2. n \in 1..3 /\ done[r] \in 0..3 /\ done[r] + 1 <= n /\ (n > 1 => done[r] = 2)
    BY <2>1, <1>r
  <2>3. Compensable(r) <=> n > 1
    BY DEF Compensable
  <2> HIDE DEF n
  <2>4. /\ done[r] < n /\ done[r] < 3
        /\ n > 1 => done[r] = 2 /\ n = 3
        /\ ~ (n > 1) => done[r] = 0 /\ n = 1
    BY <2>2
  <2> QED
    BY <2>1, <2>3, <2>4 DEF n
<1>f. ASSUME Applying(r, "pangolin") \/ pc[r] = "pangolin_publish", StepFailed(r),
             UNCHANGED <<mem, resource, target>>
      PROVE  Known(r)' /\ Created' /\ (CaddyKnown(r) /\ Sound' => CaddyFine(r)')
  <2>1. /\ pc[r] \in {"run", "pangolin_publish"} /\ status[r] = "running"
        /\ done[r] < Len(StepsOf(r))
        /\ Compensable(r) => done[r] = 2
        /\ ~ Compensable(r) => done[r] = 0
        /\ UNCHANGED <<mem, resource, target>>
    BY <1>a, <1>f DEF Applying
  <2>2. /\ UNCHANGED unclean /\ pc'[r] = "run" /\ done'[r] = done[r] /\ status'[r] = "compensating"
        /\ todo'[r] = done[r] /\ rollback'[r] = rollback[r]
    BY <1>f, <1>r, StepFailedFacts
  <2>3. Known(r)'
    <3>1. Reports(r)'
      BY <2>1, <2>2, <1>r, <1>c, <1>i DEF Known, Reports, Compensable
    <3>2. DnsKnown(r)'
      BY <2>1, <2>2, <1>r, <1>c, <1>i DEF Known, DnsKnown, InForce
    <3>3. PangolinKnown(r)'
      BY <2>1, <2>2, <1>r, <1>c, <1>i DEF Known, PangolinKnown
    <3> QED
      BY <2>2, <3>1, <3>2, <3>3 DEF Known
  <2>4. CaddyKnown(r) => CaddyFine(r)'
    BY <2>1, <2>2, <1>r, <1>c DEF CaddyKnown, CaddyFine, InProgress
  <2> QED
    BY <2>1, <2>2, <2>3, <2>4, <1>c, <1>i, CreatedStays
<1>1. CASE PangolinAmbiguous(r)
  BY <1>1, <1>f DEF PangolinAmbiguous, providers
<1>2. CASE PangolinLookup(r)
  <2>1. /\ pc[r] = "run" /\ status[r] = "running" /\ done[r] < Len(StepsOf(r))
        /\ Compensable(r) => done[r] = 2
        /\ ~ Compensable(r) => done[r] = 0
        /\ UNCHANGED <<resource, target>>
    BY <1>2, <1>a DEF PangolinLookup, Applying, providers
  <2>a. /\ mem'[r].dns = mem[r].dns /\ mem'[r].seen = mem[r].seen
        /\ mem'[r].caddy = mem[r].caddy /\ mem'[r].target = mem[r].target
        /\ \/ mem'[r].found = mem[r].found /\ mem'[r].content = mem[r].content
           \/ mem'[r].content = resource[mem'[r].found] /\ mem'[r].content # Nobody
    <3>1. CASE UNCHANGED mem
      BY <3>1
    <3>2. ASSUME NEW c \in Requests, Matching(Host(r)) = {c},
                 mem' = [mem EXCEPT ![r].found = c, ![r].content = resource[c]]
          PROVE  <2>a
      <4>1. resource[c] # Nobody
        BY <3>2 DEF Matching
      <4>2. /\ mem'[r].dns = mem[r].dns /\ mem'[r].seen = mem[r].seen
            /\ mem'[r].caddy = mem[r].caddy
            /\ mem'[r].found = c /\ mem'[r].content = resource[c]
            /\ mem'[r].target = mem[r].target
        BY <3>2, <1>r, FoundLocals
      <4> QED
        BY <4>1, <4>2
    <3> QED
      BY <1>2, <3>1, <3>2 DEF PangolinLookup
  <2>2. /\ UNCHANGED unclean /\ pc'[r] = "pangolin_publish"
        /\ done'[r] = done[r]
        /\ status'[r] = status[r] /\ todo'[r] = todo[r] /\ rollback'[r] = rollback[r]
    BY <1>2, <1>p, <1>r, GotoFacts DEF PangolinLookup, executor
  <2>3. Known(r)'
    <3>1. Reports(r)'
      BY <2>1, <2>a, <2>2, <1>r, <1>c, <1>i DEF Known, Reports, Compensable
    <3>2. DnsKnown(r)'
      BY <2>1, <2>a, <2>2, <1>r, <1>c, <1>i DEF Known, DnsKnown, InForce
    <3>3. PangolinKnown(r)'
      BY <2>1, <2>a, <2>2, <1>r, <1>c, <1>i DEF Known, PangolinKnown
    <3> QED
      BY <2>2, <3>1, <3>2, <3>3 DEF Known
  <2>4. CaddyKnown(r) => CaddyFine(r)'
    BY <2>1, <2>a, <2>2, <1>r, <1>c DEF CaddyKnown, CaddyFine, InProgress
  <2> QED
    BY <2>1, <2>2, <2>3, <2>4, <1>c, <1>i, CreatedStays
<1>3. CASE PangolinPublish(r)
  <2>1. /\ pc[r] = "pangolin_publish" /\ status[r] = "running"
        /\ done[r] < Len(StepsOf(r)) /\ done[r] < 3
        /\ Compensable(r) => done[r] = 2 /\ Len(StepsOf(r)) = 3
        /\ ~ Compensable(r) => done[r] = 0 /\ Len(StepsOf(r)) = 1
        /\ UNCHANGED mem /\ resource' = [resource EXCEPT ![PublishedAs(r)] = r]
    BY <1>3, <1>a DEF PangolinPublish
  <2>2. /\ UNCHANGED unclean /\ pc'[r] = "run"
        /\ done'[r] = done[r] + 1
        /\ status'[r] = status[r] /\ todo'[r] = todo[r] /\ rollback'[r] = rollback[r]
    BY <1>3, <2>1, <1>r, StepAppliedFacts DEF PangolinPublish
  <2>a. done'[r] = Len(StepsOf(r))
    <3>1. CASE Compensable(r)
      BY <2>1, <2>2, <3>1
    <3>2. CASE ~ Compensable(r)
      BY <2>1, <2>2, <3>2
    <3> QED
      BY <3>1, <3>2
  <2>3. Known(r)'
    <3>1. Reports(r)'
      BY <2>1, <2>2, <2>a, <1>r, <1>c, <1>i DEF Known, Reports, Compensable
    <3>2. DnsKnown(r)'
      BY <2>1, <2>2, <2>a, <1>r, <1>c, <1>i DEF Known, DnsKnown, InForce
    <3>3. PangolinKnown(r)'
      BY <2>1, <2>2, <2>a, <1>r, <1>c, <1>i DEF Known, PangolinKnown
    <3> QED
      BY <2>2, <3>1, <3>2, <3>3 DEF Known
  <2>4. CaddyKnown(r) => CaddyFine(r)'
    BY <2>1, <2>2, <1>r, <1>c DEF CaddyKnown, CaddyFine, InProgress
  <2>5. Created'
    <3>1. ASSUME NEW c \in Requests \ {r}, resource'[c] # Nobody
          PROVE  resource[c] # Nobody
      <4>1. CASE c = PublishedAs(r)
        <5>1. c = mem[r].found /\ mem[r].found # Nobody
          BY <4>1, NobodyAssumption DEF PublishedAs
        <5> QED
          BY <5>1, <2>1, <1>i DEF Known, PangolinKnown
      <4>2. CASE c # PublishedAs(r)
        BY <2>1, <3>1, <4>2, <1>r
      <4> QED
        BY <4>1, <4>2
    <3>2. \A c \in Requests : StepsOf(c)' = StepsOf(c)
      BY DEF StepsOf
    <3> QED
      BY <2>2, <2>a, <3>1, <3>2, <1>c DEF Created
  <2> QED
    BY <2>3, <2>4, <2>5
<1>4. CASE PangolinFails(r)
  BY <1>4, <1>f DEF PangolinFails
<1>s. ASSUME pc[r] = "pangolin_publish", Goto(r, "pangolin_restore"), UNCHANGED executor,
             mem'[r].dns = mem[r].dns, mem'[r].seen = mem[r].seen,
             mem'[r].caddy = mem[r].caddy, mem'[r].found = mem[r].found,
             mem'[r].content = mem[r].content,
             mem[r].found # Nobody => resource'[mem[r].found] # Nobody,
             \A c \in Requests : resource'[c] # Nobody =>
                 resource[c] # Nobody \/ (c = r /\ mem[r].found = Nobody)
      PROVE  Known(r)' /\ Created' /\ (CaddyKnown(r) /\ Sound' => CaddyFine(r)')
  <2>1. status[r] = "running" /\ done[r] < Len(StepsOf(r))
    BY <1>a, <1>s
  <2>2. pc'[r] = "pangolin_restore" /\ UNCHANGED <<status, done, todo, rollback, unclean>>
    BY <1>s, <1>p, <1>r, GotoFacts DEF executor
  <2>3. Known(r)'
    <3>1. Reports(r)'
      BY <1>s, <2>1, <2>2, <1>r, <1>i DEF Known, Reports
    <3>2. DnsKnown(r)'
      BY <1>s, <2>1, <2>2, <1>r, <1>c, <1>i DEF Known, DnsKnown, InForce
    <3>3. PangolinKnown(r)'
      BY <1>s, <2>1, <2>2, <1>r, <1>i DEF Known, PangolinKnown
    <3> QED
      BY <2>2, <3>1, <3>2, <3>3 DEF Known
  <2>4. CaddyKnown(r) => CaddyFine(r)'
    BY <1>s, <2>1, <2>2, <1>r, <1>c DEF CaddyKnown, CaddyFine, InProgress
  <2>5. Created'
    BY <1>s, <2>2, <1>c DEF Created, StepsOf
  <2> QED
    BY <2>3, <2>4, <2>5
<1>5. CASE PangolinBreaksNew(r)
  BY <1>5, <1>s, <1>r DEF PangolinBreaksNew
<1>k. ASSUME pc[r] = "pangolin_publish", mem[r].found # Nobody
      PROVE  mem[r].found \in Requests /\ resource[mem[r].found] # Nobody
  <2>1. mem[r].found \in Requests
    BY <1>k, <1>r DEF Locals
  <2> QED
    BY <2>1, <1>a, <1>k, <1>i DEF Known, PangolinKnown
<1>6. CASE PangolinBreaksAdopted(r)
  <2>1. /\ pc[r] = "pangolin_publish" /\ Goto(r, "pangolin_restore") /\ UNCHANGED executor
        /\ mem[r].found # Nobody
        /\ resource' \in {resource, [resource EXCEPT ![mem[r].found] = r]}
        /\ UNCHANGED mem \/ mem' = [mem EXCEPT ![r].target = target[mem[r].found]]
    BY <1>6 DEF PangolinBreaksAdopted
  <2>2. /\ mem'[r].dns = mem[r].dns /\ mem'[r].seen = mem[r].seen
        /\ mem'[r].caddy = mem[r].caddy /\ mem'[r].found = mem[r].found
        /\ mem'[r].content = mem[r].content
    BY <2>1, <1>r, OtherLocals
  <2>3. /\ resource'[mem[r].found] # Nobody
        /\ \A c \in Requests : resource'[c] # Nobody => resource[c] # Nobody
    BY <2>1, <1>k, <1>r
  <2> QED
    BY <2>1, <2>2, <2>3, <1>s
<1>7. CASE PangolinBreaksGone(r)
  BY <1>7, <1>k DEF PangolinBreaksGone, Gone
<1>e. ASSUME pc[r] = "pangolin_restore", UNCHANGED <<mem, done, rollback>>,
             pc'[r] = "run", status'[r] = "compensating", todo'[r] = done[r],
             \/ /\ UNCHANGED unclean
                /\ target' = RestoredTarget(r) /\ resource' = RestoredSettings(r)
             \/ /\ r \in unclean'["pangolin"] /\ unclean'["caddy"] = unclean["caddy"]
                /\ unclean["pangolin"] \subseteq unclean'["pangolin"]
                /\ UNCHANGED resource
      PROVE  Known(r)' /\ Created' /\ (CaddyKnown(r) /\ Sound' => CaddyFine(r)')
  <2>1. /\ status[r] = "running" /\ done[r] < Len(StepsOf(r)) /\ done[r] < 3
        /\ Compensable(r) => done[r] = 2
        /\ ~ Compensable(r) => done[r] = 0
    BY <1>a, <1>e
  <2>2. mem[r].found # Nobody =>
          /\ mem[r].found \in Requests /\ mem[r].content # Nobody
          /\ resource[mem[r].found] # Nobody
    BY <2>1, <1>e, <1>r, <1>i DEF Known, PangolinKnown, Locals
  <2>3. Known(r)'
    <3>1. Reports(r)'
      BY <1>e, <2>1, <1>r DEF Known, Reports, Compensable
    <3>2. DnsKnown(r)'
      BY <1>e, <2>1, <1>r, <1>c, <1>i DEF Known, DnsKnown, InForce
    <3>3. PangolinKnown(r)'
      BY <1>e, <2>1, <2>2, <1>r DEF PangolinKnown, RestoredTarget, RestoredSettings
    <3> QED
      BY <1>e, <3>1, <3>2, <3>3 DEF Known
  <2>4. CaddyKnown(r) => CaddyFine(r)'
    BY <1>e, <2>1, <1>r, <1>c DEF CaddyKnown, CaddyFine, InProgress
  <2>5. Created'
    <3>1. CASE UNCHANGED resource /\ r \in unclean'["pangolin"]
      BY <3>1, <1>e, <1>c DEF Created, StepsOf
    <3>2. CASE UNCHANGED unclean /\ resource' = RestoredSettings(r)
      <4>1. resource'[r] = Nobody
        BY <3>2, <2>1, <2>2, <1>e, <1>i, <1>r DEF RestoredSettings, Created
      <4>2. \A c \in Requests : resource'[c] # Nobody => resource[c] # Nobody
        BY <3>2, <2>2, <1>r DEF RestoredSettings
      <4> QED
        BY <3>2, <4>1, <4>2, <1>e, <1>c DEF Created, StepsOf
    <3> QED
      BY <1>e, <3>1, <3>2
  <2> QED
    BY <2>3, <2>4, <2>5
<1>8. CASE PangolinRestore(r)
  BY <1>8, <1>e, <1>r, StepFailedFacts DEF PangolinRestore
<1>9. CASE PangolinRestoreFails(r)
  BY <1>9, <1>e, <1>r, StepFailedUncleanFacts DEF PangolinRestoreFails
<1> QED
  BY <1>1, <1>2, <1>3, <1>4, <1>5, <1>6, <1>7, <1>8, <1>9 DEF PangolinStep

LEMMA HandlerSolo ==
    ASSUME TypeInv, Created, NEW r \in Requests, Known(r), HandlerStep(r)
    PROVE  Known(r)' /\ Created' /\ (CaddyKnown(r) /\ Sound' => CaddyFine(r)')
<1>r. /\ TypeOK /\ Control(r) /\ mem \in [Requests -> Locals]
      /\ pc \in [Requests -> Positions] /\ status \in [Requests -> Statuses]
      /\ done[r] \in 0..3 /\ todo[r] \in 0..3 /\ Len(StepsOf(r)) \in 1..3
      /\ "dns" \in Providers /\ "caddy" \in Providers
      /\ Len(StepsOf(r))' = Len(StepsOf(r)) /\ Compensable(r)' = Compensable(r)
      /\ Host(r)' = Host(r) /\ Address(r)' = Address(r)
  BY StepsFacts
  DEF TypeInv, TypeOK, ControlOK, Providers, Host, Address, StepsOf, Compensable
<1>c. /\ UNCHANGED <<resource, target, dns, caddyFile, caddyRunning>>
      /\ UNCHANGED <<done, todo, rollback, unclean>>
      /\ Created'
  <2>1. /\ UNCHANGED <<resource, target, dns, caddyFile, caddyRunning>>
        /\ UNCHANGED <<done, todo, rollback, unclean>>
        /\ pc[r] \notin {"pangolin_restore", "dead"}
    BY DEF HandlerStep, LoadRoutes, IntegrationMissing, ReturnApplied, ReturnRolledBack,
           Audit, Save, StoreFails, providers, executor
  <2>2. \A s \in Requests \ {r} : pc'[s] = pc[s] /\ mem'[s] = mem[s]
    BY ThreadIsItsOwn DEF Thread, Still
  <2> QED
    BY <2>1, <2>2, CreatedStays
<1>i. InProgress(r)
  BY ThreadIsItsOwn DEF Thread
<1>e. ASSUME UNCHANGED status, pc'[r] \in {"run", "save", "audit"},
             pc[r] \in {"load", "save", "audit"}, pc'[r] = "run" => pc[r] = "load",
             mem'[r].dns = mem[r].dns, mem'[r].caddy = mem[r].caddy,
             mem'[r].found = mem[r].found, mem'[r].content = mem[r].content,
             mem'[r].target = mem[r].target
      PROVE  Known(r)' /\ Created' /\ (CaddyKnown(r) /\ Sound' => CaddyFine(r)')
  <2>1. Reports(r)'
    BY <1>c, <1>r, <1>e DEF Known, Reports
  <2>2. DnsKnown(r)'
    BY <1>c, <1>r, <1>e, <1>i DEF Known, DnsKnown, InForce
  <2>3. PangolinKnown(r)'
    BY <1>c, <1>r, <1>e, <1>i DEF Known, PangolinKnown
  <2>4. pc'[r] = "run" => mem[r].caddy = Nobody
    BY <1>e DEF Known
  <2>5. CaddyKnown(r) => CaddyFine(r)'
    BY <1>c, <1>r, <1>e, <2>4 DEF CaddyKnown, CaddyFine, InProgress
  <2> QED
    BY <1>c, <1>e, <2>1, <2>2, <2>3, <2>5 DEF Known
<1>a. ASSUME NEW what, Answer(r, what), UNCHANGED status,
             pc[r] \in {"load", "audit", "save"}
      PROVE  Known(r)' /\ Created' /\ (CaddyKnown(r) /\ Sound' => CaddyFine(r)')
  <2>1. pc'[r] = "done"
    BY <1>a, <1>r DEF Answer, Goto
  <2>2. Reports(r)'
    BY <2>1, <1>a, <1>c, <1>r DEF Known, Reports
  <2>3. CaddyKnown(r) => CaddyFine(r)'
    BY <2>1, <1>a, <1>c DEF CaddyKnown, CaddyFine, InProgress
  <2> QED
    BY <2>1, <2>2, <2>3, <1>c DEF Known, InProgress
<1>t. ASSUME UNCHANGED mem, pc[r] = "run", pc'[r] = "audit",
             \/ status[r] = "running" /\ status'[r] = "applied"
             \/ /\ status[r] = "compensating" /\ todo[r] = 0
                /\ \/ status'[r] = "rollback_failed"
                   \/ /\ status'[r] = "rolled_back"
                      /\ \A p \in Providers : rollback[r][p] # "rollback_failed"
      PROVE  Known(r)' /\ Created' /\ (CaddyKnown(r) /\ Sound' => CaddyFine(r)')
  <2>1. Reports(r)'
    BY <1>t, <1>c, <1>r DEF Known, Reports
  <2>2. DnsKnown(r)'
    BY <1>t, <1>c, <1>r, <1>i DEF Known, DnsKnown, InForce
  <2>3. PangolinKnown(r)'
    BY <1>t, <1>c, <1>r, <1>i DEF Known, PangolinKnown
  <2>4. CaddyKnown(r) => CaddyFine(r)'
    BY <1>t, <1>c, <1>r DEF CaddyKnown, CaddyFine, InProgress
  <2> QED
    BY <1>t, <1>c, <2>1, <2>2, <2>3, <2>4 DEF Known
<1>1. CASE LoadRoutes(r)
  <2>1. /\ mem'[r].dns = mem[r].dns /\ mem'[r].caddy = mem[r].caddy
        /\ mem'[r].found = mem[r].found /\ mem'[r].content = mem[r].content
        /\ mem'[r].target = mem[r].target
    BY <1>1, <1>r, OtherLocals DEF LoadRoutes
  <2>2. pc[r] = "load" /\ pc'[r] \in {"run", "save"} /\ UNCHANGED status
    BY <1>1, <1>r DEF LoadRoutes, Goto, executor
  <2> QED
    BY <2>1, <2>2, <1>e
<1>2. CASE IntegrationMissing(r)
  BY <1>2, <1>a DEF IntegrationMissing, executor
<1>3. CASE ReturnApplied(r)
  <2>1. /\ UNCHANGED mem /\ pc[r] = "run" /\ pc'[r] = "audit"
        /\ status[r] = "running" /\ status'[r] = "applied"
    BY <1>3, <1>r DEF ReturnApplied, Goto
  <2> QED
    BY <2>1, <1>t
<1>4. CASE ReturnRolledBack(r)
  <2>1. /\ UNCHANGED mem /\ pc[r] = "run" /\ pc'[r] = "audit"
        /\ status[r] = "compensating" /\ todo[r] = 0
        /\ \/ status'[r] = "rollback_failed"
           \/ /\ status'[r] = "rolled_back"
              /\ \A p \in Providers : rollback[r][p] # "rollback_failed"
    BY <1>4, <1>r DEF ReturnRolledBack, Goto
  <2> QED
    BY <2>1, <1>t
<1>5. CASE Audit(r)
  <2>1. pc[r] = "audit" /\ UNCHANGED status
    BY <1>5 DEF Audit, executor
  <2>2. CASE Goto(r, "save") /\ UNCHANGED mem
    BY <2>1, <2>2, <1>r, <1>e DEF Goto
  <2> QED
    BY <1>5, <2>1, <2>2, <1>a DEF Audit
<1>6. CASE Save(r)
  <2>1. pc[r] = "save" /\ UNCHANGED status
    BY <1>6 DEF Save, executor
  <2>2. CASE Goto(r, "audit") /\ UNCHANGED mem
    BY <2>1, <2>2, <1>r, <1>e DEF Goto
  <2> QED
    BY <1>6, <2>1, <2>2, <1>a DEF Save
<1>7. CASE StoreFails(r)
  BY <1>7, <1>a DEF StoreFails, executor
<1> QED
  BY <1>1, <1>2, <1>3, <1>4, <1>5, <1>6, <1>7 DEF HandlerStep

(* A step of a thread covers up no failed rollback. *)
LEMMA ThreadSound ==
    ASSUME TypeInv, Alone, NEW r \in Requests, Known(r), Thread(r), Sound'
    PROVE  Sound
<1>r. /\ TypeOK /\ Control(r) /\ todo[r] \in 0..3
      /\ status \in [Requests -> Statuses] /\ "dns" \in Providers /\ "caddy" \in Providers
  BY DEF TypeInv, TypeOK, ControlOK, Providers
<1>i. /\ InProgress(r)
      /\ \A s \in Requests \ {r} : Still(s) /\ ~ InProgress(s)
  BY OthersIdle, ThreadIsItsOwn
<1>1. ASSUME DnsStep(r) \/ CaddyStep(r) \/ PangolinStep(r)
      PROVE  /\ InProgress(r)' /\ status[r] # "rollback_failed"
             /\ \A p \in Providers :
                   rollback[r][p] = "rollback_failed" => rollback'[r][p] = "rollback_failed"
  <2>1. InProgress(r)' /\ pc[r] \notin {"audit", "save"}
    <3>1. PICK position \in Positions \ {"ready", "done", "dead"} : Goto(r, position)
      BY <1>1
      DEF DnsStep, DnsConflict, DnsAlreadyAnswers, DnsSnapshot, DnsAdd, DnsFails,
          DnsUndoList, DnsUndo, DnsUndoFails, CaddyStep, CaddyRead, CaddyInstall,
          CaddyReload, CaddyFails, CaddyRestore, CaddyRestoreFails, CaddyUndo,
          CaddyUndoReload, CaddyUndoFails, PangolinStep, PangolinAmbiguous,
          PangolinLookup, PangolinPublish, PangolinFails, PangolinBreaksNew,
          PangolinBreaksAdopted, PangolinBreaksGone, PangolinRestore,
          PangolinRestoreFails, StepApplied, StepFailed, StepFailedUnclean,
          Compensate, StepUndone, Positions
    <3>2. pc[r] \notin {"audit", "save"}
      BY <1>1
      DEF DnsStep, DnsConflict, DnsAlreadyAnswers, DnsSnapshot, DnsAdd, DnsFails,
          DnsUndoList, DnsUndo, DnsUndoFails, CaddyStep, CaddyRead, CaddyInstall,
          CaddyReload, CaddyFails, CaddyRestore, CaddyRestoreFails, CaddyUndo,
          CaddyUndoReload, CaddyUndoFails, PangolinStep, PangolinAmbiguous,
          PangolinLookup, PangolinPublish, PangolinFails, PangolinBreaksNew,
          PangolinBreaksAdopted, PangolinBreaksGone, PangolinRestore,
          PangolinRestoreFails, Applying, Undoing
    <3> QED
      BY <3>1, <3>2, <1>r DEF Goto, TypeOK, InProgress
  <2>2. status[r] # "rollback_failed"
    BY <2>1, <1>i, <1>r DEF Control, InProgress
  <2>3. ASSUME NEW p \in {"dns", "caddy"}, NEW result, StepUndone(r, p, result),
               \/ Undoing(r, p)
               \/ p = "dns" /\ pc[r] = "dns_undo"
               \/ p = "caddy" /\ pc[r] = "caddy_undo_reload"
        PROVE  \A q \in Providers :
                  rollback[r][q] = "rollback_failed" => rollback'[r][q] = "rollback_failed"
    <3>1. /\ status[r] = "compensating" /\ p \in Providers
          /\ p = "dns" => todo[r] = 1
          /\ p = "caddy" => todo[r] = 2
      BY <2>3, <1>r, UndoingFacts DEF Control
    <3>2. rollback[r][p] = "none"
      BY <3>1 DEF Known, Reports
    <3> QED
      BY <2>3, <3>1, <3>2, <1>r, UndoneReport
  <2>4. CASE DnsStep(r)
    BY <2>1, <2>2, <2>3, <2>4
    DEF DnsStep, DnsConflict, DnsAlreadyAnswers, DnsSnapshot, DnsAdd, DnsFails,
        DnsUndoList, DnsUndo, DnsUndoFails, StepApplied, StepFailed,
        StepFailedUnclean, Compensate, executor
  <2>5. CASE CaddyStep(r)
    BY <2>1, <2>2, <2>3, <2>5
    DEF CaddyStep, CaddyRead, CaddyInstall, CaddyReload, CaddyFails, CaddyRestore,
        CaddyRestoreFails, CaddyUndo, CaddyUndoReload, CaddyUndoFails, StepApplied,
        StepFailed, StepFailedUnclean, Compensate, executor
  <2>6. CASE PangolinStep(r)
    BY <2>1, <2>2, <2>6
    DEF PangolinStep, PangolinAmbiguous, PangolinLookup, PangolinPublish,
        PangolinFails, PangolinBreaksNew, PangolinBreaksAdopted, PangolinBreaksGone,
        PangolinRestore, PangolinRestoreFails, StepApplied, StepFailed,
        StepFailedUnclean, Compensate, executor
  <2> QED
    BY <1>1, <2>4, <2>5, <2>6
<1>2. ASSUME HandlerStep(r)
      PROVE  /\ status[r] # "rollback_failed"
             /\ \A p \in Providers : rollback[r][p] # "rollback_failed"
  <2>1. /\ UNCHANGED rollback
        /\ \/ pc[r] \in {"load", "audit", "save"} /\ UNCHANGED status
           \/ pc[r] = "run" /\ pc'[r] = "audit"
    BY <1>2, <1>r
    DEF HandlerStep, LoadRoutes, IntegrationMissing, ReturnApplied, ReturnRolledBack,
        Audit, Save, StoreFails, executor, Goto, TypeOK
  <2>2. CASE pc[r] \in {"load", "audit", "save"} /\ UNCHANGED status
    <3>1. status[r] \in {"running", "applied", "rolled_back"}
      BY <2>2, <1>r DEF Known, Reports, Sound, Statuses
    <3> QED
      BY <3>1 DEF Known, Reports
  <2>3. CASE pc[r] = "run" /\ pc'[r] = "audit"
    <3>1. \A p \in Providers : rollback[r][p] # "rollback_failed"
      BY <2>1, <2>3 DEF Sound, InProgress
    <3>2. status[r] # "rollback_failed"
      BY <2>3, <1>r DEF Control
    <3> QED
      BY <3>1, <3>2
  <2> QED
    BY <2>1, <2>2, <2>3
<1>3. /\ status[r] # "rollback_failed"
      /\ \A p \in Providers : rollback[r][p] # "rollback_failed"
  BY <1>1, <1>2 DEF Thread, Sound
<1>4. \A s \in Requests \ {r} : status[s] # "rollback_failed"
  BY <1>i DEF Sound, Still
<1> QED
  BY <1>3, <1>4, <1>i DEF Sound

LEMMA NextSoloInv ==
    ASSUME MaxInFlight = 1, ~ HiddenFaults, TypeInv, SoloInv, [Next]_vars
    PROVE  SoloInv'
<1>r. /\ pc \in [Requests -> Positions] /\ status \in [Requests -> Statuses]
      /\ \A r \in Requests : Control(r) /\ Known(r)
      /\ \A r \in Requests : StepsOf(r)' = StepsOf(r)
      /\ Alone' /\ Created /\ Alone
  BY NextAlone DEF TypeInv, TypeOK, ControlOK, SoloInv, StepsOf
<1>1. ASSUME NEW r \in Requests, Start(r) PROVE SoloInv'
  <2>1. /\ UNCHANGED <<dns, caddyFile, caddyRunning, resource, target, mem>>
        /\ UNCHANGED <<status, done, todo, rollback, unclean>> /\ pc[r] = "ready" /\ pc'[r] = "load"
        /\ \A s \in Requests \ {r} : pc'[s] = pc[s]
    BY <1>1, <1>r DEF Start, Goto, providers, executor
  <2>2. \A s \in Requests : ~ InProgress(s)
    BY <1>1, <1>r, StartsAlone
  <2>3. \A s \in Requests : Reports(s)'
    BY <2>1, <1>r DEF Known, Reports, StepsOf
  <2>4. \A s \in Requests \ {r} : Known(s)' /\ ~ InProgress(s)'
    BY <2>1, <2>2, <2>3, <1>r DEF Known, InProgress
  <2>5. /\ status[r] = "running" /\ done[r] = 0
        /\ mem[r].dns = Nobody /\ mem[r].caddy = Nobody
        /\ mem[r].found = Nobody /\ mem[r].target = Nobody
    BY <2>1, <1>r DEF Control, Known, Reports, Statuses
  <2>6. DnsKnown(r)' /\ PangolinKnown(r)'
    BY <2>1, <2>5 DEF DnsKnown, InForce, PangolinKnown
  <2>7. Known(r)'
    BY <2>1, <2>3, <2>5, <2>6 DEF Known
  <2>8. Sound' => Sound
    BY <2>1, <2>2 DEF Sound
  <2>9. Sound' => CaddyKnown(r)'
    <3>1. Sound' /\ unclean["caddy"] = {} => caddyRunning = caddyFile
      BY <2>2, <2>8 DEF SoloInv, Quiet
    <3> QED
      BY <2>1, <2>5, <3>1 DEF CaddyKnown
  <2>a. ~ Quiet'
    BY <2>1 DEF Quiet, InProgress
  <2>b. Created'
    BY <2>1, <1>r DEF Created
  <2> QED
    BY <2>4, <2>7, <2>9, <2>a, <2>b, <1>r DEF SoloInv
<1>2. ASSUME NEW r \in Requests, Thread(r) PROVE SoloInv'
  <2>1. Known(r)' /\ Created' /\ (CaddyKnown(r) /\ Sound' => CaddyFine(r)')
    BY <1>2, <1>r, DnsSolo, CaddySolo, PangolinSolo, HandlerSolo DEF Thread
  <2>2. /\ InProgress(r)
        /\ \A s \in Requests \ {r} : Still(s) /\ ~ InProgress(s) /\ ~ InProgress(s)'
    BY <1>2, <1>r, OthersIdle, ThreadIsItsOwn
  <2>3. \A s \in Requests \ {r} : Known(s)'
    <3> SUFFICES ASSUME NEW s \in Requests \ {r} PROVE Known(s)'
      OBVIOUS
    <3>1. Known(s) /\ Still(s) /\ ~ InProgress(s)' /\ Len(StepsOf(s))' = Len(StepsOf(s))
      BY <2>2, <1>r
    <3>2. Reports(s)'
      BY <3>1 DEF Known, Reports, Still
    <3> QED
      BY <3>1, <3>2 DEF Known, Still
  <2>4. Sound' => CaddyFine(r)'
    BY <2>1, <2>2, <1>2, <1>r, ThreadSound DEF SoloInv
  <2>5. Sound' => /\ Quiet' /\ unclean'["caddy"] = {} => caddyRunning' = caddyFile'
                  /\ InProgress(r)' => CaddyKnown(r)'
    BY <2>4 DEF CaddyFine, Quiet
  <2> QED
    BY <2>1, <2>2, <2>3, <2>5, <1>r DEF SoloInv
<1>3. CASE Crash
  <2>1. /\ UNCHANGED <<resource, status, done, todo, rollback, unclean>>
        /\ caddyRunning' = caddyFile'
        /\ \A s \in Requests :
              /\ pc'[s] \in {"ready", "done", "dead"}
              /\ pc'[s] \in {pc[s], "dead"}
              /\ mem'[s] = NoLocals
    BY <1>3, <1>r DEF Crash, InProgress, executor
  <2>2. \A s \in Requests : ~ InProgress(s)'
    BY <2>1 DEF InProgress
  <2>3. \A s \in Requests : Known(s)'
    <3> SUFFICES ASSUME NEW s \in Requests PROVE Known(s)'
      OBVIOUS
    <3>1. Known(s) /\ ~ InProgress(s)' /\ Len(StepsOf(s))' = Len(StepsOf(s))
      BY <2>2, <1>r
    <3>2. Reports(s)'
      BY <2>1, <3>1 DEF Known, Reports
    <3>3. /\ mem'[s].dns = Nobody /\ mem'[s].caddy = Nobody
          /\ mem'[s].found = Nobody /\ mem'[s].target = Nobody
      BY <2>1 DEF NoLocals
    <3> QED
      BY <3>1, <3>2, <3>3 DEF Known
  <2>4. Created'
    BY <2>1, <1>r DEF Created
  <2> QED
    BY <2>1, <2>2, <2>3, <2>4, <1>r DEF SoloInv
<1>4. CASE UNCHANGED vars
  <2>1. /\ UNCHANGED <<dns, caddyFile, caddyRunning, resource, target, mem, pc>>
        /\ UNCHANGED <<status, done, todo, rollback, unclean>>
    BY <1>4 DEF vars, providers, executor
  <2> QED
    BY <2>1, <1>r
    DEF SoloInv, Created, Known, Reports, DnsKnown, InForce, Compensable, PangolinKnown,
        CaddyKnown, Sound, Quiet, InProgress, Host, Address
<1> QED
  BY <1>1, <1>2, <1>3, <1>4 DEF Next

(* When requests come one at a time and a call that raises did nothing, a
   reported rollback restored everything the request found, except what its
   failing step itself could not take back, on any hostnames, plans and history
   of other requests, faults and restarts. *)
THEOREM RollbackRestoration ==
    MaxInFlight = 1 /\ ~ HiddenFaults /\ SafeSpec => []RolledBackRestores
<1> SUFFICES ASSUME MaxInFlight = 1, ~ HiddenFaults PROVE SafeSpec => []RolledBackRestores
  OBVIOUS
<1>1. TypeInv /\ SoloInv => RolledBackRestores
  <2> SUFFICES ASSUME TypeInv, SoloInv, NEW r \in Requests, pc[r] = "audit",
                      status[r] = "rolled_back", NothingToRepair
               PROVE  /\ mem[r].dns # Nobody => dns[Host(r)] = mem[r].dns
                      /\ mem[r].caddy # Nobody =>
                            /\ r \notin unclean["caddy"] => caddyFile = mem[r].caddy
                            /\ unclean["caddy"] = {} => caddyRunning = mem[r].caddy
                      /\ r \notin unclean["pangolin"] =>
                            /\ resource[r] = Nobody
                            /\ mem[r].found # Nobody =>
                                  /\ resource[mem[r].found] = mem[r].content
                                  /\ mem[r].target # Nobody =>
                                        target[mem[r].found] = mem[r].target
    BY DEF RolledBackRestores
  <2>1. InProgress(r) /\ Known(r) /\ Alone /\ Created
    BY DEF InProgress, SoloInv
  <2>2. /\ done[r] < Len(StepsOf(r)) /\ todo[r] = 0
        /\ \A p \in Providers : rollback[r][p] # "rollback_failed"
    BY <2>1 DEF Known, Reports
  <2>3. Sound
    BY <2>1, <2>2 DEF Sound, NothingToRepair, Alone
  <2>4. CaddyKnown(r) /\ DnsKnown(r) /\ PangolinKnown(r)
    BY <2>1, <2>3 DEF SoloInv, Known
  <2>5. mem[r].dns # Nobody => dns[Host(r)] = mem[r].dns
    BY <2>2, <2>4 DEF DnsKnown, Providers
  <2>6. mem[r].caddy # Nobody =>
          /\ r \notin unclean["caddy"] => caddyFile = mem[r].caddy
          /\ unclean["caddy"] = {} => caddyRunning = mem[r].caddy
    BY <2>2, <2>4 DEF CaddyKnown
  <2>7. r \notin unclean["pangolin"] => resource[r] = Nobody
    <3>1. done[r] \in 0..3
      BY DEF TypeInv, TypeOK
    <3>2. Len(StepsOf(r)) \in 1..3
      BY StepsFacts
    <3> QED
      BY <2>1, <2>2, <3>1, <3>2 DEF Created
  <2>8. mem[r].found # Nobody /\ r \notin unclean["pangolin"] =>
          /\ resource[mem[r].found] = mem[r].content
          /\ mem[r].target # Nobody => target[mem[r].found] = mem[r].target
    BY <2>2, <2>4 DEF PangolinKnown
  <2> QED
    BY <2>5, <2>6, <2>7, <2>8
<1>2. TypeInv /\ SoloInv /\ [Next]_vars => SoloInv'
  BY NextSoloInv
<1> QED
  BY InitTypeInv, NextTypeInv, InitSoloInv, <1>1, <1>2, PTL DEF SafeSpec
-----------------------------------------------------------------------------
OnLan(r) == Route[r].mode \in LanModes
OnEdge(r) == Route[r].mode \in RemoteModes

(* Pangolin publishes the route of r, which may not be saved yet. *)
Published(r) == OnEdge(r) /\ done[r] = Len(StepsOf(r))

(* A resource of Pangolin has the settings of q, and its target leads to q. *)
Reachable(q) == \E c \in Requests : resource[c] = q /\ target[c] = q

(* The running Caddy is the one r found, until its Caddy step is applied and
   after the step was undone. *)
CaddyKept(r) ==
    \/ status[r] = "running" /\ done[r] < 2
    \/ /\ status[r] \in {"compensating", "rolled_back"} /\ todo[r] < 2
       /\ rollback[r]["caddy"] # "rollback_failed"

(* What the steps of r applied so far left in the providers, and what its
   locals say of what they found. *)
DnsWorks(r) ==
    /\ mem[r].dns # Nobody => mem[r].dns \subseteq {Address(r)}
    /\ status[r] = "applied" /\ OnLan(r) => dns[Host(r)] = {Address(r)}

CaddyCalls == {"caddy_install", "caddy_reload", "caddy_restore"}

CaddyWorks(r) ==
    /\ status[r] = "running" /\ done[r] < 2 /\ pc[r] \notin CaddyCalls =>
          mem[r].caddy = Nobody
    /\ pc[r] = "caddy_reload" \/ (status[r] \in {"running", "applied"} /\ done[r] >= 2) =>
          caddyFile = ProxyConfig(Desired(r))
    /\ status[r] \in {"running", "applied"} /\ done[r] >= 2 =>
          caddyRunning = ProxyConfig(Desired(r))
    /\ pc[r] = "caddy_undo_reload" => caddyFile = mem[r].caddy

PangolinCalls == {"pangolin_publish", "pangolin_restore"}

PangolinWorks(r) ==
    /\ status[r] = "running" /\ done[r] < Len(StepsOf(r)) /\ pc[r] \notin PangolinCalls =>
          mem[r].found = Nobody
    /\ pc[r] = "pangolin_publish" =>
          Matching(Host(r)) = IF mem[r].found = Nobody THEN {} ELSE {mem[r].found}
    /\ pc[r] = "pangolin_restore" =>
          /\ Matching(Host(r)) = {PublishedAs(r)}
          /\ mem[r].found # Nobody => mem[r].content # Nobody /\ Host(mem[r].content) = Host(r)
    /\ Published(r) => Reachable(r)

Works(r) ==
    /\ DnsWorks(r) /\ CaddyWorks(r) /\ PangolinWorks(r)
    /\ status[r] = "applied" => done[r] = Len(StepsOf(r))
    /\ ~ ProviderMutations[r] => done[r] = 0

(* A hostname has one resource at most, and it publishes that hostname. *)
Placed ==
    /\ \A c, d \in Requests :
          resource[c] # Nobody /\ resource[d] # Nobody /\ Host(c) = Host(d) => c = d
    /\ \A c \in Requests : resource[c] # Nobody => Host(resource[c]) = Host(c)

Saved(q) == routes[Host(q)] = q /\ ProviderMutations[q] /\ Undisturbed(Host(q))

(* The route of q is in effect. *)
InEffect(q) ==
    /\ OnLan(q) => dns[Host(q)] = {Address(q)}
    /\ OnLan(q) /\ Route[q].enabled => q \in caddyFile \cap caddyRunning
    /\ OnEdge(q) => Reachable(q)

(* It still is while r is in progress, but for what r changes when it edits
   the same hostname; and r could put it back. *)
DnsSpares(r, q) ==
    OnLan(q) =>
        /\ Host(r) # Host(q) \/ rollback[r]["dns"] # "rollback_failed" =>
              dns[Host(q)] = {Address(q)}
        /\ Host(r) = Host(q) /\ mem[r].dns # Nobody => mem[r].dns = {Address(q)}

CaddySpares(r, q) ==
    OnLan(q) /\ Route[q].enabled =>
        /\ Host(r) # Host(q) \/ mem[r].caddy = Nobody => q \in caddyFile
        /\ Host(r) # Host(q) \/ CaddyKept(r) => q \in caddyRunning
        /\ mem[r].caddy # Nobody => q \in mem[r].caddy

PangolinSpares(r, q) ==
    OnEdge(q) =>
        /\ Host(r) # Host(q) \/ (~ Published(r) /\ pc[r] # "pangolin_restore") =>
              Reachable(q)
        /\ Host(r) = Host(q) /\ pc[r] = "pangolin_restore" =>
              /\ mem[r].found # Nobody /\ mem[r].content = q
              /\ target[mem[r].found] = q /\ mem[r].target \in {q, Nobody}

Spares(r, q) == DnsSpares(r, q) /\ CaddySpares(r, q) /\ PangolinSpares(r, q)

(* What a step of r keeps: all that is known of r, and of the saved routes
   beside it. *)
SparesAll(r) == \A q \in Requests : Saved(q) => Spares(r, q)
AllInEffect == \A q \in Requests : Saved(q) => InEffect(q)

(* SavedRouteIsLive is inductive only together with what every request in
   progress has done to the saved routes and could put back. *)
LiveInv ==
    /\ Placed
    /\ \A r \in Requests : pc[r] # "done" => reply[r] = "none"
    /\ \A r \in Requests : InProgress(r) => Works(r)
    /\ NothingToRepair =>
          /\ \A r \in Requests : InProgress(r) => SparesAll(r)
          /\ Quiet => AllInEffect

LEMMA InitLiveInv == Init => LiveInv
<1> SUFFICES ASSUME Init PROVE LiveInv
  OBVIOUS
<1>1. \A r \in Requests : ~ InProgress(r) /\ Host(r) \in Hosts
  BY RouteAssumption DEF Init, InProgress, Host
<1>2. \A q \in Requests : ~ Saved(q)
  BY <1>1, NobodyAssumption DEF Init, Saved, NoRoutes
<1> QED
  BY <1>1, <1>2 DEF Init, LiveInv, Placed, AllInEffect

(* The constant operators stay what they are. *)
LEMMA PlansStay ==
    ASSUME NEW q \in Requests
    PROVE  /\ OnLan(q)' = OnLan(q) /\ OnEdge(q)' = OnEdge(q)
           /\ StepsOf(q)' = StepsOf(q) /\ Host(q)' = Host(q) /\ Address(q)' = Address(q)
  BY DEF OnLan, OnEdge, StepsOf, Host, Address

LEMMA ModeFacts ==
    ASSUME NEW q \in Requests
    PROVE  /\ OnLan(q) <=> Compensable(q)
           /\ Len(StepsOf(q)) \in 1..3
           /\ Len(StepsOf(q)) = 3 => OnEdge(q)
           /\ Len(StepsOf(q)) = 1 => OnEdge(q)
           /\ Len(StepsOf(q)) = 2 => ~ OnEdge(q)
<1>1. Route[q].mode \in Modes
  BY RouteAssumption
<1>2. CASE Route[q].mode = "lan"
  BY <1>2 DEF StepsOf, OnLan, OnEdge, Compensable, LanModes, RemoteModes
<1>3. CASE Route[q].mode = "remote"
  BY <1>3 DEF StepsOf, OnLan, OnEdge, Compensable, LanModes, RemoteModes
<1>4. CASE Route[q].mode = "lan_remote"
  BY <1>4 DEF StepsOf, OnLan, OnEdge, Compensable, LanModes, RemoteModes
<1> QED
  BY <1>1, <1>2, <1>3, <1>4 DEF Modes

(* Until its last step is applied, r has published nothing. *)
LEMMA NotPublishedYet ==
    ASSUME NEW r \in Requests, done[r] # Len(StepsOf(r)) PROVE ~ Published(r)
  BY DEF Published

(* A step that leaves the answers of DNS alone, or Caddy's file, or the
   resources, keeps what is known of them. *)
LEMMA DnsStays ==
    ASSUME NEW r \in Requests, DnsWorks(r), UNCHANGED dns, mem'[r].dns = mem[r].dns,
           status'[r] = "applied" => status[r] = "applied",
           rollback'[r]["dns"] = rollback[r]["dns"]
    PROVE  DnsWorks(r)' /\ \A q \in Requests : DnsSpares(r, q) => DnsSpares(r, q)'
<1>1. DnsWorks(r)'
  BY DEF DnsWorks, OnLan, Host, Address
<1>2. \A q \in Requests : DnsSpares(r, q) => DnsSpares(r, q)'
  BY DEF DnsSpares, OnLan, Host, Address
<1> QED
  BY <1>1, <1>2

LEMMA CaddyStays ==
    ASSUME NEW r \in Requests, CaddyWorks(r), UNCHANGED <<caddyFile, caddyRunning>>,
           mem'[r].caddy = mem[r].caddy, mem'[r].routes = mem[r].routes,
           CaddyKept(r)' => CaddyKept(r),
           status'[r] = "running" /\ done'[r] < 2 =>
              status[r] = "running" /\ done[r] < 2 /\ pc[r] \notin CaddyCalls,
           status'[r] \in {"running", "applied"} /\ done'[r] >= 2 =>
              status[r] \in {"running", "applied"} /\ done[r] >= 2,
           pc'[r] \notin {"caddy_reload", "caddy_undo_reload"}
    PROVE  CaddyWorks(r)' /\ \A q \in Requests : CaddySpares(r, q) => CaddySpares(r, q)'
<1>1. CaddyWorks(r)'
  BY DEF CaddyWorks, ProxyConfig, Desired, Host
<1>2. \A q \in Requests : CaddySpares(r, q) => CaddySpares(r, q)'
  BY DEF CaddySpares, OnLan, Host
<1> QED
  BY <1>1, <1>2

LEMMA PangolinStays ==
    ASSUME NEW r \in Requests, PangolinWorks(r), UNCHANGED <<resource, target>>,
           mem'[r].found = mem[r].found,
           OnEdge(r) => (done'[r] = Len(StepsOf(r)) <=> done[r] = Len(StepsOf(r))),
           status'[r] = "running" /\ done'[r] < Len(StepsOf(r)) =>
              status[r] = "running" /\ done[r] < Len(StepsOf(r)) /\ pc[r] \notin PangolinCalls,
           pc[r] # "pangolin_restore", pc'[r] \notin PangolinCalls
    PROVE  PangolinWorks(r)' /\ \A q \in Requests : PangolinSpares(r, q) => PangolinSpares(r, q)'
<1>1. Published(r)' <=> Published(r)
  BY DEF Published, OnEdge, StepsOf
<1>c. pc'[r] \notin {"pangolin_publish", "pangolin_restore"}
  BY DEF PangolinCalls
<1>d. \A q \in Requests : Reachable(q)' <=> Reachable(q)
  BY DEF Reachable
<1>2. PangolinWorks(r)'
  BY <1>1, <1>c, <1>d, PlansStay DEF PangolinWorks
<1>3. \A q \in Requests : PangolinSpares(r, q) => PangolinSpares(r, q)'
  BY <1>1, <1>c, <1>d, PlansStay DEF PangolinSpares
<1> QED
  BY <1>2, <1>3

(* What a step of the DNS manager leaves alone, and what it makes of the
   executor: it is the first step of a plan of several. *)
LEMMA DnsMoves ==
    ASSUME TypeInv, NEW r \in Requests, Known(r), DnsStep(r)
    PROVE  /\ UNCHANGED <<resource, target, caddyFile, caddyRunning, reply>>
           /\ mem'[r].caddy = mem[r].caddy /\ mem'[r].found = mem[r].found
           /\ mem'[r].routes = mem[r].routes
           /\ {pc[r], pc'[r]} \subseteq {"run", "dns_add", "dns_undo"}
           /\ Compensable(r)
           /\ \/ /\ status[r] = "running" /\ done[r] = 0 /\ pc[r] \in {"run", "dns_add"}
                 /\ rollback'[r] = rollback[r]
                 /\ \/ status'[r] = "running" /\ done'[r] \in {0, 1}
                    \/ status'[r] = "compensating" /\ done'[r] = 0
              \/ /\ status[r] = "compensating" /\ status'[r] = "compensating" /\ done'[r] = done[r]
                 /\ todo[r] = 1 /\ rollback'[r]["caddy"] = rollback[r]["caddy"]
<1>r. /\ TypeOK /\ Control(r) /\ mem \in [Requests -> Locals]
      /\ "dns" \in Providers /\ "caddy" \in Providers \ {"dns"} /\ pc \in [Requests -> Positions]
  BY DEF TypeInv, TypeOK, ControlOK, Providers
<1>p. {"dns_add", "dns_undo"} \subseteq Positions
  BY DEF Positions
<1>c. UNCHANGED <<resource, target, caddyFile, caddyRunning, reply>> /\ mem'[r].routes = mem[r].routes
  BY StepKeepsLists
  DEF KeepsLists, DnsStep, DnsConflict, DnsAlreadyAnswers, DnsSnapshot, DnsAdd, DnsFails,
      DnsUndoList, DnsUndo, DnsUndoFails, providers
<1>m. mem'[r].caddy = mem[r].caddy /\ mem'[r].found = mem[r].found
  BY <1>r, OtherLocals
  DEF DnsStep, DnsConflict, DnsAlreadyAnswers, DnsSnapshot, DnsAdd, DnsFails,
      DnsUndoList, DnsUndo, DnsUndoFails
<1>a. ASSUME Applying(r, "dns") \/ pc[r] = "dns_add"
      PROVE  status[r] = "running" /\ done[r] = 0 /\ pc[r] \in {"run", "dns_add"} /\ Compensable(r)
  BY <1>a, <1>r, ApplyingFacts DEF Control, Compensable
<1>u. ASSUME Undoing(r, "dns") \/ pc[r] = "dns_undo"
      PROVE  /\ status[r] = "compensating" /\ todo[r] = 1 /\ Compensable(r)
             /\ pc[r] \in {"run", "dns_undo"}
  <2>1. /\ status[r] = "compensating" /\ todo[r] = 1 /\ mem[r].dns # Nobody
        /\ pc[r] \in {"run", "dns_undo"}
    BY <1>u, <1>r, UndoingFacts DEF Control
  <2>2. DnsKnown(r)
    BY ThreadIsItsOwn DEF Thread, Known
  <2> QED
    BY <2>1, <2>2 DEF DnsKnown
<1>1. CASE DnsConflict(r) \/ DnsFails(r)
  <2>1. StepFailed(r) /\ (Applying(r, "dns") \/ pc[r] = "dns_add")
    BY <1>1 DEF DnsConflict, DnsFails
  <2>2. status'[r] = "compensating" /\ pc'[r] = "run" /\ UNCHANGED <<done, rollback>>
    BY <2>1, <1>r, StepFailedFacts
  <2> QED
    BY <2>1, <2>2, <1>a, <1>c, <1>m
<1>2. CASE DnsAlreadyAnswers(r) \/ DnsAdd(r)
  <2>1. StepApplied(r) /\ (Applying(r, "dns") \/ pc[r] = "dns_add")
    BY <1>2 DEF DnsAlreadyAnswers, DnsAdd
  <2>2. done'[r] = 1 /\ pc'[r] = "run" /\ UNCHANGED <<status, rollback>>
    BY <2>1, <1>r, <1>a, StepAppliedFacts
  <2> QED
    BY <2>1, <2>2, <1>a, <1>c, <1>m
<1>3. CASE DnsSnapshot(r)
  <2>1. pc'[r] = "dns_add" /\ Applying(r, "dns") /\ UNCHANGED executor
    BY <1>3, <1>r, <1>p, GotoFacts DEF DnsSnapshot
  <2> QED
    BY <2>1, <1>a, <1>c, <1>m DEF executor
<1>4. CASE DnsUndoList(r)
  <2>1. pc'[r] = "dns_undo" /\ Undoing(r, "dns") /\ UNCHANGED executor
    BY <1>4, <1>r, <1>p, GotoFacts DEF DnsUndoList
  <2> QED
    BY <2>1, <1>u, <1>c, <1>m DEF executor
<1>5. CASE DnsUndo(r) \/ DnsUndoFails(r)
  <2>1. /\ \E result \in {"rolled_back", "rollback_failed"} : StepUndone(r, "dns", result)
        /\ Undoing(r, "dns") \/ pc[r] = "dns_undo"
    BY <1>5 DEF DnsUndo, DnsUndoFails
  <2>2. /\ pc'[r] = "run" /\ UNCHANGED <<status, done>>
        /\ rollback'[r]["caddy"] = rollback[r]["caddy"]
    BY <2>1, <1>r, <1>u, StepUndoneFacts, UndoneReport
  <2> QED
    BY <2>1, <2>2, <1>u, <1>c, <1>m
<1> QED
  BY <1>1, <1>2, <1>3, <1>4, <1>5 DEF DnsStep

(* Only the hostname of r changes its answers. *)
LEMMA DnsElsewhere ==
    ASSUME NEW r \in Requests, NEW q \in Requests, dns'[Host(q)] = dns[Host(q)],
           Host(q) # Host(r), DnsSpares(r, q)
    PROVE  DnsSpares(r, q)'
  BY PlansStay DEF DnsSpares

LEMMA DnsStepWorks ==
    ASSUME TypeInv, ~ HiddenFaults, NEW r \in Requests, Known(r), DnsWorks(r), DnsStep(r)
    PROVE  DnsWorks(r)' /\ \A q \in Requests : DnsSpares(r, q) => DnsSpares(r, q)'
<1>r. /\ TypeOK /\ Control(r) /\ mem \in [Requests -> Locals]
      /\ "dns" \in Providers /\ pc \in [Requests -> Positions]
      /\ dns \in [Hosts -> SUBSET Addresses]
      /\ \A q \in Requests : Host(q) \in Hosts
  BY RouteAssumption DEF TypeInv, TypeOK, ControlOK, Providers, Host
<1>i. DnsKnown(r) /\ Reports(r) /\ status'[r] # "applied"
  BY ThreadIsItsOwn, DnsMoves DEF Thread, Known
<1>s. Host(r)' = Host(r) /\ Address(r)' = Address(r) /\ OnLan(r)' = OnLan(r)
  BY PlansStay
<1>p. {"dns_add", "dns_undo"} \subseteq Positions
  BY DEF Positions
<1>1. CASE DnsConflict(r) \/ DnsFails(r)
  <2>1. StepFailed(r) /\ UNCHANGED <<mem, dns>>
    BY <1>1 DEF DnsConflict, DnsFails, providers
  <2>2. UNCHANGED rollback
    BY <2>1 DEF StepFailed, StepFailedUnclean, Compensate
  <2> QED
    BY <2>1, <2>2, <1>i, DnsStays
<1>2. CASE DnsAlreadyAnswers(r) \/ DnsSnapshot(r)
  <2>1. /\ Applying(r, "dns") /\ UNCHANGED <<dns, rollback>>
        /\ mem'[r].dns = dns[Host(r)] /\ dns[Host(r)] \subseteq {Address(r)}
    BY <1>2, <1>r, OtherLocals
    DEF DnsAlreadyAnswers, DnsSnapshot, StepApplied, providers, executor
  <2>2. rollback[r]["dns"] # "rollback_failed"
    BY <2>1, <1>i, <1>r DEF Applying, Reports
  <2>3. DnsWorks(r)'
    BY <2>1, <1>i, <1>s DEF DnsWorks
  <2>4. ASSUME NEW q \in Requests, DnsSpares(r, q) PROVE DnsSpares(r, q)'
    BY <2>1, <2>2, <2>4, PlansStay DEF DnsSpares
  <2> QED
    BY <2>3, <2>4
<1>4. CASE DnsAdd(r)
  <2>1. /\ pc[r] = "dns_add" /\ status[r] = "running" /\ UNCHANGED <<mem, rollback>>
        /\ dns' = [dns EXCEPT ![Host(r)] = dns[Host(r)] \cup {Address(r)}]
        /\ dns[Host(r)] = mem[r].dns /\ mem[r].dns # Nobody
    BY <1>4, <1>r, <1>i DEF DnsAdd, Control, DnsKnown, StepApplied
  <2>2. rollback[r]["dns"] # "rollback_failed"
    BY <2>1, <1>i, <1>r DEF Reports
  <2>3. dns'[Host(r)] = {Address(r)}
    BY <2>1, <1>r DEF DnsWorks
  <2>4. ASSUME NEW q \in Requests, DnsSpares(r, q) PROVE DnsSpares(r, q)'
    <3>1. CASE Host(q) = Host(r)
      <4>1. OnLan(q) => dns[Host(q)] = {Address(q)} /\ mem[r].dns = {Address(q)}
        BY <2>1, <2>2, <2>4, <3>1 DEF DnsSpares
      <4>2. OnLan(q) => dns'[Host(q)] = {Address(q)}
        BY <2>1, <2>3, <4>1, <3>1 DEF DnsWorks
      <4> QED
        BY <2>1, <4>1, <4>2, PlansStay DEF DnsSpares
    <3>2. CASE Host(q) # Host(r)
      BY <2>1, <2>4, <3>2, <1>r, DnsElsewhere
    <3> QED
      BY <3>1, <3>2
  <2>5. DnsWorks(r)'
    BY <2>1, <1>i, <1>s DEF DnsWorks
  <2> QED
    BY <2>4, <2>5
<1>6. CASE DnsUndoList(r)
  <2>1. mem'[r].dns = mem[r].dns /\ UNCHANGED <<dns, rollback>>
    BY <1>6, <1>r, OtherLocals DEF DnsUndoList, providers, executor
  <2> QED
    BY <2>1, <1>i, DnsStays
<1>7. CASE DnsUndo(r)
  <2>1. /\ pc[r] = "dns_undo" /\ mem[r].seen = dns[Host(r)] /\ UNCHANGED mem
        /\ dns' = [dns EXCEPT ![Host(r)] = Restored(r)] /\ mem[r].dns # Nobody
    BY <1>7, <1>r, <1>i DEF DnsUndo, DnsKnown, Control
  <2>2. dns'[Host(r)] = mem[r].dns
    <3>1. mem[r].dns \in SUBSET Addresses
      BY <1>r, <2>1 DEF Locals
    <3>2. dns'[Host(r)] = Restored(r)
      BY <2>1, <1>r
    <3> QED
      BY <2>1, <3>1, <3>2 DEF Restored, Stale, Lost
  <2>3. ASSUME NEW q \in Requests, DnsSpares(r, q) PROVE DnsSpares(r, q)'
    <3>1. CASE Host(q) = Host(r)
      BY <2>1, <2>2, <2>3, <3>1, PlansStay DEF DnsSpares
    <3>2. CASE Host(q) # Host(r)
      BY <2>1, <2>3, <3>2, <1>r, DnsElsewhere
    <3> QED
      BY <3>1, <3>2
  <2>4. DnsWorks(r)'
    BY <2>1, <1>i, <1>s DEF DnsWorks
  <2> QED
    BY <2>3, <2>4
<1>8. CASE DnsUndoFails(r)
  <2>1. /\ UNCHANGED mem /\ \A h \in Hosts \ {Host(r)} : dns'[h] = dns[h]
        /\ rollback'[r]["dns"] = "rollback_failed"
    BY <1>8, <1>r, UndoneReport DEF DnsUndoFails
  <2>2. ASSUME NEW q \in Requests, DnsSpares(r, q) PROVE DnsSpares(r, q)'
    <3>1. Host(q) # Host(r) => dns'[Host(q)] = dns[Host(q)]
      BY <2>1, <1>r
    <3> QED
      BY <2>1, <2>2, <3>1, PlansStay DEF DnsSpares
  <2>3. DnsWorks(r)'
    BY <2>1, <1>i, <1>s DEF DnsWorks
  <2> QED
    BY <2>2, <2>3
<1> QED
  BY <1>1, <1>2, <1>4, <1>6, <1>7, <1>8 DEF DnsStep

(* What is known of r and of the saved routes beside it after one more step. *)
LEMMA DnsLive ==
    ASSUME TypeInv, ~ HiddenFaults, NEW r \in Requests, Known(r), Works(r), DnsStep(r)
    PROVE  /\ Works(r)' /\ UNCHANGED resource
           /\ \A q \in Requests : Spares(r, q) => Spares(r, q)'
<1>k. CaddyKept(r)' => CaddyKept(r)
  BY DnsMoves DEF CaddyKept
<1>r. /\ done[r] \in 0..3 /\ Len(StepsOf(r)) \in 1..3 /\ Control(r)
      /\ Len(StepsOf(r))' = Len(StepsOf(r))
  BY StepsFacts DEF TypeInv, TypeOK, ControlOK, StepsOf
<1>m. /\ UNCHANGED <<resource, target, caddyFile, caddyRunning, reply>>
      /\ mem'[r].caddy = mem[r].caddy /\ mem'[r].found = mem[r].found
      /\ mem'[r].routes = mem[r].routes
      /\ {pc[r], pc'[r]} \subseteq {"run", "dns_add", "dns_undo"}
      /\ Len(StepsOf(r)) > 1
      /\ \/ /\ status[r] = "running" /\ done[r] = 0 /\ pc[r] \in {"run", "dns_add"}
            /\ \/ status'[r] = "running" /\ done'[r] \in {0, 1}
               \/ status'[r] = "compensating" /\ done'[r] = 0
         \/ status[r] = "compensating" /\ status'[r] = "compensating" /\ done'[r] = done[r]
  BY DnsMoves DEF Compensable
<1>1. DnsWorks(r)' /\ \A q \in Requests : DnsSpares(r, q) => DnsSpares(r, q)'
  BY DnsStepWorks DEF Works
<1>2. CaddyWorks(r)' /\ \A q \in Requests : CaddySpares(r, q) => CaddySpares(r, q)'
  <2>1. /\ status'[r] = "running" /\ done'[r] < 2 =>
              status[r] = "running" /\ done[r] < 2 /\ pc[r] \notin CaddyCalls
        /\ ~ (status'[r] \in {"running", "applied"} /\ done'[r] >= 2)
        /\ pc'[r] \notin {"caddy_reload", "caddy_undo_reload"}
    BY <1>m DEF CaddyCalls
  <2>2. CaddyWorks(r)
    BY DEF Works
  <2> QED
    BY <2>1, <2>2, <1>m, <1>k, CaddyStays
<1>3. PangolinWorks(r)' /\ \A q \in Requests : PangolinSpares(r, q) => PangolinSpares(r, q)'
  <2>0. pc[r] \notin PangolinCalls /\ pc'[r] \notin PangolinCalls /\ pc[r] # "pangolin_restore"
    BY <1>m DEF PangolinCalls
  <2>1. /\ done'[r] = Len(StepsOf(r)) <=> done[r] = Len(StepsOf(r))
        /\ status'[r] = "running" /\ done'[r] < Len(StepsOf(r)) =>
              status[r] = "running" /\ done[r] < Len(StepsOf(r)) /\ pc[r] \notin PangolinCalls
    <3> DEFINE n == Len(StepsOf(r))
    <3>1. n \in 1..3 /\ n > 1 /\ done[r] \in 0..3
      BY <1>r, <1>m
    <3> HIDE DEF n
    <3>2. /\ done'[r] = n <=> done[r] = n
          /\ status'[r] = "running" /\ done'[r] < n => status[r] = "running" /\ done[r] < n
      BY <3>1, <1>m
    <3> QED
      BY <3>2, <2>0 DEF n
  <2>2. PangolinWorks(r)
    BY DEF Works
  <2> QED
    BY <2>0, <2>1, <2>2, <1>m, PangolinStays
<1>4. Works(r)'
  <2>1. status'[r] # "applied" /\ ProviderMutations[r]
    <3>1. pc[r] \notin {"ready", "load", "audit", "save", "done", "dead"}
      BY DEF DnsStep, DnsConflict, DnsAlreadyAnswers, DnsSnapshot, DnsAdd, DnsFails,
             DnsUndoList, DnsUndo, DnsUndoFails, Applying, Undoing
    <3> QED
      BY <3>1, <1>m, <1>r DEF Control
  <2> QED
    BY <2>1, <1>1, <1>2, <1>3 DEF Works
<1> QED
  BY <1>1, <1>2, <1>3, <1>4, <1>m DEF Spares

(* The same of a step of the Caddy manager, the second step of its plan. *)
LEMMA CaddyMoves ==
    ASSUME TypeInv, NEW r \in Requests, CaddyStep(r)
    PROVE  /\ UNCHANGED <<resource, target, dns, reply, routes>>
           /\ mem'[r].dns = mem[r].dns /\ mem'[r].found = mem[r].found
           /\ mem'[r].routes = mem[r].routes
           /\ rollback'[r]["dns"] = rollback[r]["dns"]
           /\ pc'[r] \in CaddyCalls \cup {"run", "caddy_undo_reload"}
           /\ Holds(r) /\ pc[r] \notin {"audit", "save", "pangolin_publish", "pangolin_restore"}
           /\ Len(StepsOf(r)) > 1 /\ done[r] <= Len(StepsOf(r))
           /\ \/ /\ status[r] = "running" /\ done[r] = 1
                 /\ \/ status'[r] = "running" /\ done'[r] \in {1, 2}
                    \/ status'[r] = "compensating" /\ done'[r] = 1
              \/ /\ status[r] = "compensating" /\ status'[r] = "compensating"
                 /\ done'[r] = done[r] /\ todo[r] = 2
<1>r. /\ TypeOK /\ Control(r) /\ mem \in [Requests -> Locals]
      /\ "caddy" \in Providers /\ "dns" \in Providers /\ pc \in [Requests -> Positions]
      /\ CaddyCalls \cup {"run", "caddy_undo_reload"} \subseteq Positions
      /\ done[r] \in 0..3 /\ todo[r] \in 0..3 /\ Len(StepsOf(r)) \in 1..3
      /\ done[r] <= Len(StepsOf(r)) /\ todo[r] <= done[r]
  BY StepsFacts DEF TypeInv, TypeOK, ControlOK, Control, Providers, Positions, CaddyCalls
<1>h. Holds(r) /\ pc[r] \notin {"audit", "save", "pangolin_publish", "pangolin_restore"}
  BY DEF Holds, CaddyStep, CaddyRead, CaddyInstall, CaddyReload, CaddyFails, CaddyRestore,
         CaddyRestoreFails, CaddyUndo, CaddyUndoReload, CaddyUndoFails, Applying, Undoing
<1>c. UNCHANGED <<resource, target, dns, reply, routes>> /\ mem'[r].routes = mem[r].routes
  BY StepKeepsLists
  DEF KeepsLists, CaddyStep, CaddyRead, CaddyInstall, CaddyReload, CaddyFails, CaddyRestore,
      CaddyRestoreFails, CaddyUndo, CaddyUndoReload, CaddyUndoFails, providers
<1>m. mem'[r].dns = mem[r].dns /\ mem'[r].found = mem[r].found
  BY <1>r, OtherLocals
  DEF CaddyStep, CaddyRead, CaddyInstall, CaddyReload, CaddyFails, CaddyRestore,
      CaddyRestoreFails, CaddyUndo, CaddyUndoReload, CaddyUndoFails
<1>a. ASSUME Applying(r, "caddy") \/ pc[r] \in CaddyCalls
      PROVE  status[r] = "running" /\ done[r] = 1 /\ Len(StepsOf(r)) > 1
  BY <1>a, <1>r, ApplyingFacts DEF Control, CaddyCalls
<1>u. ASSUME Undoing(r, "caddy") \/ pc[r] = "caddy_undo_reload"
      PROVE  status[r] = "compensating" /\ todo[r] = 2 /\ Len(StepsOf(r)) > 1
  <2>1. status[r] = "compensating" /\ todo[r] = 2
    BY <1>u, <1>r, UndoingFacts DEF Control
  <2> DEFINE n == Len(StepsOf(r))
  <2>2. n \in 1..3 /\ done[r] \in 0..3 /\ done[r] <= n /\ 2 <= done[r]
    BY <1>r, <2>1
  <2> HIDE DEF n
  <2>3. n > 1
    BY <2>2
  <2> QED
    BY <2>1, <2>3 DEF n
<1>1. CASE CaddyRead(r) \/ CaddyInstall(r) \/ CaddyFails(r)
  <2>1. /\ pc'[r] \in CaddyCalls /\ UNCHANGED executor
        /\ Applying(r, "caddy") \/ pc[r] \in CaddyCalls
    BY <1>1, <1>r, GotoFacts DEF CaddyRead, CaddyInstall, CaddyFails, CaddyCalls
  <2> QED
    BY <2>1, <1>a, <1>c, <1>m, <1>h, <1>r DEF executor
<1>2. CASE CaddyReload(r)
  <2>1. StepApplied(r) /\ pc[r] \in CaddyCalls
    BY <1>2 DEF CaddyReload, CaddyCalls
  <2>2. done'[r] = 2 /\ pc'[r] = "run" /\ UNCHANGED <<status, rollback>>
    BY <2>1, <1>r, <1>a, StepAppliedFacts
  <2> QED
    BY <2>1, <2>2, <1>a, <1>c, <1>m, <1>h, <1>r
<1>3. CASE CaddyRestore(r) \/ CaddyRestoreFails(r)
  <2>1. (StepFailed(r) \/ StepFailedUnclean(r, "caddy")) /\ pc[r] \in CaddyCalls
    BY <1>3 DEF CaddyRestore, CaddyRestoreFails, CaddyCalls
  <2>2. status'[r] = "compensating" /\ pc'[r] = "run" /\ UNCHANGED <<done, rollback>>
    BY <2>1, <1>r, StepFailedFacts, StepFailedUncleanFacts
  <2> QED
    BY <2>1, <2>2, <1>a, <1>c, <1>m, <1>h, <1>r
<1>4. CASE CaddyUndo(r)
  <2>1. /\ pc'[r] = "caddy_undo_reload" /\ UNCHANGED executor /\ Undoing(r, "caddy")
    BY <1>4, <1>r, GotoFacts DEF CaddyUndo
  <2> QED
    BY <2>1, <1>u, <1>c, <1>m, <1>h, <1>r DEF executor
<1>5. CASE CaddyUndoReload(r) \/ CaddyUndoFails(r)
  <2>1. /\ \E result \in {"rolled_back", "rollback_failed"} : StepUndone(r, "caddy", result)
        /\ Undoing(r, "caddy") \/ pc[r] = "caddy_undo_reload"
    BY <1>5 DEF CaddyUndoReload, CaddyUndoFails
  <2>2. pc'[r] = "run" /\ UNCHANGED <<status, done>> /\ rollback'[r]["dns"] = rollback[r]["dns"]
    BY <2>1, <1>r, <1>u, StepUndoneFacts, UndoneReport
  <2> QED
    BY <2>1, <2>2, <1>u, <1>c, <1>m, <1>h, <1>r
<1> QED
  BY <1>1, <1>2, <1>3, <1>4, <1>5 DEF CaddyStep

LEMMA CaddyStepWorks ==
    ASSUME TypeInv, ~ HiddenFaults, NEW r \in Requests, Current(r), CaddyWorks(r), CaddyStep(r)
    PROVE  /\ CaddyWorks(r)'
           /\ \A q \in Requests : Saved(q) /\ CaddySpares(r, q) => CaddySpares(r, q)'
<1>r. /\ TypeOK /\ Control(r) /\ mem \in [Requests -> Locals]
      /\ "caddy" \in Providers /\ caddyFile # Nobody
      /\ \A q \in Requests : Host(q) \in Hosts
      /\ mem[r].routes \in [Hosts -> Requests \cup {Nobody}]
  BY RouteAssumption DEF TypeInv, TypeOK, ControlOK, Providers, Host, Locals
<1>m. /\ mem'[r].routes = mem[r].routes
      /\ \/ /\ status[r] = "running" /\ done[r] = 1
            /\ \/ status'[r] = "running" /\ done'[r] \in {1, 2}
               \/ status'[r] = "compensating" /\ done'[r] = 1
         \/ status[r] = "compensating" /\ status'[r] = "compensating" /\ todo[r] = 2
  BY CaddyMoves
<1>t. mem[r].routes = routes
  BY CaddyMoves DEF Current
<1>d. ProxyConfig(Desired(r))' = ProxyConfig(Desired(r))
  BY <1>m DEF ProxyConfig, Desired, Host
<1>w. \A q \in Requests :
         /\ Saved(q) /\ OnLan(q) /\ Route[q].enabled /\ Host(q) # Host(r) =>
               q \in ProxyConfig(Desired(r))
  BY <1>t, <1>r DEF Saved, OnLan, ProxyConfig, Desired
<1>k. UNCHANGED executor => (CaddyKept(r)' <=> CaddyKept(r))
  BY DEF executor, CaddyKept
<1>f. ASSUME UNCHANGED <<caddyFile, caddyRunning>>, mem'[r].caddy = mem[r].caddy,
             CaddyKept(r)' => CaddyKept(r)
      PROVE  \A q \in Requests : CaddySpares(r, q) => CaddySpares(r, q)'
  BY <1>f, PlansStay DEF CaddySpares
<1>b. ASSUME caddyFile' = mem[r].caddy, mem'[r].caddy = mem[r].caddy, mem[r].caddy # Nobody,
             UNCHANGED caddyRunning, CaddyKept(r)' => CaddyKept(r)
      PROVE  \A q \in Requests : CaddySpares(r, q) => CaddySpares(r, q)'
  BY <1>b, PlansStay DEF CaddySpares
<1>1. CASE CaddyRead(r)
  <2>1. /\ status[r] = "running" /\ done[r] = 1 /\ pc[r] = "run"
        /\ UNCHANGED <<caddyFile, caddyRunning, executor>>
        /\ mem'[r].caddy = caddyFile /\ pc'[r] = "caddy_install"
    <3>1. pc'[r] = "caddy_install"
      BY <1>1, <1>r DEF CaddyRead, Goto, TypeOK
    <3> QED
      BY <3>1, <1>1, <1>r, ApplyingFacts, OtherLocals DEF CaddyRead, providers
  <2>2. mem[r].caddy = Nobody
    BY <2>1 DEF CaddyWorks, CaddyCalls
  <2>3. CaddyWorks(r)'
    BY <2>1 DEF CaddyWorks, CaddyCalls, executor
  <2>4. ASSUME NEW q \in Requests, CaddySpares(r, q) PROVE CaddySpares(r, q)'
    BY <2>1, <2>2, <2>4, <1>k, PlansStay DEF CaddySpares
  <2> QED
    BY <2>3, <2>4
<1>2. CASE CaddyInstall(r)
  <2>1. /\ UNCHANGED mem /\ mem[r].caddy # Nobody /\ UNCHANGED <<executor, caddyRunning>>
        /\ caddyFile' = ProxyConfig(Desired(r)) /\ pc'[r] = "caddy_reload" /\ pc[r] = "caddy_install"
        /\ done[r] = 1
    BY <1>2, <1>r DEF CaddyInstall, Control, Goto, TypeOK
  <2>2. CaddyWorks(r)'
    BY <2>1, <1>d DEF CaddyWorks, CaddyCalls, executor
  <2>3. ASSUME NEW q \in Requests, Saved(q), CaddySpares(r, q) PROVE CaddySpares(r, q)'
    BY <2>1, <2>3, <1>k, <1>w, PlansStay DEF CaddySpares
  <2> QED
    BY <2>2, <2>3
<1>3. CASE CaddyReload(r)
  <2>1. /\ UNCHANGED <<mem, caddyFile>> /\ pc'[r] = "run" /\ pc[r] = "caddy_reload"
        /\ done'[r] = 2 /\ caddyRunning' = caddyFile /\ status'[r] = "running"
    <3>1. /\ StepApplied(r) /\ done[r] = 1 /\ pc[r] = "caddy_reload" /\ UNCHANGED <<mem, caddyFile>>
          /\ caddyRunning' = caddyFile /\ status[r] = "running"
      BY <1>3, <1>r DEF CaddyReload, Control
    <3> QED
      BY <3>1, <1>r, StepAppliedFacts
  <2>2. CaddyWorks(r)'
    BY <2>1, <1>d DEF CaddyWorks
  <2>3. ~ CaddyKept(r)'
    BY <2>1 DEF CaddyKept
  <2>4. mem[r].caddy # Nobody
    BY <2>1, <1>r DEF Control
  <2>5. ASSUME NEW q \in Requests, CaddySpares(r, q) PROVE CaddySpares(r, q)'
    BY <2>1, <2>3, <2>4, <2>5, PlansStay DEF CaddySpares
  <2> QED
    BY <2>2, <2>5
<1>4. CASE CaddyFails(r)
  <2>1. /\ UNCHANGED <<mem, caddyFile, caddyRunning, executor>> /\ pc'[r] = "caddy_restore"
        /\ done[r] = 1
    <3>1. /\ pc[r] \in {"caddy_install", "caddy_reload"}
          /\ UNCHANGED <<mem, caddyFile, caddyRunning, executor>>
      BY <1>4 DEF CaddyFails
    <3> QED
      BY <3>1, <1>4, <1>r DEF CaddyFails, Goto, Control, TypeOK
  <2>2. CaddyWorks(r)'
    BY <2>1 DEF CaddyWorks, CaddyCalls, executor
  <2> QED
    BY <2>1, <2>2, <1>f, <1>k
(* The step was not applied: the running Caddy is still the one it found. *)
<1>5. ASSUME StepFailed(r) \/ StepFailedUnclean(r, "caddy"), pc[r] = "caddy_restore"
      PROVE  /\ status'[r] = "compensating" /\ pc'[r] = "run" /\ CaddyKept(r)
             /\ mem[r].caddy # Nobody
  BY <1>5, <1>r, StepFailedFacts, StepFailedUncleanFacts DEF Control, CaddyKept
<1>6. CASE CaddyRestore(r)
  <2>1. /\ UNCHANGED <<mem, caddyRunning>> /\ caddyFile' = mem[r].caddy
        /\ StepFailed(r) /\ pc[r] = "caddy_restore"
    BY <1>6 DEF CaddyRestore
  <2>2. CaddyWorks(r)'
    BY <2>1, <1>5 DEF CaddyWorks
  <2> QED
    BY <2>1, <2>2, <1>5, <1>b
<1>e. CASE CaddyRestoreFails(r)
  <2>1. /\ UNCHANGED <<mem, caddyFile, caddyRunning>>
        /\ StepFailedUnclean(r, "caddy") /\ pc[r] = "caddy_restore"
    BY <1>e DEF CaddyRestoreFails
  <2>2. CaddyWorks(r)'
    BY <2>1, <1>5 DEF CaddyWorks
  <2> QED
    BY <2>1, <2>2, <1>5, <1>f
<1>7. CASE CaddyUndo(r)
  <2>1. /\ UNCHANGED <<mem, caddyRunning, executor>> /\ mem[r].caddy # Nobody
        /\ caddyFile' = mem[r].caddy
        /\ status'[r] = "compensating" /\ pc'[r] = "caddy_undo_reload"
    <3>1. pc'[r] = "caddy_undo_reload"
      BY <1>7, <1>r DEF CaddyUndo, Goto, TypeOK
    <3> QED
      BY <3>1, <1>7, <1>r, UndoingFacts DEF CaddyUndo, executor
  <2>2. CaddyWorks(r)'
    BY <2>1 DEF CaddyWorks
  <2> QED
    BY <2>1, <2>2, <1>b, <1>k
<1>8. ASSUME NEW result, StepUndone(r, "caddy", result),
             Undoing(r, "caddy") \/ pc[r] = "caddy_undo_reload"
      PROVE  /\ status'[r] = "compensating" /\ pc'[r] = "run"
             /\ rollback'[r]["caddy"] = result
  <2>1. status[r] = "compensating"
    BY <1>8, <1>r, UndoingFacts DEF Control
  <2>2. UNCHANGED status /\ pc'[r] = "run"
    BY <1>8, <1>r DEF StepUndone, Goto, TypeOK
  <2> QED
    BY <2>1, <2>2, <1>8, <1>r, UndoneReport
<1>9. CASE CaddyUndoReload(r)
  <2>1. /\ UNCHANGED <<mem, caddyFile>> /\ caddyRunning' = caddyFile
        /\ StepUndone(r, "caddy", "rolled_back") /\ pc[r] = "caddy_undo_reload"
    BY <1>9 DEF CaddyUndoReload
  <2>2. caddyFile = mem[r].caddy
    BY <2>1 DEF CaddyWorks
  <2>3. CaddyWorks(r)'
    BY <2>1, <1>8 DEF CaddyWorks
  <2>4. ASSUME NEW q \in Requests, CaddySpares(r, q) PROVE CaddySpares(r, q)'
    BY <2>1, <2>2, <2>4, <1>r, PlansStay DEF CaddySpares
  <2> QED
    BY <2>3, <2>4
<1>g. CASE CaddyUndoFails(r)
  <2>1. /\ UNCHANGED <<mem, caddyFile, caddyRunning>>
        /\ StepUndone(r, "caddy", "rollback_failed")
        /\ Undoing(r, "caddy") \/ pc[r] = "caddy_undo_reload"
    BY <1>g DEF CaddyUndoFails
  <2>2. CaddyWorks(r)' /\ ~ CaddyKept(r)'
    BY <2>1, <1>8 DEF CaddyWorks, CaddyKept
  <2> QED
    BY <2>1, <2>2, <1>f
<1> QED
  BY <1>1, <1>2, <1>3, <1>4, <1>6, <1>e, <1>7, <1>9, <1>g DEF CaddyStep

LEMMA CaddyLive ==
    ASSUME TypeInv, ~ HiddenFaults, NEW r \in Requests, Current(r), Works(r), CaddyStep(r)
    PROVE  /\ Works(r)' /\ UNCHANGED resource
           /\ \A q \in Requests : Saved(q) /\ Spares(r, q) => Spares(r, q)'
<1>m. /\ UNCHANGED <<resource, target, dns>>
      /\ mem'[r].dns = mem[r].dns /\ mem'[r].found = mem[r].found
      /\ rollback'[r]["dns"] = rollback[r]["dns"]
      /\ pc'[r] \in CaddyCalls \cup {"run", "caddy_undo_reload"}
      /\ Holds(r) /\ pc[r] \notin {"audit", "save", "pangolin_publish", "pangolin_restore"}
      /\ Len(StepsOf(r)) > 1
      /\ \/ /\ status[r] = "running" /\ done[r] = 1
            /\ \/ status'[r] = "running" /\ done'[r] \in {1, 2}
               \/ status'[r] = "compensating" /\ done'[r] = 1
         \/ /\ status[r] = "compensating" /\ status'[r] = "compensating"
            /\ done'[r] = done[r]
  BY CaddyMoves
<1>w. DnsWorks(r) /\ CaddyWorks(r) /\ PangolinWorks(r)
  BY DEF Works
<1>1. DnsWorks(r)' /\ \A q \in Requests : DnsSpares(r, q) => DnsSpares(r, q)'
  BY <1>w, <1>m, DnsStays
<1>2. /\ CaddyWorks(r)'
      /\ \A q \in Requests : Saved(q) /\ CaddySpares(r, q) => CaddySpares(r, q)'
  BY <1>w, CaddyStepWorks
<1>3. PangolinWorks(r)' /\ \A q \in Requests : PangolinSpares(r, q) => PangolinSpares(r, q)'
  <2>2. {pc[r], pc'[r]} \cap PangolinCalls = {} /\ pc[r] # "pangolin_restore"
    BY <1>m DEF CaddyCalls, PangolinCalls
  <2>1. /\ OnEdge(r) => (done'[r] = Len(StepsOf(r)) <=> done[r] = Len(StepsOf(r)))
        /\ status'[r] = "running" /\ done'[r] < Len(StepsOf(r)) =>
              status[r] = "running" /\ done[r] < Len(StepsOf(r)) /\ pc[r] \notin PangolinCalls
    <3> DEFINE n == Len(StepsOf(r))
    <3>1. n \in 1..3 /\ n > 1 /\ (OnEdge(r) => n # 2)
      BY <1>m, ModeFacts
    <3> HIDE DEF n
    <3>2. /\ OnEdge(r) => (done'[r] = n <=> done[r] = n)
          /\ status'[r] = "running" /\ done'[r] < n => status[r] = "running" /\ done[r] < n
      BY <3>1, <1>m
    <3> QED
      BY <3>2, <2>2 DEF n
  <2> QED
    BY <2>1, <2>2, <1>w, <1>m, PangolinStays
<1>4. Works(r)'
  <2>1. status'[r] # "applied" /\ ProviderMutations[r]
    <3>1. pc[r] \notin {"load", "ready", "audit", "save", "done", "dead"}
      BY <1>m DEF Holds
    <3> QED
      BY <3>1, <1>m DEF Control, TypeInv, ControlOK
  <2> QED
    BY <2>1, <1>1, <1>2, <1>3 DEF Works
<1> QED
  BY <1>1, <1>2, <1>3, <1>4, <1>m DEF Spares

(* The same of a step of the Pangolin manager, the last step of its plan. *)
LEMMA PangolinMoves ==
    ASSUME TypeInv, NEW r \in Requests, PangolinStep(r)
    PROVE  /\ UNCHANGED <<caddyFile, caddyRunning, dns, reply>>
           /\ mem'[r].dns = mem[r].dns /\ mem'[r].caddy = mem[r].caddy
           /\ mem'[r].routes = mem[r].routes /\ rollback'[r] = rollback[r]
           /\ {pc[r], pc'[r]} \subseteq {"run", "pangolin_publish", "pangolin_restore"}
           /\ status[r] = "running" /\ OnEdge(r) /\ done[r] \in {0, 2}
           /\ done[r] + 1 = Len(StepsOf(r))
           /\ \/ status'[r] = "running" /\ done'[r] \in {done[r], done[r] + 1}
              \/ status'[r] = "compensating" /\ done'[r] = done[r] /\ todo'[r] = done[r]
<1>r. /\ TypeOK /\ Control(r) /\ mem \in [Requests -> Locals] /\ "pangolin" \in Providers
      /\ pc \in [Requests -> Positions]
      /\ {"pangolin_publish", "pangolin_restore"} \subseteq Positions
      /\ done[r] \in 0..3 /\ Len(StepsOf(r)) \in 1..3
  BY StepsFacts DEF TypeInv, TypeOK, ControlOK, Providers, Positions
<1>c. UNCHANGED <<caddyFile, caddyRunning, dns, reply>> /\ mem'[r].routes = mem[r].routes
  BY StepKeepsLists
  DEF KeepsLists, PangolinStep, PangolinAmbiguous, PangolinLookup, PangolinPublish,
      PangolinFails, PangolinBreaksNew, PangolinBreaksAdopted, PangolinBreaksGone,
      PangolinRestore, PangolinRestoreFails, providers
<1>m. mem'[r].dns = mem[r].dns /\ mem'[r].caddy = mem[r].caddy
  <2>1. CASE UNCHANGED mem
    BY <2>1
  <2>2. ASSUME NEW c \in Requests, mem' = [mem EXCEPT ![r].found = c, ![r].content = resource[c]]
        PROVE  <1>m
    <3>1. /\ mem'[r].dns = mem[r].dns /\ mem'[r].seen = mem[r].seen
          /\ mem'[r].caddy = mem[r].caddy
          /\ mem'[r].found = c /\ mem'[r].content = resource[c]
          /\ mem'[r].target = mem[r].target
      BY <2>2, <1>r, FoundLocals, Zenon
    <3> QED
      BY <3>1
  <2>3. CASE mem' = [mem EXCEPT ![r].target = target[mem[r].found]]
    BY <2>3, <1>r, OtherLocals
  <2> QED
    BY <2>1, <2>2, <2>3
    DEF PangolinStep, PangolinAmbiguous, PangolinLookup, PangolinPublish, PangolinFails,
        PangolinBreaksNew, PangolinBreaksAdopted, PangolinBreaksGone, PangolinRestore,
        PangolinRestoreFails
<1>a. /\ pc[r] \in {"run", "pangolin_publish", "pangolin_restore"}
      /\ status[r] = "running" /\ OnEdge(r)
      /\ done[r] \in {0, 2} /\ done[r] + 1 = Len(StepsOf(r))
  <2>1. Applying(r, "pangolin") \/ pc[r] \in {"pangolin_publish", "pangolin_restore"}
    BY DEF PangolinStep, PangolinAmbiguous, PangolinLookup, PangolinPublish,
           PangolinFails, PangolinBreaksNew, PangolinBreaksAdopted,
           PangolinBreaksGone, PangolinRestore, PangolinRestoreFails
  <2>2. /\ pc[r] \in {"run", "pangolin_publish", "pangolin_restore"} /\ status[r] = "running"
        /\ done[r] + 1 <= Len(StepsOf(r))
        /\ Len(StepsOf(r)) > 1 => done[r] = 2
    BY <2>1, <1>r, ApplyingFacts DEF Control
  <2> DEFINE n == Len(StepsOf(r))
  <2>3. /\ n \in 1..3 /\ done[r] \in 0..3 /\ done[r] + 1 <= n /\ (n > 1 => done[r] = 2)
        /\ (n = 3 => OnEdge(r)) /\ (n = 1 => OnEdge(r))
    BY <1>r, <2>2, ModeFacts
  <2> HIDE DEF n
  <2>4. done[r] \in {0, 2} /\ done[r] + 1 = n /\ OnEdge(r)
    BY <2>3
  <2> QED
    BY <2>2, <2>4 DEF n
<1>1. CASE StepFailed(r) \/ StepFailedUnclean(r, "pangolin")
  <2>1. /\ status'[r] = "compensating" /\ pc'[r] = "run" /\ todo'[r] = done[r]
        /\ UNCHANGED <<done, rollback>>
    BY <1>1, <1>r, StepFailedFacts, StepFailedUncleanFacts
  <2> QED
    BY <2>1, <1>a, <1>c, <1>m
<1>2. CASE UNCHANGED executor /\ \E position \in PangolinCalls : Goto(r, position)
  <2>1. pc'[r] \in {"pangolin_publish", "pangolin_restore"}
    BY <1>2, <1>r, GotoFacts DEF PangolinCalls
  <2> QED
    BY <2>1, <1>2, <1>a, <1>c, <1>m DEF executor
<1>3. CASE StepApplied(r)
  <2>1. done[r] < 3
    BY <1>a
  <2>2. done'[r] = done[r] + 1 /\ pc'[r] = "run" /\ UNCHANGED <<status, rollback>>
    BY <1>3, <2>1, <1>r, StepAppliedFacts
  <2> QED
    BY <2>2, <1>a, <1>c, <1>m
<1> QED
  BY <1>1, <1>2, <1>3
  DEF PangolinCalls, PangolinStep, PangolinAmbiguous, PangolinLookup, PangolinPublish,
      PangolinFails, PangolinBreaksNew, PangolinBreaksAdopted, PangolinBreaksGone,
      PangolinRestore, PangolinRestoreFails

(* What a change of the one resource x of a hostname means for all of them. *)
LEMMA OneResourceMoves ==
    ASSUME TypeInv, Placed, NEW r \in Requests, NEW x \in Requests, Host(x) = Host(r),
           Matching(Host(r)) \subseteq {x},
           resource'[x] = Nobody \/ Host(resource'[x]) = Host(r),
           \A c \in Requests \ {x} : resource'[c] = resource[c] /\ target'[c] = target[c]
    PROVE  /\ Placed'
           /\ Matching(Host(r))' = IF resource'[x] = Nobody THEN {} ELSE {x}
           /\ \A q \in Requests : Host(q) # Host(r) /\ Reachable(q) => Reachable(q)'
<1>1. \A c \in Requests : resource'[c] # Nobody /\ Host(c) = Host(r) => c = x
  BY DEF Matching
<1>2. Placed'
  <2>1. ASSUME NEW c \in Requests, NEW d \in Requests, resource'[c] # Nobody,
               resource'[d] # Nobody, Host(c) = Host(d)
        PROVE  c = d
    BY <1>1, <2>1 DEF Placed
  <2>2. ASSUME NEW c \in Requests, resource'[c] # Nobody
        PROVE  Host(resource'[c]) = Host(c)
    BY <2>2 DEF Placed
  <2> QED
    BY <2>1, <2>2 DEF Placed, Host
<1>3. Matching(Host(r))' = IF resource'[x] = Nobody THEN {} ELSE {x}
  BY <1>1 DEF Matching, Host
<1>4. ASSUME NEW q \in Requests, Host(q) # Host(r), Reachable(q) PROVE Reachable(q)'
  <2>1. PICK c \in Requests : resource[c] = q /\ target[c] = q
    BY <1>4 DEF Reachable
  <2>2. c # x
    BY <2>1, <1>4, NobodyAssumption DEF Placed
  <2> QED
    BY <2>1, <2>2 DEF Reachable
<1> QED
  BY <1>2, <1>3, <1>4

LEMMA PangolinStepWorks ==
    ASSUME TypeInv, ~ HiddenFaults, NEW r \in Requests, Reports(r), PangolinKnown(r), Placed,
           PangolinWorks(r), PangolinStep(r)
    PROVE  /\ PangolinWorks(r)' /\ Placed'
           /\ \A q \in Requests : Saved(q)' /\ PangolinSpares(r, q) => PangolinSpares(r, q)'
<1>r. /\ TypeOK /\ mem \in [Requests -> Locals] /\ mem[r] \in Locals
      /\ resource \in [Requests -> Requests \cup {Nobody}]
      /\ target \in [Requests -> Requests \cup {Nobody}]
      /\ mem[r].found \in Requests \cup {Nobody}
      /\ mem[r].content \in Requests \cup {Nobody}
      /\ \A q \in Requests : q # Nobody
      /\ {"pangolin_publish", "pangolin_restore"} \subseteq Positions
  BY NobodyAssumption DEF TypeInv, TypeOK, Locals, Positions
<1>a. /\ pc[r] \in {"run", "pangolin_publish", "pangolin_restore"}
      /\ status[r] = "running" /\ OnEdge(r) /\ done[r] \in {0, 2}
      /\ done[r] + 1 = Len(StepsOf(r))
  BY PangolinMoves
<1>b. done[r] # Len(StepsOf(r)) /\ done[r] < Len(StepsOf(r)) /\ ~ Published(r)
  BY <1>a DEF Published
<1>p. UNCHANGED resource => Placed'
  BY DEF Placed, Host
<1>s. \A q \in Requests : OnEdge(q)' = OnEdge(q) /\ Host(q)' = Host(q)
  BY PlansStay
(* The resource of the hostname, and what a saved route of it has of that. *)
<1>x. ASSUME pc[r] \in PangolinCalls
      PROVE  /\ PublishedAs(r) \in Requests /\ Host(PublishedAs(r)) = Host(r)
             /\ Matching(Host(r)) \subseteq {PublishedAs(r)}
             /\ ~ Gone(r)
  <2>1. \/ Matching(Host(r)) = IF mem[r].found = Nobody THEN {} ELSE {mem[r].found}
        \/ Matching(Host(r)) = {PublishedAs(r)}
    BY <1>x DEF PangolinWorks, PangolinCalls
  <2>2. CASE mem[r].found = Nobody
    BY <2>1, <2>2 DEF PublishedAs, Gone
  <2>3. CASE mem[r].found # Nobody
    <3>1. PublishedAs(r) = mem[r].found /\ Matching(Host(r)) = {mem[r].found}
      BY <2>1, <2>3 DEF PublishedAs
    <3>2. mem[r].found \in Requests /\ Host(mem[r].found) = Host(r) /\ resource[mem[r].found] # Nobody
      BY <3>1 DEF Matching
    <3> QED
      BY <3>1, <3>2 DEF Gone
  <2> QED
    BY <2>2, <2>3
<1>o. ASSUME NEW q \in Requests, OnEdge(q), Host(q) = Host(r), pc[r] = "pangolin_publish",
             PangolinSpares(r, q)
      PROVE  mem[r].found # Nobody /\ resource[mem[r].found] = q /\ target[mem[r].found] = q
  <2>1. PICK c \in Requests : resource[c] = q /\ target[c] = q
    BY <1>o, <1>b DEF PangolinSpares, Reachable
  <2>2. c \in Matching(Host(r))
    BY <2>1, <1>o, <1>r DEF Matching, Placed
  <2>3. Matching(Host(r)) = IF mem[r].found = Nobody THEN {} ELSE {mem[r].found}
    BY <1>o DEF PangolinWorks
  <2> QED
    BY <2>1, <2>2, <2>3
<1>f. ASSUME StepFailed(r) \/ StepFailedUnclean(r, "pangolin")
      PROVE  /\ status'[r] = "compensating" /\ pc'[r] = "run" /\ UNCHANGED done
             /\ PangolinWorks(r)' /\ ~ Published(r)'
  <2>1. status'[r] = "compensating" /\ pc'[r] = "run" /\ UNCHANGED done
    BY <1>f, <1>r, StepFailedFacts, StepFailedUncleanFacts
  <2>2. ~ Published(r)'
    BY <2>1, <1>b, PlansStay DEF Published
  <2> QED
    BY <2>1, <2>2 DEF PangolinWorks
<1>1. CASE PangolinAmbiguous(r) \/ PangolinFails(r)
  <2>1. /\ StepFailed(r) /\ UNCHANGED <<mem, resource, target>>
        /\ pc[r] # "pangolin_restore"
    BY <1>1 DEF PangolinAmbiguous, PangolinFails, Applying, providers
  <2>2. \A q \in Requests : Reachable(q)' = Reachable(q)
    BY <2>1 DEF Reachable
  <2>3. \A q \in Requests : PangolinSpares(r, q) => PangolinSpares(r, q)'
    BY <2>1, <2>2, <1>b, <1>f, <1>s DEF PangolinSpares
  <2> QED
    BY <2>1, <2>3, <1>p, <1>f
<1>2. CASE PangolinLookup(r)
  <2>1. /\ UNCHANGED <<resource, target, done, status>> /\ pc[r] = "run"
        /\ pc'[r] = "pangolin_publish"
    BY <1>2, <1>r DEF PangolinLookup, Applying, Goto, TypeOK, providers, executor
  <2>2. mem[r].found = Nobody
    BY <2>1, <1>a, <1>b DEF PangolinWorks, PangolinCalls
  <2>3. Matching(Host(r)) = IF mem'[r].found = Nobody THEN {} ELSE {mem'[r].found}
    <3>1. CASE UNCHANGED mem /\ Matching(Host(r)) = {}
      BY <2>2, <3>1
    <3>2. ASSUME NEW c \in Requests, Matching(Host(r)) = {c},
                 mem' = [mem EXCEPT ![r].found = c, ![r].content = resource[c]]
          PROVE  <2>3
      <4>1. /\ mem'[r].dns = mem[r].dns /\ mem'[r].seen = mem[r].seen
            /\ mem'[r].caddy = mem[r].caddy
            /\ mem'[r].found = c /\ mem'[r].content = resource[c]
            /\ mem'[r].target = mem[r].target
        BY <3>2, <1>r, FoundLocals, Zenon
      <4> QED
        BY <4>1, <3>2, <1>r
    <3> QED
      BY <1>2, <3>1, <3>2 DEF PangolinLookup
  <2>4. Matching(Host(r))' = Matching(Host(r))
    BY <2>1 DEF Matching, Host
  <2>5. ~ Published(r)'
    BY <2>1, <1>b, PlansStay DEF Published
  <2>6. PangolinWorks(r)'
    BY <2>1, <2>3, <2>4, <2>5, <1>b DEF PangolinWorks, PangolinCalls
  <2>7. \A q \in Requests : Reachable(q)' = Reachable(q)
    BY <2>1 DEF Reachable
  <2>8. \A q \in Requests : PangolinSpares(r, q) => PangolinSpares(r, q)'
    BY <2>1, <2>5, <2>7, <1>b, <1>s DEF PangolinSpares
  <2> QED
    BY <2>1, <2>6, <2>8, <1>p
<1>3. CASE PangolinPublish(r)
  <2> DEFINE p == PublishedAs(r)
  <2>1. /\ pc[r] = "pangolin_publish" /\ UNCHANGED mem /\ StepApplied(r)
        /\ resource' = [resource EXCEPT ![p] = r] /\ target' = [target EXCEPT ![p] = r]
    BY <1>3 DEF PangolinPublish
  <2>2. /\ pc'[r] = "run" /\ done'[r] = Len(StepsOf(r))
    <3>1. done[r] < 3
      BY <1>a
    <3> QED
      BY <2>1, <3>1, <1>a, <1>r, StepAppliedFacts
  <2>3. p \in Requests /\ Host(p) = Host(r) /\ Matching(Host(r)) \subseteq {p}
    BY <2>1, <1>x DEF PangolinCalls
  <2> HIDE DEF p
  <2>4. /\ resource'[p] = r /\ target'[p] = r
        /\ \A c \in Requests \ {p} : resource'[c] = resource[c] /\ target'[c] = target[c]
    BY <2>1, <2>3, <1>r
  <2>5. /\ Placed'
        /\ \A q \in Requests : Host(q) # Host(r) /\ Reachable(q) => Reachable(q)'
    BY <2>3, <2>4, OneResourceMoves
  <2>6. Published(r)'
    BY <2>2, <1>a, PlansStay DEF Published
  <2>7. PangolinWorks(r)'
    <3>1. Reachable(r)'
      BY <2>3, <2>4 DEF Reachable
    <3>2. ~ (done'[r] < Len(StepsOf(r)))
      BY <2>2
    <3> QED
      BY <2>2, <3>1, <3>2, PlansStay DEF PangolinWorks
  <2>8. \A q \in Requests : PangolinSpares(r, q) => PangolinSpares(r, q)'
    BY <2>2, <2>5, <2>6, <1>s DEF PangolinSpares
  <2> QED
    BY <2>5, <2>7, <2>8
(* The publication breaks off: nothing but the resource has changed so far, and
   of the saved route it was what is to be put back. *)
<1>4. ASSUME pc[r] = "pangolin_publish", UNCHANGED <<executor, target>>, Goto(r, "pangolin_restore"),
             mem'[r].found = mem[r].found, mem'[r].content = mem[r].content,
             mem'[r].target \in {mem[r].target} \cup
                {IF mem[r].found = Nobody THEN Nobody ELSE target[mem[r].found]},
             resource'[PublishedAs(r)] # Nobody,
             resource' \in {resource, [resource EXCEPT ![PublishedAs(r)] = r]}
      PROVE  /\ PangolinWorks(r)' /\ Placed'
             /\ \A q \in Requests : PangolinSpares(r, q) => PangolinSpares(r, q)'
  <2> DEFINE p == PublishedAs(r)
  <2>1. pc'[r] = "pangolin_restore" /\ UNCHANGED <<done, status>>
    BY <1>4, <1>r, GotoFacts DEF executor
  <2>2. p \in Requests /\ Host(p) = Host(r) /\ Matching(Host(r)) \subseteq {p} /\ ~ Gone(r)
    BY <1>4, <1>x DEF PangolinCalls
  <2>3. PublishedAs(r)' = p
    BY <1>4 DEF PublishedAs
  <2>4. mem[r].found # Nobody =>
           /\ mem[r].content = resource[mem[r].found] /\ mem[r].content # Nobody
           /\ p = mem[r].found
    BY <1>a, <1>b, <1>4 DEF PangolinKnown, Reports, PublishedAs
  <2>t. mem[r].target = Nobody
    BY <1>a, <1>4 DEF PangolinKnown
  <2> HIDE DEF p
  <2>5. /\ resource'[p] # Nobody
        /\ resource'[p] = resource[p] \/ resource'[p] = r
        /\ \A c \in Requests \ {p} : resource'[c] = resource[c] /\ target'[c] = target[c]
    BY <1>4, <2>2, <1>r DEF p
  <2>6. Host(resource'[p]) = Host(r)
    BY <2>2, <2>5 DEF Placed
  <2>7. /\ Placed' /\ Matching(Host(r))' = {p}
        /\ \A q \in Requests : Host(q) # Host(r) /\ Reachable(q) => Reachable(q)'
    BY <2>2, <2>5, <2>6, OneResourceMoves
  <2>8. ~ Published(r)'
    BY <2>1, <1>b, PlansStay DEF Published
  <2>9. mem[r].found # Nobody => Host(mem[r].content) = Host(r)
    BY <2>2, <2>4 DEF Placed
  <2>a. PangolinWorks(r)'
    <3>1. mem'[r].found # Nobody => mem'[r].content # Nobody /\ Host(mem'[r].content) = Host(r)
      BY <1>4, <2>4, <2>9
    <3> QED
      BY <2>1, <2>3, <2>7, <2>8, <3>1, <1>4, PlansStay DEF PangolinWorks, PangolinCalls, Host
  <2>b. ASSUME NEW q \in Requests, PangolinSpares(r, q) PROVE PangolinSpares(r, q)'
    <3>1. CASE Host(q) # Host(r)
      BY <2>1, <2>7, <2>b, <3>1, <1>s DEF PangolinSpares
    <3>2. CASE Host(q) = Host(r) /\ OnEdge(q)
      <4>1. mem[r].found # Nobody /\ resource[mem[r].found] = q /\ target[mem[r].found] = q
        BY <2>b, <3>2, <1>4, <1>o
      <4>2. /\ mem'[r].found # Nobody /\ mem'[r].content = q /\ target'[mem'[r].found] = q
            /\ mem'[r].target \in {q, Nobody}
        BY <1>4, <4>1, <2>4, <2>t
      <4> QED
        BY <2>1, <3>2, <4>2, <1>s DEF PangolinSpares
    <3>3. CASE ~ OnEdge(q)
      BY <3>3, <1>s DEF PangolinSpares
    <3> QED
      BY <3>1, <3>2, <3>3
  <2> QED
    BY <2>7, <2>a, <2>b
<1>5. CASE PangolinBreaksNew(r)
  <2>1. /\ pc[r] = "pangolin_publish" /\ mem[r].found = Nobody /\ PublishedAs(r) = r
        /\ UNCHANGED <<executor, target, mem>> /\ Goto(r, "pangolin_restore")
        /\ resource' = [resource EXCEPT ![r] = r]
    BY <1>5 DEF PangolinBreaksNew, PublishedAs
  <2>2. resource'[r] # Nobody
    BY <2>1, <1>r
  <2> QED
    BY <2>1, <2>2, <1>4
<1>6. CASE PangolinBreaksAdopted(r)
  <2>1. /\ pc[r] = "pangolin_publish" /\ mem[r].found # Nobody
        /\ PublishedAs(r) = mem[r].found /\ resource[mem[r].found] # Nobody
        /\ UNCHANGED <<executor, target>> /\ Goto(r, "pangolin_restore")
        /\ resource' \in {resource, [resource EXCEPT ![mem[r].found] = r]}
        /\ UNCHANGED mem \/ mem' = [mem EXCEPT ![r].target = target[mem[r].found]]
    BY <1>6 DEF PangolinBreaksAdopted, PublishedAs, Gone
  <2>2. resource'[mem[r].found] # Nobody
    BY <2>1, <1>r
  <2>3. /\ mem'[r].found = mem[r].found /\ mem'[r].content = mem[r].content
        /\ mem'[r].target \in {mem[r].target, target[mem[r].found]}
    BY <2>1, <1>r, OtherLocals
  <2> QED
    BY <2>1, <2>2, <2>3, <1>4
<1>7. CASE PangolinBreaksGone(r)
  BY <1>7, <1>x DEF PangolinBreaksGone, PangolinCalls
<1>8. CASE PangolinRestore(r)
  <2> DEFINE p == PublishedAs(r)
  <2>1. /\ pc[r] = "pangolin_restore" /\ UNCHANGED mem /\ StepFailed(r)
        /\ target' = RestoredTarget(r) /\ resource' = RestoredSettings(r)
    BY <1>8 DEF PangolinRestore
  <2>2. p \in Requests /\ Host(p) = Host(r) /\ Matching(Host(r)) \subseteq {p}
    BY <2>1, <1>x DEF PangolinCalls
  <2>3. mem[r].found # Nobody => mem[r].content # Nobody /\ Host(mem[r].content) = Host(r)
    BY <2>1 DEF PangolinWorks
  <2>4. /\ resource' = [resource EXCEPT ![p] = IF mem[r].found = Nobody THEN Nobody
                                                ELSE mem[r].content]
        /\ \/ target' = target
           \/ target' = [target EXCEPT ![p] = IF mem[r].found = Nobody THEN Nobody
                                               ELSE mem[r].target]
    BY <2>1 DEF RestoredSettings, RestoredTarget, PublishedAs
  <2>n. mem[r].found # Nobody => p = mem[r].found
    BY DEF PublishedAs
  <2> HIDE DEF p
  <2>5. /\ resource'[p] = IF mem[r].found = Nobody THEN Nobody ELSE mem[r].content
        /\ \A c \in Requests \ {p} : resource'[c] = resource[c] /\ target'[c] = target[c]
    BY <2>2, <2>4, <1>r
  <2>6. resource'[p] = Nobody \/ Host(resource'[p]) = Host(r)
    BY <2>3, <2>5
  <2>7. /\ Placed'
        /\ \A q \in Requests : Host(q) # Host(r) /\ Reachable(q) => Reachable(q)'
    BY <2>2, <2>5, <2>6, OneResourceMoves
  <2>8. ASSUME NEW q \in Requests, PangolinSpares(r, q) PROVE PangolinSpares(r, q)'
    <3>1. CASE Host(q) # Host(r)
      BY <2>1, <2>7, <2>8, <3>1, <1>f, <1>s DEF PangolinSpares
    <3>2. CASE Host(q) = Host(r) /\ OnEdge(q)
      <4>1. /\ mem[r].found # Nobody /\ mem[r].content = q /\ target[mem[r].found] = q
            /\ mem[r].target \in {q, Nobody}
        BY <2>1, <2>8, <3>2 DEF PangolinSpares
      <4>2. resource'[mem[r].found] = q
        BY <2>5, <4>1, <2>n
      <4>3. target'[mem[r].found] = q
        BY <2>1, <4>1, <1>r DEF RestoredTarget
      <4>4. Reachable(q)'
        BY <4>1, <4>2, <4>3, <1>r DEF Reachable
      <4> QED
        BY <2>1, <3>2, <4>4, <1>f, <1>s DEF PangolinSpares
    <3>3. CASE ~ OnEdge(q)
      BY <3>3, <1>s DEF PangolinSpares
    <3> QED
      BY <3>1, <3>2, <3>3
  <2> QED
    BY <2>1, <2>7, <2>8, <1>f
(* What it could not put back is not counted among the saved routes. *)
<1>9. CASE PangolinRestoreFails(r)
  <2> DEFINE p == PublishedAs(r)
  <2>1. /\ pc[r] = "pangolin_restore" /\ UNCHANGED <<mem, resource>>
        /\ StepFailedUnclean(r, "pangolin")
        /\ UNCHANGED target \/ (mem[r].found # Nobody /\ target' = RestoredTarget(r))
    <3>1. pc[r] = "pangolin_restore" /\ ~ Gone(r)
      BY <1>9, <1>x DEF PangolinRestoreFails, PangolinCalls
    <3> QED
      BY <3>1, <1>9 DEF PangolinRestoreFails
  <2>2. p \in Requests /\ Host(p) = Host(r) /\ Matching(Host(r)) \subseteq {p}
    BY <2>1, <1>x DEF PangolinCalls
  <2>3. UNCHANGED target \/ target' = [target EXCEPT ![p] = mem[r].target]
    BY <2>1 DEF RestoredTarget, PublishedAs
  <2> HIDE DEF p
  <2>4. \A c \in Requests \ {p} : resource'[c] = resource[c] /\ target'[c] = target[c]
    BY <2>1, <2>2, <2>3, <1>r
  <2>5. resource'[p] = Nobody \/ Host(resource'[p]) = Host(r)
    BY <2>1, <2>2 DEF Placed
  <2>6. \A q \in Requests : Host(q) # Host(r) /\ Reachable(q) => Reachable(q)'
    BY <2>2, <2>4, <2>5, OneResourceMoves
  <2>7. r \in unclean'["pangolin"]
    BY <2>1, <1>r, StepFailedUncleanFacts
  <2>8. ASSUME NEW q \in Requests, Saved(q)', PangolinSpares(r, q) PROVE PangolinSpares(r, q)'
    <3>1. Host(q) # Host(r)
      BY <2>7, <2>8, <1>s DEF Saved, Undisturbed
    <3> QED
      BY <2>1, <2>6, <2>8, <3>1, <1>f, <1>s DEF PangolinSpares
  <2> QED
    BY <2>1, <2>8, <1>f, <1>p
<1> QED
  BY <1>1, <1>2, <1>3, <1>5, <1>6, <1>7, <1>8, <1>9 DEF PangolinStep

LEMMA PangolinLive ==
    ASSUME TypeInv, ~ HiddenFaults, NEW r \in Requests, Known(r), Placed, Works(r),
           PangolinStep(r)
    PROVE  /\ Works(r)' /\ Placed'
           /\ \A q \in Requests : Saved(q)' /\ Spares(r, q) => Spares(r, q)'
<1>m. /\ UNCHANGED <<caddyFile, caddyRunning, dns>>
      /\ mem'[r].dns = mem[r].dns /\ mem'[r].caddy = mem[r].caddy
      /\ mem'[r].routes = mem[r].routes /\ rollback'[r] = rollback[r]
      /\ {pc[r], pc'[r]} \subseteq {"run", "pangolin_publish", "pangolin_restore"}
      /\ status[r] = "running" /\ done[r] \in {0, 2}
      /\ \/ status'[r] = "running" /\ done'[r] \in {done[r], done[r] + 1}
         \/ status'[r] = "compensating" /\ done'[r] = done[r] /\ todo'[r] = done[r]
  BY PangolinMoves
<1>w. DnsWorks(r) /\ CaddyWorks(r) /\ PangolinWorks(r)
  BY DEF Works
<1>k. Reports(r) /\ PangolinKnown(r)
  BY ThreadIsItsOwn DEF Thread, Known
<1>1. DnsWorks(r)' /\ \A q \in Requests : DnsSpares(r, q) => DnsSpares(r, q)'
  BY <1>w, <1>m, DnsStays
<1>2. CaddyWorks(r)' /\ \A q \in Requests : CaddySpares(r, q) => CaddySpares(r, q)'
  <2>1. /\ status'[r] = "running" /\ done'[r] < 2 =>
              status[r] = "running" /\ done[r] < 2 /\ pc[r] \notin CaddyCalls
        /\ status'[r] \in {"running", "applied"} /\ done'[r] >= 2 =>
              status[r] \in {"running", "applied"} /\ done[r] >= 2
        /\ pc'[r] \notin {"caddy_reload", "caddy_undo_reload"}
    BY <1>m DEF CaddyCalls
  <2>2. CaddyKept(r)' => CaddyKept(r)
    BY <1>m DEF CaddyKept
  <2> QED
    BY <2>1, <2>2, <1>w, <1>m, CaddyStays
<1>3. /\ PangolinWorks(r)' /\ Placed'
      /\ \A q \in Requests : Saved(q)' /\ PangolinSpares(r, q) => PangolinSpares(r, q)'
  BY <1>w, <1>k, PangolinStepWorks
<1>4. Works(r)'
  <2>1. status'[r] # "applied" /\ ProviderMutations[r]
    BY <1>m DEF Control, TypeInv, ControlOK
  <2> QED
    BY <2>1, <1>1, <1>2, <1>3 DEF Works
<1> QED
  BY <1>1, <1>2, <1>3, <1>4 DEF Spares

(* A step that changes no provider. *)
LEMMA RestsStay ==
    ASSUME UNCHANGED <<dns, caddyFile, caddyRunning, resource, target>>
    PROVE  /\ \A q \in Requests : InEffect(q) => InEffect(q)'
           /\ Placed => Placed'
           /\ \A r, q \in Requests :
                 (/\ mem'[r].dns = mem[r].dns /\ mem'[r].caddy = mem[r].caddy
                  /\ done'[r] = done[r] /\ rollback'[r] = rollback[r]
                  /\ CaddyKept(r)' => CaddyKept(r)
                  /\ pc'[r] = "pangolin_restore" <=> pc[r] = "pangolin_restore"
                  /\ pc[r] = "pangolin_restore" => mem'[r] = mem[r]
                  /\ Spares(r, q)) => Spares(r, q)'
<1>e. \A q \in Requests : Reachable(q) => Reachable(q)'
  BY DEF Reachable
<1>1. \A q \in Requests : InEffect(q) => InEffect(q)'
  BY <1>e, PlansStay DEF InEffect
<1>2. Placed => Placed'
  BY DEF Placed, Host
<1>3. ASSUME NEW r \in Requests, NEW q \in Requests,
             mem'[r].dns = mem[r].dns, mem'[r].caddy = mem[r].caddy,
             done'[r] = done[r], rollback'[r] = rollback[r], Spares(r, q),
             CaddyKept(r)' => CaddyKept(r),
             pc'[r] = "pangolin_restore" <=> pc[r] = "pangolin_restore",
             pc[r] = "pangolin_restore" => mem'[r] = mem[r]
      PROVE  Spares(r, q)'
  <2>1. Published(r)' <=> Published(r)
    BY <1>3, PlansStay DEF Published
  <2>2. DnsSpares(r, q)'
    BY <1>3, PlansStay DEF Spares, DnsSpares
  <2>3. CaddySpares(r, q)'
    BY <1>3, PlansStay DEF Spares, CaddySpares
  <2>4. PangolinSpares(r, q)'
    BY <1>3, <1>e, <2>1, PlansStay DEF Spares, PangolinSpares
  <2> QED
    BY <2>2, <2>3, <2>4 DEF Spares
<1> QED
  BY <1>1, <1>2, <1>3

LEMMA WorksStays ==
    ASSUME NEW r \in Requests, Works(r),
           UNCHANGED <<dns, caddyFile, caddyRunning, resource, target>>,
           CaddyKept(r)' => CaddyKept(r),
           mem'[r].dns = mem[r].dns, mem'[r].caddy = mem[r].caddy,
           mem'[r].found = mem[r].found, mem'[r].routes = mem[r].routes,
           done'[r] = done[r], rollback'[r] = rollback[r],
           status'[r] = status[r] \/ status'[r] \in {"rolled_back", "rollback_failed"},
           {pc[r], pc'[r]} \cap (CaddyCalls \cup PangolinCalls \cup {"caddy_undo_reload"}) = {}
    PROVE  Works(r)'
<1>w. DnsWorks(r) /\ CaddyWorks(r) /\ PangolinWorks(r)
  BY DEF Works
<1>1. DnsWorks(r)'
  BY <1>w, DnsStays
<1>2. CaddyWorks(r)'
  BY <1>w, CaddyStays DEF CaddyCalls
<1>3. PangolinWorks(r)'
  BY <1>w, PangolinStays DEF PangolinCalls
<1> QED
  BY <1>1, <1>2, <1>3, PlansStay DEF Works

(* What a finished request leaves to the saved routes: those of other
   hostnames as they were, and those of its own once it has put back what it
   changed. *)
LEMMA Released ==
    ASSUME NEW r \in Requests, NEW q \in Requests, Spares(r, q),
           \/ Host(q) # Host(r)
           \/ /\ rollback[r]["dns"] # "rollback_failed"
              /\ mem[r].caddy # Nobody => caddyFile = mem[r].caddy
              /\ CaddyKept(r)
              /\ ~ Published(r) /\ pc[r] # "pangolin_restore"
    PROVE  InEffect(q)
<1>1. OnLan(q) => dns[Host(q)] = {Address(q)}
  BY DEF Spares, DnsSpares
<1>2. OnLan(q) /\ Route[q].enabled => q \in caddyFile \cap caddyRunning
  BY DEF Spares, CaddySpares
<1>3. OnEdge(q) => Reachable(q)
  BY DEF Spares, PangolinSpares
<1> QED
  BY <1>1, <1>2, <1>3 DEF InEffect

(* The route of a request whose steps were all applied. *)
LEMMA AppliedInEffect ==
    ASSUME TypeInv, NEW r \in Requests, Works(r), status[r] = "applied"
    PROVE  InEffect(r)
<1>r. /\ Host(r) \in Hosts /\ mem[r].routes \in [Hosts -> Requests \cup {Nobody}]
      /\ done[r] = Len(StepsOf(r))
  BY RouteAssumption DEF TypeInv, TypeOK, Locals, Host, Works
<1>1. OnLan(r) => dns[Host(r)] = {Address(r)}
  BY DEF Works, DnsWorks
<1>2. ASSUME OnLan(r), Route[r].enabled PROVE r \in caddyFile \cap caddyRunning
  <2>1. done[r] >= 2
    <3>1. Len(StepsOf(r)) \in 1..3 /\ Len(StepsOf(r)) > 1
      BY <1>2, ModeFacts DEF Compensable
    <3> QED
      BY <3>1, <1>r
  <2>2. caddyFile = ProxyConfig(Desired(r)) /\ caddyRunning = ProxyConfig(Desired(r))
    BY <2>1 DEF Works, CaddyWorks
  <2> QED
    BY <2>2, <1>2, <1>r DEF ProxyConfig, Desired, OnLan
<1>3. OnEdge(r) => Reachable(r)
  BY <1>r DEF Works, PangolinWorks, Published
<1> QED
  BY <1>1, <1>2, <1>3 DEF InEffect

(* What a step could not take back stays on record. *)
LEMMA UncleanStays ==
    ASSUME TypeInv, NEW r \in Requests, Thread(r), NEW p \in {"caddy", "pangolin"}
    PROVE  unclean[p] \subseteq unclean'[p]
<1>r. unclean \in [{"caddy", "pangolin"} -> SUBSET Requests]
  BY DEF TypeInv, TypeOK
<1>1. CASE DnsStep(r)
  BY <1>1
  DEF DnsStep, DnsConflict, DnsAlreadyAnswers, DnsSnapshot, DnsAdd, DnsFails,
      DnsUndoList, DnsUndo, DnsUndoFails, StepApplied, StepFailed, StepUndone, executor
<1>2. CASE CaddyStep(r)
  BY <1>2, <1>r
  DEF CaddyStep, CaddyRead, CaddyInstall, CaddyReload, CaddyFails, CaddyRestore,
      CaddyRestoreFails, CaddyUndo, CaddyUndoReload, CaddyUndoFails, StepApplied,
      StepFailed, StepFailedUnclean, StepUndone, executor
<1>3. CASE PangolinStep(r)
  BY <1>3, <1>r
  DEF PangolinStep, PangolinAmbiguous, PangolinLookup, PangolinPublish, PangolinFails,
      PangolinBreaksNew, PangolinBreaksAdopted, PangolinBreaksGone, PangolinRestore,
      PangolinRestoreFails, StepApplied, StepFailed, StepFailedUnclean, executor
<1>4. CASE HandlerStep(r)
  BY <1>4
  DEF HandlerStep, LoadRoutes, IntegrationMissing, ReturnApplied, ReturnRolledBack,
      Audit, Save, StoreFails, executor
<1> QED
  BY <1>1, <1>2, <1>3, <1>4 DEF Thread

(* No step of a thread makes a route Saved but the save itself. *)
LEMMA DeadStays ==
    ASSUME TypeInv, NEW r \in Requests, Thread(r), NEW h, Undisturbed(h)'
    PROVE  Undisturbed(h)
<1>1. pc[r] # "dead" /\ \A s \in Requests \ {r} : pc'[s] = pc[s]
  BY ThreadIsItsOwn DEF InProgress, Still
<1>2. unclean["caddy"] \cup unclean["pangolin"] \subseteq unclean'["caddy"] \cup unclean'["pangolin"]
  BY UncleanStays
<1> QED
  BY <1>1, <1>2 DEF Undisturbed, Host

LEMMA SavedBefore ==
    ASSUME TypeInv, NEW r \in Requests, Thread(r), UNCHANGED routes,
           NEW q \in Requests, Saved(q)'
    PROVE  Saved(q)
<1>1. Undisturbed(Host(q))'
  BY DEF Saved
<1>2. Undisturbed(Host(q))
  BY <1>1, DeadStays DEF Undisturbed, Host
<1> QED
  BY <1>2, PlansStay DEF Saved

LEMMA SavedRoutes ==
    ASSUME TypeInv, NEW r \in Requests, Thread(r), routes' = [routes EXCEPT ![Host(r)] = r],
           NEW q \in Requests, Saved(q)'
    PROVE  \/ q = r /\ ProviderMutations[r]
           \/ Saved(q) /\ Host(q) # Host(r)
<1>1. /\ routes \in [Hosts -> Requests \cup {Nobody}] /\ Host(r) \in Hosts /\ Host(q) \in Hosts
      /\ routes'[Host(q)] = q /\ ProviderMutations[q]
  BY RouteAssumption, PlansStay DEF TypeInv, TypeOK, Host, Saved
<1>2. Undisturbed(Host(q))'
  BY DEF Saved
<1>3. Undisturbed(Host(q))
  BY <1>2, DeadStays DEF Undisturbed, Host
<1> QED
  BY <1>1, <1>3 DEF Saved

(* What every step of a thread makes of its request and of the saved routes. *)
LiveAfter(r) ==
    /\ InProgress(r) => Works(r)
    /\ pc[r] # "done" => reply[r] = "none"
    /\ NothingToRepair => IF InProgress(r) THEN SparesAll(r) ELSE AllInEffect

LEMMA HandlerLive ==
    ASSUME TypeInv, SavedInv, Alone, NEW r \in Requests, Current(r), Known(r), Works(r),
           Sound => CaddyKnown(r), reply[r] = "none", NothingToRepair => SparesAll(r),
           NothingToRepair' => NothingToRepair, HandlerStep(r)
    PROVE  UNCHANGED resource /\ LiveAfter(r)'
<1>r. /\ TypeOK /\ Control(r) /\ mem \in [Requests -> Locals]
      /\ pc \in [Requests -> Positions] /\ status \in [Requests -> Statuses]
      /\ reply \in [Requests -> Replies]
      /\ done[r] \in 0..3 /\ todo[r] \in 0..3 /\ Len(StepsOf(r)) \in 1..3
      /\ {"dns", "caddy"} \subseteq Providers
  BY StepsFacts DEF TypeInv, TypeOK, ControlOK, Providers
<1>c. UNCHANGED <<dns, caddyFile, caddyRunning, resource, target, done, todo, rollback>>
  BY DEF HandlerStep, LoadRoutes, IntegrationMissing, ReturnApplied, ReturnRolledBack,
         Audit, Save, StoreFails, providers, executor
<1>h. pc[r] \in {"load", "run", "audit", "save"}
  BY DEF HandlerStep, LoadRoutes, IntegrationMissing, ReturnApplied, ReturnRolledBack,
         Audit, Save, StoreFails
<1>k. CaddyKept(r)' => CaddyKept(r)
  <2>1. CASE UNCHANGED status
    BY <2>1, <1>c DEF CaddyKept
  <2>2. CASE ReturnApplied(r) \/ ReturnRolledBack(r)
    BY <2>2, <1>r, <1>c DEF ReturnApplied, ReturnRolledBack, CaddyKept
  <2> QED
    BY <2>1, <2>2
    DEF HandlerStep, LoadRoutes, IntegrationMissing, Audit, Save, StoreFails, executor
<1>i. Thread(r) /\ InProgress(r)
  BY ThreadIsItsOwn DEF Thread
<1>w. DnsWorks(r) /\ CaddyWorks(r) /\ PangolinWorks(r)
  BY DEF Works
<1>n. done[r] = 0 => done[r] # Len(StepsOf(r))
  <2>1. \A n \in 1..3 : n # 0
    OBVIOUS
  <2> QED
    BY <2>1, <1>r
<1> SUFFICES LiveAfter(r)'
  BY <1>c
(* The table on disk stays as it is, and the thread goes on. *)
<1>g. ASSUME UNCHANGED <<routes, reply>>, Works(r)', InProgress(r)',
             pc'[r] \notin {"done", "pangolin_restore"}, mem'[r].dns = mem[r].dns, mem'[r].caddy = mem[r].caddy
      PROVE  LiveAfter(r)'
  <2>1. ASSUME NothingToRepair', NEW q \in Requests, Saved(q)' PROVE Spares(r, q)'
    <3>1. Saved(q)
      BY <2>1, <1>g, <1>i, SavedBefore
    <3> QED
      BY <2>1, <3>1, <1>g, <1>c, <1>h, <1>k, RestsStay DEF SparesAll
  <2> QED
    BY <2>1, <1>g DEF LiveAfter, SparesAll
(* Or it answers, and has put back what it changed. *)
<1>a. ASSUME NEW what \in Replies, Answer(r, what), UNCHANGED routes,
             NothingToRepair' /\ r \notin unclean["caddy"] =>
                /\ rollback[r]["dns"] # "rollback_failed"
                /\ mem[r].caddy # Nobody => caddyFile = mem[r].caddy
                /\ CaddyKept(r) /\ ~ Published(r)
      PROVE  LiveAfter(r)'
  <2>1. pc'[r] = "done" /\ ~ InProgress(r)'
    BY <1>a, <1>r DEF Answer, Goto, InProgress
  <2>2. ASSUME NothingToRepair', NEW q \in Requests, Saved(q)' PROVE InEffect(q)'
    <3>1. Saved(q)
      BY <2>2, <1>a, <1>i, SavedBefore
    <3>2. Host(q) = Host(r) => r \notin unclean["caddy"]
      BY <3>1 DEF Saved, Undisturbed
    <3>3. InEffect(q)
      BY <2>2, <3>1, <3>2, <1>a, <1>h, Released DEF SparesAll
    <3> QED
      BY <3>3, <1>c, RestsStay
  <2> QED
    BY <2>1, <2>2 DEF LiveAfter, AllInEffect
<1>1. CASE LoadRoutes(r)
  <2>1. /\ pc[r] = "load" /\ pc'[r] \in {"run", "save"} /\ UNCHANGED <<routes, reply, status>>
        /\ mem'[r].dns = mem[r].dns /\ mem'[r].caddy = mem[r].caddy
        /\ mem'[r].found = mem[r].found
    BY <1>1, <1>r, OtherLocals DEF LoadRoutes, Goto, disk, executor
  <2>2. /\ mem[r].dns = Nobody /\ mem[r].caddy = Nobody /\ mem[r].found = Nobody
        /\ done[r] = 0 /\ status[r] # "applied"
    BY <2>1, <1>r DEF Known, Control
  <2>3. DnsWorks(r)'
    BY <2>1, <2>2 DEF DnsWorks
  <2>4. CaddyWorks(r)'
    BY <2>1, <2>2, <1>c DEF CaddyWorks
  <2>5. PangolinWorks(r)'
    BY <2>1, <1>c, <1>w, PangolinStays DEF PangolinCalls
  <2>6. Works(r)'
    BY <2>1, <2>2, <2>3, <2>4, <2>5, <1>c DEF Works
  <2> QED
    BY <2>1, <2>6, <1>g DEF InProgress
<1>2. CASE IntegrationMissing(r)
  <2>1. /\ pc[r] = "load" /\ Answer(r, "rejected") /\ UNCHANGED routes
    BY <1>2 DEF IntegrationMissing, disk
  <2>2. /\ mem[r].caddy = Nobody /\ done[r] # Len(StepsOf(r)) /\ done[r] = 0
        /\ status[r] = "running"
    BY <2>1, <1>r, <1>n DEF Known, Reports, Control, Statuses
  <2>3. rollback[r]["dns"] # "rollback_failed" /\ CaddyKept(r)
    BY <2>2, <1>r DEF Known, Reports, CaddyKept
  <2> QED
    BY <2>1, <2>2, <2>3, <1>a, NotPublishedYet DEF Replies
<1>3. CASE ReturnApplied(r)
  <2>1. /\ pc[r] = "run" /\ pc'[r] = "audit" /\ status[r] = "running" /\ status'[r] = "applied"
        /\ done[r] = Len(StepsOf(r)) /\ UNCHANGED <<routes, reply, mem>>
    BY <1>3, <1>r DEF ReturnApplied, Goto, disk
  <2>2. OnLan(r) => dns[Host(r)] = {Address(r)}
    <3>1. SUFFICES ASSUME OnLan(r) PROVE dns[Host(r)] = {Address(r)}
      OBVIOUS
    <3>2. Compensable(r) /\ done[r] > 0
      <4>1. \A n \in 1..3 : n > 0
        OBVIOUS
      <4> QED
        BY <2>1, <3>1, <4>1, ModeFacts
    <3>3. dns[Host(r)] = mem[r].dns \cup {Address(r)}
      BY <2>1, <3>2, <1>i DEF Known, DnsKnown, InForce
    <3>4. mem[r].dns # Nobody
      BY <2>1, <3>2, <1>r DEF Control, Compensable
    <3> QED
      BY <3>3, <3>4, <1>w DEF DnsWorks
  <2>3. DnsWorks(r)'
    BY <2>1, <2>2, <1>c, <1>w, PlansStay DEF DnsWorks
  <2>4. CaddyWorks(r)'
    <3>1. pc'[r] \notin {"caddy_reload", "caddy_undo_reload"} /\ pc[r] \notin CaddyCalls
      BY <2>1 DEF CaddyCalls
    <3> QED
      BY <2>1, <3>1, <1>c, <1>k, <1>w, CaddyStays
  <2>5. PangolinWorks(r)'
    BY <2>1, <1>c, <1>w, PangolinStays DEF PangolinCalls
  <2>6. Works(r)'
    BY <2>1, <2>3, <2>4, <2>5, <1>c, PlansStay DEF Works
  <2> QED
    BY <2>1, <2>6, <1>g DEF InProgress
<1>4. CASE ReturnRolledBack(r)
  <2>1. /\ pc[r] = "run" /\ pc'[r] = "audit" /\ UNCHANGED <<routes, reply, mem>>
        /\ status'[r] \in {"rolled_back", "rollback_failed"}
    BY <1>4, <1>r DEF ReturnRolledBack, Goto, disk
  <2>2. Works(r)'
    BY <2>1, <1>c, <1>k, WorksStays DEF CaddyCalls, PangolinCalls
  <2> QED
    BY <2>1, <2>2, <1>g DEF InProgress
<1>5. CASE Audit(r)
  <2>1. pc[r] = "audit" /\ UNCHANGED <<routes, status>>
    BY <1>5 DEF Audit, executor
  <2>2. CASE Goto(r, "save") /\ UNCHANGED <<mem, reply>>
    <3>1. pc'[r] = "save"
      BY <2>2, <1>r DEF Goto
    <3>2. Works(r)'
      BY <2>1, <2>2, <3>1, <1>c, <1>k, WorksStays DEF CaddyCalls, PangolinCalls
    <3> QED
      BY <2>1, <2>2, <3>1, <3>2, <1>g DEF InProgress
  <2>3. CASE status[r] \in {"rolled_back", "rollback_failed"} /\ Answer(r, "conflict")
    <3>1. ASSUME NothingToRepair', r \notin unclean["caddy"]
          PROVE  /\ rollback[r]["dns"] # "rollback_failed"
                 /\ mem[r].caddy # Nobody => caddyFile = mem[r].caddy
                 /\ CaddyKept(r) /\ ~ Published(r)
      <4>1. status[r] = "rolled_back" /\ CaddyKnown(r)
        <5>1. status[r] = "rolled_back"
          BY <2>3, <3>1 DEF NothingToRepair
        <5>2. \A s \in Requests : InProgress(s) => s = r
          BY <1>i DEF Alone
        <5>3. \A p \in Providers : rollback[r][p] # "rollback_failed"
          BY <5>1, <1>r DEF Known, Reports
        <5> QED
          BY <3>1, <5>1, <5>2, <5>3 DEF Sound, NothingToRepair
      <4>2. /\ done[r] < Len(StepsOf(r)) /\ todo[r] = 0
            /\ rollback[r]["dns"] # "rollback_failed" /\ rollback[r]["caddy"] # "rollback_failed"
        BY <4>1, <1>r DEF Known, Reports
      <4>3. (mem[r].caddy # Nobody => caddyFile = mem[r].caddy) /\ CaddyKept(r)
        BY <3>1, <4>1, <4>2 DEF CaddyKnown, CaddyKept
      <4>4. done[r] # Len(StepsOf(r))
        BY <4>2, <1>r
      <4> QED
        BY <4>2, <4>3, <4>4, NotPublishedYet
    <3> QED
      BY <2>1, <2>3, <3>1, <1>a DEF Replies
  <2>4. CASE ~ ProviderMutations[r] /\ Answer(r, "saved")
    <3>1. status[r] = "running" /\ done[r] = 0
      BY <2>1, <2>4 DEF Current, Works
    <3>2. mem[r].caddy = Nobody /\ done[r] # Len(StepsOf(r))
      BY <2>1, <3>1, <1>w, <1>n DEF CaddyWorks, CaddyCalls
    <3>3. rollback[r]["dns"] # "rollback_failed" /\ CaddyKept(r)
      BY <3>1, <1>r DEF Known, Reports, CaddyKept
    <3> QED
      BY <2>1, <2>4, <3>2, <3>3, <1>a, NotPublishedYet DEF Replies
  <2> QED
    BY <1>5, <2>2, <2>3, <2>4 DEF Audit
<1>6. CASE Save(r)
  <2>1. /\ pc[r] = "save" /\ UNCHANGED status
        /\ routes' = [routes EXCEPT ![Host(r)] = r]
    BY <1>6 DEF Save, Desired, Current, Holds, executor
  <2>2. CASE ProviderMutations[r] /\ Answer(r, "applied")
    <3>1. status[r] = "applied"
      BY <2>1, <2>2 DEF SavedInv
    <3>2. InEffect(r)
      BY <3>1, AppliedInEffect
    <3>3. pc'[r] = "done" /\ ~ InProgress(r)'
      BY <2>2, <1>r DEF Answer, Goto, InProgress
    <3>4. ASSUME NothingToRepair', NEW q \in Requests, Saved(q)' PROVE InEffect(q)'
      <4>1. q = r \/ (Saved(q) /\ Host(q) # Host(r))
        BY <2>1, <3>4, <1>i, SavedRoutes
      <4>2. InEffect(q)
        BY <3>2, <3>4, <4>1, Released DEF SparesAll
      <4> QED
        BY <4>2, <1>c, RestsStay
    <3> QED
      BY <3>3, <3>4 DEF LiveAfter, AllInEffect
  <2>3. CASE ~ ProviderMutations[r] /\ Goto(r, "audit") /\ UNCHANGED <<mem, reply>>
    <3>1. pc'[r] = "audit"
      BY <2>3, <1>r DEF Goto
    <3>2. Works(r)'
      BY <2>1, <2>3, <3>1, <1>c, <1>k, WorksStays DEF CaddyCalls, PangolinCalls
    <3>3. ASSUME NothingToRepair', NEW q \in Requests, Saved(q)' PROVE Spares(r, q)'
      <4>1. Saved(q)
        BY <2>1, <2>3, <3>3, <1>i, SavedRoutes
      <4> QED
        BY <2>1, <2>3, <3>1, <3>3, <4>1, <1>c, <1>k, RestsStay DEF SparesAll
    <3> QED
      BY <2>3, <3>1, <3>2, <3>3 DEF LiveAfter, SparesAll, InProgress
  <2> QED
    BY <1>6, <2>2, <2>3 DEF Save
<1>7. CASE StoreFails(r)
  <2>1. pc'[r] = "done" /\ reply'[r] = "error"
    BY <1>7, <1>r DEF StoreFails, Answer, Goto
  <2>2. ~ InProgress(r)' /\ ~ NothingToRepair'
    BY <2>1 DEF InProgress, NothingToRepair
  <2> QED
    BY <2>1, <2>2 DEF LiveAfter
<1> QED
  BY <1>1, <1>2, <1>3, <1>4, <1>5, <1>6, <1>7, <1>c DEF HandlerStep

(* What needs repair stays on record. *)
LEMMA RepairStays ==
    ASSUME TypeInv, NEW r \in Requests, Known(r), reply[r] = "none", Thread(r),
           NothingToRepair'
    PROVE  NothingToRepair
<1>r. /\ Control(r) /\ status \in [Requests -> Statuses]
  BY DEF TypeInv, TypeOK, ControlOK
<1>1. \A s \in Requests \ {r} : status[s] # "rollback_failed" /\ reply[s] # "error"
  BY ThreadIsItsOwn DEF Still, NothingToRepair
<1>2. status[r] # "rollback_failed"
  <2>1. CASE DnsStep(r) \/ CaddyStep(r) \/ PangolinStep(r)
    BY <2>1, DnsMoves, CaddyMoves, PangolinMoves
  <2>2. CASE ReturnApplied(r) \/ ReturnRolledBack(r)
    BY <2>2 DEF ReturnApplied, ReturnRolledBack
  <2>3. CASE LoadRoutes(r) \/ IntegrationMissing(r) \/ Audit(r) \/ Save(r) \/ StoreFails(r)
    BY <2>3 DEF LoadRoutes, IntegrationMissing, Audit, Save, StoreFails, executor,
                NothingToRepair
  <2> QED
    BY <2>1, <2>2, <2>3 DEF Thread, HandlerStep
<1> QED
  BY <1>1, <1>2 DEF NothingToRepair

LEMMA ThreadLive ==
    ASSUME TypeInv, SavedInv, KeepInv, SoloInv, LiveInv, ~ HiddenFaults,
           NEW r \in Requests, Thread(r)
    PROVE  Placed' /\ LiveAfter(r)'
<1>r. /\ Known(r) /\ Current(r) /\ Alone /\ Placed /\ (Sound => CaddyKnown(r))
      /\ InProgress(r) /\ pc[r] # "done" /\ Works(r) /\ reply[r] = "none"
      /\ NothingToRepair => SparesAll(r)
  BY ThreadIsItsOwn DEF KeepInv, SoloInv, LiveInv, InProgress
<1>1. NothingToRepair' => NothingToRepair
  BY <1>r, RepairStays
<1>p. UNCHANGED resource => Placed'
  BY <1>r DEF Placed, Host
<1>2. CASE DnsStep(r) \/ CaddyStep(r) \/ PangolinStep(r)
  <2>1. /\ Works(r)' /\ Placed'
        /\ \A q \in Requests : Saved(q) /\ Saved(q)' /\ Spares(r, q) => Spares(r, q)'
    <3>1. CASE DnsStep(r)
      BY <3>1, <1>r, <1>p, DnsLive
    <3>2. CASE CaddyStep(r)
      BY <3>2, <1>r, <1>p, CaddyLive
    <3>3. CASE PangolinStep(r)
      BY <3>3, <1>r, PangolinLive
    <3> QED
      BY <1>2, <3>1, <3>2, <3>3
  <2>2. InProgress(r)' /\ UNCHANGED <<reply, routes>>
    <3>1. UNCHANGED <<reply, routes>>
      BY <1>2, <1>r, DnsMoves, CaddyMoves, PangolinMoves, StepKeepsLists DEF KeepsLists
    <3>2. CASE DnsStep(r)
      <4>1. pc'[r] \in {"run", "dns_add", "dns_undo"}
        BY <3>2, <1>r, DnsMoves
      <4> QED
        BY <3>1, <4>1 DEF InProgress
    <3>3. CASE CaddyStep(r)
      <4>1. pc'[r] \in CaddyCalls \cup {"run", "caddy_undo_reload"}
        BY <3>3, CaddyMoves
      <4> QED
        BY <3>1, <4>1 DEF InProgress, CaddyCalls
    <3>4. CASE PangolinStep(r)
      <4>1. pc'[r] \in {"run", "pangolin_publish", "pangolin_restore"}
        BY <3>4, PangolinMoves
      <4> QED
        BY <3>1, <4>1 DEF InProgress
    <3> QED
      BY <1>2, <3>2, <3>3, <3>4
  <2>3. ASSUME NothingToRepair', NEW q \in Requests, Saved(q)' PROVE Spares(r, q)'
    <3>1. Saved(q)
      BY <2>2, <2>3, SavedBefore
    <3> QED
      BY <2>1, <2>3, <3>1, <1>1, <1>r DEF SparesAll
  <2>4. reply'[r] = "none"
    BY <2>2, <1>r
  <2> QED
    BY <2>1, <2>2, <2>3, <2>4 DEF LiveAfter, SparesAll
<1>3. CASE HandlerStep(r)
  BY <1>3, <1>r, <1>1, <1>p, HandlerLive
<1> QED
  BY <1>2, <1>3 DEF Thread

LEMMA NextLiveInv ==
    ASSUME MaxInFlight = 1, ~ HiddenFaults, TypeInv, SavedInv, KeepInv, SoloInv,
           LiveInv, [Next]_vars
    PROVE  LiveInv'
<1>r. pc \in [Requests -> Positions] /\ Alone
  BY DEF TypeInv, TypeOK, SoloInv
<1>1. ASSUME NEW r \in Requests, Thread(r) PROVE LiveInv'
  <2>1. Placed' /\ LiveAfter(r)'
    BY <1>1, ThreadLive
  <2>2. \A s \in Requests \ {r} : Still(s) /\ ~ InProgress(s)'
    BY <1>1, <1>r, OthersIdle
  <2>3. \A s \in Requests : pc'[s] # "done" => reply'[s] = "none"
    BY <2>1, <2>2 DEF LiveAfter, LiveInv, Still
  <2>4. \A s \in Requests : InProgress(s)' => Works(s)'
    BY <2>1, <2>2 DEF LiveAfter
  <2>5. ASSUME NothingToRepair'
        PROVE  /\ \A s \in Requests : InProgress(s)' => SparesAll(s)'
               /\ Quiet' => AllInEffect'
    <3>1. IF InProgress(r)' THEN SparesAll(r)' ELSE AllInEffect'
      BY <2>1, <2>5 DEF LiveAfter
    <3> QED
      BY <2>2, <3>1 DEF Quiet
  <2> QED
    BY <2>1, <2>3, <2>4, <2>5 DEF LiveInv
<1>2. ASSUME NEW r \in Requests, Start(r) PROVE LiveInv'
  <2>1. /\ UNCHANGED <<routes, dns, caddyFile, caddyRunning, resource, target, status, done,
                       rollback, unclean, mem, reply>>
        /\ pc[r] = "ready" /\ pc'[r] = "load"
        /\ \A s \in Requests \ {r} : pc'[s] = pc[s]
    BY <1>2, <1>r DEF Start, Goto, disk, providers, executor
  <2>2. \A s \in Requests : ~ InProgress(s)
    BY <1>2, <1>r, StartsAlone
  <2>3. /\ mem[r].dns = Nobody /\ mem[r].caddy = Nobody /\ mem[r].found = Nobody
        /\ done[r] = 0 /\ status[r] # "applied" /\ reply[r] = "none"
    <3>1. Known(r) /\ Control(r)
      BY DEF SoloInv, TypeInv, ControlOK
    <3> QED
      BY <2>1, <3>1 DEF Known, Control, LiveInv
  <2>4. done[r] # Len(StepsOf(r)) /\ done'[r] # Len(StepsOf(r))
    <3>1. \A n \in 1..3 : n # 0
      OBVIOUS
    <3> QED
      BY <2>1, <2>3, <3>1, ModeFacts
  <2>5. Works(r)'
    <3>1. DnsWorks(r)'
      BY <2>1, <2>3 DEF DnsWorks
    <3>2. CaddyWorks(r)'
      BY <2>1, <2>3 DEF CaddyWorks, CaddyCalls
    <3>3. PangolinWorks(r)'
      BY <2>1, <2>3, <2>4, PlansStay DEF PangolinWorks, PangolinCalls, Published
    <3> QED
      BY <2>1, <2>3, <3>1, <3>2, <3>3 DEF Works
  <2>e. \A q \in Requests : Reachable(q) => Reachable(q)'
    BY <2>1 DEF Reachable
  <2>6. ASSUME NothingToRepair' PROVE SparesAll(r)'
    <3> SUFFICES ASSUME NEW q \in Requests, Saved(q)' PROVE Spares(r, q)'
      BY DEF SparesAll
    <3>1. Saved(q)
      <4>1. Undisturbed(Host(q))'
        BY DEF Saved
      <4>2. Undisturbed(Host(q))
        BY <2>1, <4>1 DEF Undisturbed, Host
      <4> QED
        BY <2>1, <4>2, PlansStay DEF Saved
    <3>2. NothingToRepair
      BY <2>1, <2>6 DEF NothingToRepair
    <3>3. InEffect(q)
      BY <2>2, <3>1, <3>2 DEF LiveInv, AllInEffect, Quiet
    <3>4. DnsSpares(r, q)' /\ CaddySpares(r, q)'
      BY <2>1, <2>3, <3>3, PlansStay DEF InEffect, DnsSpares, CaddySpares
    <3>5. PangolinSpares(r, q)'
      BY <2>1, <2>e, <3>3, PlansStay DEF InEffect, PangolinSpares
    <3> QED
      BY <3>4, <3>5 DEF Spares
  <2>7. \A s \in Requests \ {r} : ~ InProgress(s)'
    BY <2>1, <2>2 DEF InProgress
  <2>8. ~ Quiet' /\ Placed' /\ \A s \in Requests : pc'[s] # "done" => reply'[s] = "none"
    BY <2>1, <2>3 DEF Quiet, InProgress, LiveInv, Placed, Host
  <2> QED
    BY <2>5, <2>6, <2>7, <2>8 DEF LiveInv
(* Those who were in progress are dead, and so is the route they were editing;
   what they had done to other hostnames they had spared. *)
<1>3. CASE Crash
  <2>1. /\ UNCHANGED <<routes, dns, caddyFile, resource, target, status, unclean, reply>>
        /\ caddyRunning' = caddyFile
        /\ \A s \in Requests : pc'[s] = IF InProgress(s) THEN "dead" ELSE pc[s]
    BY <1>3 DEF Crash, disk, executor
  <2>2. PICK r \in Requests : InProgress(r)
    BY <1>3 DEF Crash
  <2>3. \A s \in Requests : ~ InProgress(s)' /\ (pc'[s] # "done" => reply'[s] = "none")
    BY <2>1 DEF InProgress, LiveInv
  <2>4. ASSUME NothingToRepair', NEW q \in Requests, Saved(q)' PROVE InEffect(q)'
    <3>1. Undisturbed(Host(q))'
      BY <2>4 DEF Saved
    <3>2. Undisturbed(Host(q)) /\ Host(q) # Host(r)
      BY <2>1, <2>2, <3>1 DEF Undisturbed, Host, InProgress
    <3>3. Saved(q)
      BY <2>1, <2>4, <3>2, PlansStay DEF Saved
    <3>4. Spares(r, q)
      BY <2>1, <2>2, <2>4, <3>3 DEF LiveInv, SparesAll, NothingToRepair
    <3>5. InEffect(q)
      BY <3>2, <3>4, Released
    <3>6. OnEdge(q) => Reachable(q)'
      BY <2>1, <3>5 DEF InEffect, Reachable
    <3>7. /\ OnLan(q) => dns'[Host(q)] = {Address(q)}
          /\ OnLan(q) /\ Route[q].enabled => q \in caddyFile' \cap caddyRunning'
      BY <2>1, <3>5 DEF InEffect
    <3> QED
      BY <3>6, <3>7, PlansStay DEF InEffect
  <2>5. Placed'
    BY <2>1 DEF LiveInv, Placed, Host
  <2> QED
    BY <2>3, <2>4, <2>5 DEF LiveInv, AllInEffect
<1>4. CASE UNCHANGED vars
  <2>1. UNCHANGED <<routes, dns, caddyFile, caddyRunning, resource, target, status, done,
                    todo, rollback, unclean, mem, reply, pc>>
    BY <1>4 DEF vars, disk, providers, executor
  <2>k. \A s \in Requests : CaddyKept(s)' <=> CaddyKept(s)
    BY <2>1 DEF CaddyKept
  <2>2. ASSUME NEW s \in Requests, Works(s) PROVE Works(s)'
    <3>1. DnsWorks(s)'
      BY <2>1, <2>2, PlansStay DEF Works, DnsWorks
    <3>2. CaddyWorks(s)'
      <4>1. ProxyConfig(Desired(s))' = ProxyConfig(Desired(s))
        BY <2>1 DEF ProxyConfig, Desired, Host
      <4> QED
        BY <2>1, <2>2, <4>1 DEF Works, CaddyWorks, CaddyCalls
    <3>3. PangolinWorks(s)'
      <4>1. /\ Matching(Host(s))' = Matching(Host(s))
            /\ Published(s)' <=> Published(s)
            /\ Reachable(s)' <=> Reachable(s)
            /\ PublishedAs(s)' = PublishedAs(s)
        BY <2>1, PlansStay DEF Matching, Published, Reachable, PublishedAs, Host
      <4> QED
        BY <2>1, <2>2, <4>1, PlansStay DEF Works, PangolinWorks, PangolinCalls, Host
    <3> QED
      BY <2>1, <2>2, <3>1, <3>2, <3>3, PlansStay DEF Works
  <2>3. /\ NothingToRepair' <=> NothingToRepair
        /\ Quiet' <=> Quiet
        /\ \A s \in Requests : InProgress(s)' <=> InProgress(s)
        /\ \A q \in Requests : Saved(q)' <=> Saved(q)
    BY <2>1 DEF NothingToRepair, Quiet, InProgress, Saved, Undisturbed, Host
  <2>4. /\ Placed'
        /\ \A q \in Requests : InEffect(q) => InEffect(q)'
        /\ \A s, q \in Requests : Spares(s, q) => Spares(s, q)'
    BY <2>1, <2>k, RestsStay DEF LiveInv
  <2>5. AllInEffect => AllInEffect'
    BY <2>3, <2>4 DEF AllInEffect
  <2>6. \A s \in Requests : SparesAll(s) => SparesAll(s)'
    BY <2>3, <2>4 DEF SparesAll
  <2> QED
    BY <2>1, <2>2, <2>3, <2>4, <2>5, <2>6 DEF LiveInv
<1> QED
  BY <1>1, <1>2, <1>3, <1>4 DEF Next

(* When requests come one at a time and a call that raises did nothing, every
   saved route that was applied is in effect between requests: whatever the
   later ones did to the shared configuration of Caddy or rolled back, on the
   same hostname or another, and wherever the container stopped in those for
   other hostnames, as long as the service reports nothing to repair. *)
THEOREM LiveCorrectness ==
    MaxInFlight = 1 /\ ~ HiddenFaults /\ SafeSpec => []SavedRouteIsLive
<1> SUFFICES ASSUME MaxInFlight = 1, ~ HiddenFaults
             PROVE  SafeSpec => []SavedRouteIsLive
  OBVIOUS
<1>1. TypeInv /\ SoloInv /\ LiveInv => SavedRouteIsLive
  <2> SUFFICES ASSUME TypeInv, SoloInv, LiveInv, Quiet, NothingToRepair,
                      NEW r \in Requests, routes[Host(r)] = r, ProviderMutations[r],
                      Undisturbed(Host(r))
               PROVE  /\ Route[r].mode \in LanModes =>
                            /\ Address(r) \in dns[Host(r)]
                            /\ Route[r].enabled => r \in caddyRunning
                      /\ Route[r].mode \in RemoteModes =>
                            \E c \in Requests : resource[c] = r /\ target[c] = r
    BY DEF SavedRouteIsLive
  <2>1. InEffect(r)
    BY DEF LiveInv, AllInEffect, Saved
  <2> QED
    BY <2>1 DEF InEffect, Reachable, OnLan, OnEdge
<1>2. TypeInv /\ SavedInv /\ KeepInv /\ SoloInv /\ LiveInv /\ [Next]_vars => LiveInv'
  BY NextLiveInv
<1>3. TypeInv /\ KeepInv /\ [Next]_vars => KeepInv'
  BY NextKeepInv
<1>4. TypeInv /\ SoloInv /\ [Next]_vars => SoloInv'
  BY NextSoloInv
<1> QED
  BY InitTypeInv, NextTypeInv, InitSavedInv, NextSavedInv, InitKeepInv, InitSoloInv,
     InitLiveInv, <1>1, <1>2, <1>3, <1>4, PTL DEF SafeSpec


-----------------------------------------------------------------------------
(* What the providers hold of a settled route, and what an audit makes of it. *)
Shown(r) ==
    /\ OnLan(r) => dns[Host(r)] = {Address(r)} /\ Proxied(Host(r)) = {r}
    /\ OnEdge(r) => \E c \in Publishing(r) : Matching(Host(r)) = {c}

LEMMA SettledInEffect ==
    ASSUME SoloInv, LiveInv, NEW r \in Requests, Settled(r) PROVE InEffect(r)
<1>1. Saved(r) /\ NothingToRepair
  BY DEF Settled, Saved
<1>2. CASE Quiet
  BY <1>1, <1>2 DEF LiveInv, AllInEffect
<1>3. CASE ~ Quiet
  <2>1. PICK s \in Requests : InProgress(s)
    BY <1>3 DEF Quiet
  <2>2. Host(s) # Host(r)
    BY <2>1 DEF Settled
  <2>3. Spares(s, r)
    BY <1>1, <2>1 DEF LiveInv, SparesAll
  <2> QED
    BY <2>2, <2>3, Released
<1> QED
  BY <1>2, <1>3

LEMMA SettledShown ==
    ASSUME TypeInv, ProxyInv, SoloInv, LiveInv, NEW r \in Requests, Settled(r)
    PROVE  Shown(r)
<1>1. InEffect(r) /\ Route[r].enabled
  BY SettledInEffect DEF Settled
<1>2. OnLan(r) => Proxied(Host(r)) = {r}
  BY <1>1 DEF InEffect, Proxied, ProxyInv, OnePerHost
<1>3. ASSUME OnEdge(r) PROVE \E c \in Publishing(r) : Matching(Host(r)) = {c}
  <2>1. PICK c \in Requests : resource[c] = r /\ target[c] = r
    BY <1>1, <1>3 DEF InEffect, Reachable
  <2>2. Host(c) = Host(r) /\ r # Nobody
    BY <2>1, NobodyAssumption DEF LiveInv, Placed
  <2>3. Matching(Host(r)) = {c}
    BY <2>1, <2>2 DEF LiveInv, Placed, Matching
  <2> QED
    BY <2>1, <2>3 DEF Publishing
<1> QED
  BY <1>1, <1>2, <1>3 DEF InEffect, Shown

LEMMA OneGoodEntry ==
    ASSUME NEW good, NEW x \in good PROVE Verdict({x}, good) = "healthy"
<1>1. Cardinality({x}) = 1 /\ {x} # {}
  BY FS_Singleton
<1> QED
  BY <1>1 DEF Verdict

(* Each provider's finding about a route that is shown. *)
LEMMA FindingsBlame ==
    ASSUME NEW r \in Requests, Shown(r), Route[r].enabled, NEW e \in Surroundings,
           NEW f \in Findings(r, e)
    PROVE  f.status = "healthy" \/ f.provider \in Culprits(e)
<1>e. /\ e.dns \in {"technitium", "rewrites", "unreachable", "login fails", "absent"}
      /\ e.pangolin \in {"reachable", "unreachable", "deleted"}
      /\ e.upstream \in {"passes", "fails"} /\ e.target \in {"healthy", "unhealthy"}
      /\ e.source \in {"none", "uninspected", "gone", "stopped", "unpublished", "running"}
  BY DEF Surroundings
<1>1. CASE f = [provider |-> "manager", status |-> "broken"] /\ e.dns = "unreachable"
  BY <1>1 DEF Culprits
<1>2. CASE f = [provider |-> "upstream", status |-> UpstreamStatus(e)]
  BY <1>2, <1>e DEF Culprits, UpstreamStatus
<1>3. CASE f = [provider |-> "unraid", status |-> SourceStatus(e)] /\ e.source # "none"
  BY <1>3, <1>e DEF Culprits, SourceStatus
<1>4. CASE f = [provider |-> "dns", status |-> DnsStatus(r, e)] /\ OnLan(r)
  <2>1. CASE e.dns = "absent"
    BY <1>4, <2>1 DEF Culprits
  <2>2. CASE e.dns # "absent"
    <3>1. dns[Host(r)] = {Address(r)} /\ dns[Host(r)] # {}
      BY <1>4 DEF Shown
    <3>2. DnsStatus(r, e) = Verdict({Address(r)}, {Address(r)})
      BY <2>2, <3>1 DEF DnsStatus
    <3> QED
      BY <1>4, <3>2, OneGoodEntry
  <2> QED
    BY <2>1, <2>2
<1>5. CASE f = [provider |-> "caddy", status |-> CaddyStatus(r)] /\ OnLan(r)
  BY <1>5, OneGoodEntry DEF Shown, CaddyStatus
<1>6. CASE f = [provider |-> "pangolin", status |-> PangolinStatus(r, e)] /\ OnEdge(r)
  <2>1. CASE e.pangolin # "reachable" \/ e.target = "unhealthy"
    BY <1>6, <2>1 DEF Culprits
  <2>2. CASE e.pangolin = "reachable" /\ e.target = "healthy"
    <3>1. PICK c \in Publishing(r) : Matching(Host(r)) = {c}
      BY <1>6 DEF Shown
    <3>2. Verdict(Matching(Host(r)), Publishing(r)) = "healthy"
      BY <3>1, OneGoodEntry
    <3>3. PangolinStatus(r, e) = "healthy"
      BY <2>2, <3>2 DEF PangolinStatus
    <3> QED
      BY <1>6, <3>3
  <2> QED
    BY <1>e, <2>1, <2>2
<1> QED
  BY <1>1, <1>2, <1>3, <1>4, <1>5, <1>6 DEF Findings, OnLan, OnEdge

(* The worst of findings that are all healthy. *)
LEMMA HealthyReport ==
    ASSUME NEW findings, findings # {}, \A f \in findings : f.status = "healthy"
    PROVE  Status(findings) = "healthy"
<1> DEFINE Worst(f) == \A g \in findings : Severity(g.status) <= Severity(f.status)
<1>1. \A f \in findings : Worst(f)
  BY DEF Severity
<1>2. (CHOOSE f \in findings : Worst(f)) \in findings
  BY <1>1
<1>3. Status(findings) = (CHOOSE f \in findings : Worst(f)).status
  BY DEF Status
<1> QED
  BY <1>2, <1>3

(* When requests come one at a time and a call that raises did nothing: an
   audit of a route that was applied and left alone blames only what is at fault
   outside the providers, also while the transactions and rollbacks of other
   hostnames run or after a restart cut them off; it reports nothing at all only
   when the login to a DNS server raises. *)
THEOREM AuditCorrectness ==
    MaxInFlight = 1 /\ ~ HiddenFaults /\ SafeSpec =>
        []SettledRouteAuditsHealthy
<1> SUFFICES ASSUME MaxInFlight = 1, ~ HiddenFaults
             PROVE  SafeSpec => []SettledRouteAuditsHealthy
  OBVIOUS
<1>1. TypeInv /\ ProxyInv /\ SoloInv /\ LiveInv => SettledRouteAuditsHealthy
  <2> SUFFICES ASSUME TypeInv, ProxyInv, SoloInv, LiveInv, NEW r \in Requests, Settled(r),
                      NEW e \in Surroundings
               PROVE  /\ {f.provider : f \in {g \in Findings(r, e) : g.status # "healthy"}}
                            \subseteq Culprits(e)
                      /\ Findings(r, e) = {} => "manager" \in Culprits(e)
                      /\ Culprits(e) = {} => Status(Findings(r, e)) = "healthy"
    BY DEF SettledRouteAuditsHealthy
  <2>1. \A f \in Findings(r, e) : f.status = "healthy" \/ f.provider \in Culprits(e)
    BY SettledShown, FindingsBlame DEF Settled
  <2>2. Findings(r, e) = {} => "manager" \in Culprits(e)
    <3>1. e.dns # "login fails" => Findings(r, e) # {}
      BY DEF Findings
    <3> QED
      BY <3>1 DEF Culprits
  <2>3. Culprits(e) = {} => Status(Findings(r, e)) = "healthy"
    BY <2>1, <2>2, HealthyReport
  <2> QED
    BY <2>1, <2>2, <2>3
<1>2. TypeInv /\ SavedInv /\ KeepInv /\ SoloInv /\ LiveInv /\ [Next]_vars => LiveInv'
  BY NextLiveInv
<1>3. TypeInv /\ KeepInv /\ [Next]_vars => KeepInv'
  BY NextKeepInv
<1>4. TypeInv /\ SoloInv /\ [Next]_vars => SoloInv'
  BY NextSoloInv
<1> QED
  BY InitTypeInv, NextTypeInv, InitSavedInv, NextSavedInv, InitKeepInv, InitSoloInv,
     InitProxyInv, NextProxyInv, InitLiveInv, <1>1, <1>2, <1>3, <1>4, PTL DEF SafeSpec

-----------------------------------------------------------------------------
(* No hostname gets a second answer. *)
SingleInv == \A h \in Hosts : \A a, b \in dns[h] : a = b

LEMMA InitSingleInv == (\A A \in InitialAnswers : \A a, b \in A : a = b) /\ Init => SingleInv
  BY DEF Init, SingleInv

(* An add makes the address of the plan the only answer, a rollback brings the
   answers back that were found or keeps some of them. *)
LEMMA DnsStepSingle ==
    ASSUME TypeInv, NEW r \in Requests, Known(r), DnsWorks(r), DnsStep(r), SingleInv
    PROVE  SingleInv'
<1>r. /\ Control(r) /\ mem \in [Requests -> Locals] /\ dns \in [Hosts -> SUBSET Addresses]
      /\ Host(r) \in Hosts
  BY RouteAssumption DEF TypeInv, TypeOK, ControlOK, Host
<1>i. DnsKnown(r)
  BY ThreadIsItsOwn DEF Thread, Known
<1>o. ASSUME NEW A, dns' = [dns EXCEPT ![Host(r)] = A],
             A \subseteq dns[Host(r)] \/ A \subseteq {Address(r)}
      PROVE  SingleInv'
  BY <1>o, <1>r DEF SingleInv
<1>1. CASE UNCHANGED dns
  BY <1>1 DEF SingleInv
<1>2. CASE DnsAdd(r)
  <2>1. pc[r] = "dns_add" /\ dns[Host(r)] = mem[r].dns /\ mem[r].dns # Nobody
    BY <1>2, <1>r, <1>i DEF DnsAdd, Control, DnsKnown
  <2>2. dns[Host(r)] \cup {Address(r)} \subseteq {Address(r)}
    BY <2>1 DEF DnsWorks
  <2> QED
    BY <1>2, <2>2, <1>o DEF DnsAdd
<1>3. ASSUME pc[r] = "dns_undo"
      PROVE  /\ mem[r].seen = dns[Host(r)] /\ mem[r].dns \subseteq {Address(r)}
             /\ \A gone \in SUBSET Stale(r), back \in SUBSET Lost(r) :
                   (back # {} => gone = Stale(r)) =>
                      LET A == (dns[Host(r)] \ gone) \cup back
                      IN  A \subseteq dns[Host(r)] \/ A \subseteq {Address(r)}
  <2>1. mem[r].seen = dns[Host(r)] /\ mem[r].dns \subseteq {Address(r)}
    BY <1>3, <1>r, <1>i DEF DnsKnown, DnsWorks, Control
  <2>2. ASSUME NEW gone \in SUBSET Stale(r), NEW back \in SUBSET Lost(r),
               back # {} => gone = Stale(r)
        PROVE  LET A == (dns[Host(r)] \ gone) \cup back
               IN  A \subseteq dns[Host(r)] \/ A \subseteq {Address(r)}
    <3>1. CASE back = {}
      BY <3>1
    <3>2. CASE back # {}
      <4>1. gone = Stale(r)
        BY <2>2, <3>2
      <4>2. dns[Host(r)] \ gone \subseteq mem[r].dns /\ back \subseteq mem[r].dns
        BY <2>1, <4>1 DEF Stale, Lost
      <4> QED
        BY <2>1, <4>2
    <3> QED
      BY <3>1, <3>2
  <2> QED
    BY <2>1, <2>2
<1>4. CASE DnsUndo(r)
  <2>1. pc[r] = "dns_undo" /\ dns' = [dns EXCEPT ![Host(r)] = Restored(r)]
    BY <1>4 DEF DnsUndo
  <2>2. Restored(r) \subseteq dns[Host(r)] \/ Restored(r) \subseteq {Address(r)}
    BY <1>3, <2>1 DEF Restored
  <2> QED
    BY <2>1, <2>2, <1>o
<1>5. CASE DnsUndoFails(r) /\ ~ UNCHANGED dns
  <2>1. PICK gone \in SUBSET Stale(r), back \in SUBSET Lost(r) :
           /\ back # {} => gone = Stale(r)
           /\ dns' = [dns EXCEPT ![Host(r)] = (@ \ gone) \cup back]
    BY <1>5 DEF DnsUndoFails
  <2>2. pc[r] = "dns_undo"
    BY <1>5 DEF DnsUndoFails
  <2> DEFINE A == (dns[Host(r)] \ gone) \cup back
  <2>3. A \subseteq dns[Host(r)] \/ A \subseteq {Address(r)}
    BY <1>3, <2>1, <2>2
  <2> QED
    BY <2>1, <2>3, <1>o
<1>6. CASE DnsFails(r) /\ ~ UNCHANGED dns
  <2>1. pc[r] = "dns_add" /\ dns' = [dns EXCEPT ![Host(r)] = @ \cup {Address(r)}]
    BY <1>6 DEF DnsFails
  <2>2. dns[Host(r)] = mem[r].dns /\ mem[r].dns # Nobody
    BY <2>1, <1>r, <1>i DEF Control, DnsKnown
  <2>3. dns[Host(r)] \cup {Address(r)} \subseteq {Address(r)}
    BY <2>2 DEF DnsWorks
  <2> QED
    BY <2>1, <2>3, <1>o
<1> QED
  BY <1>1, <1>2, <1>4, <1>5, <1>6
  DEF DnsStep, DnsConflict, DnsAlreadyAnswers, DnsSnapshot, DnsUndoList, providers

LEMMA NextSingleInv ==
    ASSUME TypeInv, SoloInv, LiveInv, SingleInv, [Next]_vars PROVE SingleInv'
<1>1. ASSUME NEW r \in Requests, DnsStep(r) PROVE SingleInv'
  <2>1. InProgress(r)
    BY <1>1, ThreadIsItsOwn DEF Thread
  <2>2. Known(r) /\ DnsWorks(r)
    BY <2>1 DEF SoloInv, LiveInv, Works
  <2> QED
    BY <1>1, <2>2, DnsStepSingle
<1>2. CASE UNCHANGED dns
  BY <1>2 DEF SingleInv
<1>3. ASSUME NEW r \in Requests, CaddyStep(r) \/ PangolinStep(r) \/ HandlerStep(r) \/ Start(r)
      PROVE  UNCHANGED dns
  <2>1. CASE CaddyStep(r) \/ PangolinStep(r)
    BY <2>1, CaddyMoves, PangolinMoves
  <2>2. CASE HandlerStep(r) \/ Start(r)
    BY <2>2 DEF HandlerStep, LoadRoutes, IntegrationMissing, ReturnApplied, ReturnRolledBack,
                Audit, Save, StoreFails, Start, providers
  <2> QED
    BY <1>3, <2>1, <2>2
<1>4. Crash \/ UNCHANGED vars => UNCHANGED dns
  BY DEF Crash, vars, providers
<1> QED
  BY <1>1, <1>2, <1>3, <1>4 DEF Next, Thread

LEMMA OneMember ==
    ASSUME NEW S, S # {}, \A a, b \in S : a = b PROVE Cardinality(S) = 1
<1>1. PICK x \in S : TRUE
  OBVIOUS
<1>2. S = {x}
  BY <1>1
<1> QED
  BY <1>2, FS_Singleton

LEMMA OneEntryEach ==
    ASSUME TypeInv, ProxyInv, Placed, SingleInv, NEW h \in Hosts, NEW role \in Present(h)
    PROVE  Cardinality(Entries(h)[role]) = 1
<1>1. role \in {"vps_edge", "dns", "lan_proxy"} /\ Entries(h)[role] # {}
  BY DEF Present
<1>2. \A a, b \in Entries(h)[role] : a = b
  <2>1. \A c, d \in Matching(h) : c = d
    BY DEF Matching, Placed
  <2>2. \A c, d \in Proxied(h) : c = d
    BY DEF Proxied, ProxyInv, OnePerHost
  <2>3. \A a, b \in dns[h] : a = b
    BY DEF SingleInv
  <2> QED
    BY <1>1, <2>1, <2>2, <2>3 DEF Entries
<1> QED
  BY <1>1, <1>2, OneMember

(* The class of a hostname, from the roles present. *)
LEMMA Classes ==
    ASSUME NEW h
    PROVE  /\ Present(h) = {"vps_edge", "dns", "lan_proxy"}
              => Classification(h) = "lan_and_remote"
           /\ Present(h) = {"dns", "lan_proxy"} => Classification(h) = "lan_or_incomplete"
           /\ Present(h) \in {{"vps_edge"}, {"vps_edge", "dns"}, {"vps_edge", "lan_proxy"}}
              => Classification(h) = "remote_or_incomplete"
<1>1. ASSUME Present(h) = {"vps_edge", "dns", "lan_proxy"}
      PROVE  Classification(h) = "lan_and_remote"
  BY <1>1 DEF Classification
<1>2. ASSUME Present(h) = {"dns", "lan_proxy"}
      PROVE  Classification(h) = "lan_or_incomplete"
  BY <1>2 DEF Classification
<1>3. ASSUME Present(h) \in {{"vps_edge"}, {"vps_edge", "dns"}, {"vps_edge", "lan_proxy"}}
      PROVE  Classification(h) = "remote_or_incomplete"
  BY <1>3 DEF Classification
<1> QED
  BY <1>1, <1>2, <1>3

LEMMA ShownClassification ==
    ASSUME NEW r \in Requests, Shown(r)
    PROVE  Classification(Host(r)) \in
              CASE Route[r].mode = "lan_remote" -> {"lan_and_remote"}
                [] Route[r].mode = "lan" -> {"lan_or_incomplete", "lan_and_remote"}
                [] Route[r].mode = "remote" -> {"remote_or_incomplete", "lan_and_remote"}
<1> DEFINE P == Present(Host(r))
<1>m. Route[r].mode \in Modes
  BY RouteAssumption
<1>p. /\ P \subseteq {"vps_edge", "dns", "lan_proxy"}
      /\ OnLan(r) => "dns" \in P /\ "lan_proxy" \in P
      /\ OnEdge(r) => "vps_edge" \in P
  BY DEF Present, Entries, Shown
<1>c. /\ P = {"vps_edge", "dns", "lan_proxy"}
         => Classification(Host(r)) = "lan_and_remote"
      /\ P = {"dns", "lan_proxy"} => Classification(Host(r)) = "lan_or_incomplete"
      /\ P \in {{"vps_edge"}, {"vps_edge", "dns"}, {"vps_edge", "lan_proxy"}}
         => Classification(Host(r)) = "remote_or_incomplete"
  BY Classes
<1> HIDE DEF P
<1>1. CASE Route[r].mode = "lan_remote"
  <2>1. P = {"vps_edge", "dns", "lan_proxy"}
    BY <1>1, <1>p DEF OnLan, OnEdge, LanModes, RemoteModes
  <2> QED
    BY <1>1, <2>1, <1>c
<1>2. CASE Route[r].mode = "lan"
  <2>1. P \in {{"vps_edge", "dns", "lan_proxy"}, {"dns", "lan_proxy"}}
    BY <1>2, <1>p DEF OnLan, LanModes
  <2> QED
    BY <1>2, <2>1, <1>c
<1>3. CASE Route[r].mode = "remote"
  <2>1. P \in {{"vps_edge", "dns", "lan_proxy"}, {"vps_edge"}, {"vps_edge", "dns"},
               {"vps_edge", "lan_proxy"}}
    BY <1>3, <1>p DEF OnEdge, RemoteModes
  <2> QED
    BY <1>3, <2>1, <1>c
<1> QED
  BY <1>m, <1>1, <1>2, <1>3 DEF Modes

(* Under the hypotheses of AuditCorrectness, and when no hostname starts with
   two DNS answers: the inventory shows a settled route on its paths, with one
   entry per role, and calls for attention only to the disabled resource that
   an earlier route of the hostname left in Pangolin. *)
THEOREM InventoryCorrectness ==
    /\ MaxInFlight = 1 /\ ~ HiddenFaults
    /\ \A A \in InitialAnswers : \A a, b \in A : a = b
    /\ SafeSpec
    => []InventoryShowsSettledRoutes
<1> SUFFICES ASSUME MaxInFlight = 1, ~ HiddenFaults,
                    \A A \in InitialAnswers : \A a, b \in A : a = b
             PROVE  SafeSpec => []InventoryShowsSettledRoutes
  OBVIOUS
<1>1. TypeInv /\ ProxyInv /\ SoloInv /\ LiveInv /\ SingleInv => InventoryShowsSettledRoutes
  <2> SUFFICES ASSUME TypeInv, ProxyInv, SoloInv, LiveInv, SingleInv, NEW r \in Requests,
                      Settled(r)
               PROVE  /\ Classification(Host(r)) \in
                            CASE Route[r].mode = "lan_remote" -> {"lan_and_remote"}
                              [] Route[r].mode = "lan" -> {"lan_or_incomplete", "lan_and_remote"}
                              [] Route[r].mode = "remote" ->
                                    {"remote_or_incomplete", "lan_and_remote"}
                      /\ \A role \in Present(Host(r)) : Cardinality(Entries(Host(r))[role]) = 1
                      /\ Issues(Host(r), TRUE) # {} =>
                            /\ Route[r].mode = "lan"
                            /\ \E c \in Matching(Host(r)) : ~ Route[resource[c]].enabled
    BY DEF InventoryShowsSettledRoutes
  <2>1. Shown(r)
    BY SettledShown
  <2>2. Host(r) \in Hosts
    BY RouteAssumption DEF Host
  <2>3. \A role \in Present(Host(r)) : Cardinality(Entries(Host(r))[role]) = 1
    BY <2>2, OneEntryEach DEF LiveInv
  <2>4. ASSUME Issues(Host(r), TRUE) # {}
        PROVE  /\ Route[r].mode = "lan"
               /\ \E c \in Matching(Host(r)) : ~ Route[resource[c]].enabled
    <3>1. {role \in Present(Host(r)) : Cardinality(Entries(Host(r))[role]) > 1} = {}
      BY <2>3
    <3>2. PICK c \in Matching(Host(r)) : ~ Route[resource[c]].enabled
      BY <2>4, <3>1 DEF Issues
    <3>3. ~ OnEdge(r)
      BY <2>1, <3>2 DEF Shown, Publishing, Settled
    <3>4. Route[r].mode = "lan"
      BY <3>3, RouteAssumption DEF OnEdge, RemoteModes, Modes
    <3> QED
      BY <3>2, <3>4
  <2>5. Classification(Host(r)) \in
           CASE Route[r].mode = "lan_remote" -> {"lan_and_remote"}
             [] Route[r].mode = "lan" -> {"lan_or_incomplete", "lan_and_remote"}
             [] Route[r].mode = "remote" -> {"remote_or_incomplete", "lan_and_remote"}
    BY <2>1, ShownClassification
  <2> QED
    BY <2>3, <2>4, <2>5
<1>2. TypeInv /\ SavedInv /\ KeepInv /\ SoloInv /\ LiveInv /\ [Next]_vars => LiveInv'
  BY NextLiveInv
<1>3. TypeInv /\ KeepInv /\ [Next]_vars => KeepInv'
  BY NextKeepInv
<1>4. TypeInv /\ SoloInv /\ [Next]_vars => SoloInv'
  BY NextSoloInv
<1>5. TypeInv /\ SoloInv /\ LiveInv /\ SingleInv /\ [Next]_vars => SingleInv'
  BY NextSingleInv
<1>6. Init => SingleInv
  BY InitSingleInv
<1> QED
  BY InitTypeInv, NextTypeInv, InitSavedInv, NextSavedInv, InitKeepInv, InitSoloInv,
     InitProxyInv, NextProxyInv, InitLiveInv, <1>1, <1>2, <1>3, <1>4, <1>5, <1>6,
     PTL DEF SafeSpec


-----------------------------------------------------------------------------
(* Requests that come one at a time for each hostname, in any number. *)
Apart ==
    \A r, s \in Requests : InProgress(r) /\ InProgress(s) /\ Host(r) = Host(s) => r = s

(* What a thread knows of the resources of its hostname. *)
EdgeKnown(r) ==
    /\ mem[r].found # Nobody =>
          /\ Host(mem[r].found) = Host(r)
          /\ mem[r].content # Nobody /\ Host(mem[r].content) = Host(r)
    /\ status[r] = "running" /\ done[r] < Len(StepsOf(r)) /\ pc[r] \notin PangolinCalls =>
          mem[r].found = Nobody
    /\ pc[r] = "pangolin_publish" =>
          Matching(Host(r)) = IF mem[r].found = Nobody THEN {} ELSE {mem[r].found}
    /\ pc[r] = "pangolin_restore" => Matching(Host(r)) = {PublishedAs(r)}

EdgeInv == Placed /\ \A r \in Requests : EdgeKnown(r)

LEMMA InitEdgeInv == Init => EdgeInv
  BY DEF Init, EdgeInv, EdgeKnown, Placed, NoLocals, PangolinCalls

(* A thread that goes on with its steps was going on before. *)
LEMMA RunsOn ==
    ASSUME TypeInv, NEW r \in Requests, ExecutorStep(r),
           status'[r] = "running", done'[r] < Len(StepsOf(r))
    PROVE  status[r] = "running" /\ done[r] < Len(StepsOf(r))
<1>r. /\ TypeOK /\ status \in [Requests -> Statuses] /\ done[r] \in 0..3
      /\ Len(StepsOf(r)) \in 1..3
  BY ExecutorFacts DEF TypeOK
<1>1. CASE UNCHANGED executor
  BY <1>1 DEF executor
<1>2. CASE Compensate(r)
  BY <1>2, <1>r DEF Compensate
<1>3. CASE \E p \in Providers, result \in {"rolled_back", "rollback_failed"} :
              StepUndone(r, p, result)
  BY <1>3 DEF StepUndone
<1>4. CASE ReturnApplied(r) \/ ReturnRolledBack(r)
  BY <1>4, <1>r DEF ReturnApplied, ReturnRolledBack
<1> QED
  BY <1>1, <1>2, <1>3, <1>4 DEF ExecutorStep

(* Steps that are not Pangolin's leave the edge alone. *)
LEMMA EdgeStays ==
    ASSUME TypeInv, RecordInv, NEW r \in Requests, Placed, EdgeKnown(r),
           DnsStep(r) \/ CaddyStep(r) \/ HandlerStep(r)
    PROVE  EdgeKnown(r)' /\ Placed' /\ UNCHANGED <<resource, target>>
<1>r. /\ TypeOK /\ mem \in [Requests -> Locals] /\ pc \in [Requests -> Positions]
  BY DEF TypeInv, TypeOK
<1>1. /\ UNCHANGED <<resource, target>>
      /\ \/ mem'[r].found = mem[r].found /\ mem'[r].content = mem[r].content
         \/ mem'[r].found = Nobody
  <2>1. CASE DnsStep(r)
    BY <2>1, <1>r, OtherLocals
    DEF DnsStep, DnsConflict, DnsAlreadyAnswers, DnsSnapshot, DnsAdd, DnsFails,
        DnsUndoList, DnsUndo, DnsUndoFails, providers
  <2>2. CASE CaddyStep(r)
    BY <2>2, <1>r, OtherLocals
    DEF CaddyStep, CaddyRead, CaddyInstall, CaddyReload, CaddyFails, CaddyRestore,
        CaddyRestoreFails, CaddyUndo, CaddyUndoReload, CaddyUndoFails, providers
  <2>3. CASE HandlerStep(r)
    BY <2>3, <1>r, OtherLocals
    DEF HandlerStep, LoadRoutes, IntegrationMissing, ReturnApplied, ReturnRolledBack,
        Audit, Save, StoreFails, Answer, NoLocals, providers
  <2> QED
    BY <2>1, <2>2, <2>3
<1>2. pc[r] \notin PangolinCalls /\ pc'[r] \notin PangolinCalls
  <2> USE DEF PangolinCalls
  <2>1. CASE DnsStep(r)
    BY <2>1, <1>r
    DEF DnsStep, DnsConflict, DnsAlreadyAnswers, DnsSnapshot, DnsAdd, DnsFails,
        DnsUndoList, DnsUndo, DnsUndoFails, Applying, Undoing, StepApplied,
        StepFailed, StepFailedUnclean, Compensate, StepUndone, Goto
  <2>2. CASE CaddyStep(r)
    BY <2>2, CaddyMoves DEF CaddyCalls
  <2>3. CASE HandlerStep(r)
    BY <2>3, <1>r
    DEF HandlerStep, LoadRoutes, IntegrationMissing, ReturnApplied, ReturnRolledBack,
        Audit, Save, StoreFails, Answer, Goto
  <2> QED
    BY <2>1, <2>2, <2>3
<1>3. ExecutorStep(r)
  BY DnsExecutes, CaddyExecutes, HandlerExecutes
<1>4. status'[r] = "running" /\ done'[r] < Len(StepsOf(r)) =>
         status[r] = "running" /\ done[r] < Len(StepsOf(r))
  BY <1>3, RunsOn
<1>5. EdgeKnown(r)'
  BY <1>1, <1>2, <1>4, PlansStay DEF EdgeKnown, Host, PangolinCalls
<1>6. Placed'
  BY <1>1 DEF Placed, Host
<1> QED
  BY <1>1, <1>5, <1>6

(* Pangolin's steps touch one resource at most, the only one its hostname has
   or the first. *)
LEMMA EdgeStep ==
    ASSUME TypeInv, NEW r \in Requests, Placed, EdgeKnown(r), PangolinStep(r)
    PROVE  /\ EdgeKnown(r)' /\ Placed'
           /\ \A c \in Requests : Host(c) # Host(r) =>
                 resource'[c] = resource[c] /\ target'[c] = target[c]
<1> DEFINE p == PublishedAs(r)
           Beside == \A c \in Requests : Host(c) # Host(r) =>
                        resource'[c] = resource[c] /\ target'[c] = target[c]
<1>r. /\ TypeOK /\ mem \in [Requests -> Locals] /\ mem[r] \in Locals
      /\ resource \in [Requests -> Requests \cup {Nobody}]
      /\ target \in [Requests -> Requests \cup {Nobody}]
      /\ \A q \in Requests : q # Nobody
      /\ Len(StepsOf(r))' = Len(StepsOf(r)) /\ Host(r)' = Host(r)
      /\ pc \in [Requests -> Positions] /\ {"pangolin_publish", "pangolin_restore"} \subseteq Positions
      /\ mem[r].found \in Requests \cup {Nobody}
  BY NobodyAssumption, PlansStay DEF TypeInv, TypeOK, Positions, Locals
<1>a. /\ status[r] = "running" /\ done[r] \in {0, 2}
      /\ done[r] + 1 = Len(StepsOf(r))
      /\ \/ status'[r] = "running" /\ done'[r] \in {done[r], done[r] + 1}
         \/ status'[r] = "compensating" /\ done'[r] = done[r]
  BY PangolinMoves
<1>b. done[r] # Len(StepsOf(r)) /\ done[r] < Len(StepsOf(r))
  BY <1>a
<1>p. UNCHANGED <<resource, target>> => Placed' /\ Beside
  BY DEF Placed, Host
<1>f. StepFailed(r) \/ StepFailedUnclean(r, "pangolin") =>
         status'[r] = "compensating" /\ pc'[r] = "run"
  BY <1>r, StepFailedFacts, StepFailedUncleanFacts
<1>s. ASSUME UNCHANGED mem, pc'[r] = "run",
             status'[r] = "compensating" \/ done'[r] = Len(StepsOf(r))
      PROVE  EdgeKnown(r)'
  <2>1. ~ (status'[r] = "running" /\ done'[r] < Len(StepsOf(r)))
    BY <1>s, <1>a
  <2>2. mem'[r].found # Nobody =>
           /\ Host(mem'[r].found) = Host(r)
           /\ mem'[r].content # Nobody /\ Host(mem'[r].content) = Host(r)
    BY <1>s DEF EdgeKnown
  <2> QED
    BY <2>1, <2>2, <1>s, <1>r DEF EdgeKnown, Host
<1>x. ASSUME pc[r] \in PangolinCalls
      PROVE  /\ p \in Requests /\ Host(p) = Host(r) /\ Matching(Host(r)) \subseteq {p}
             /\ ~ Gone(r)
  <2>1. \/ Matching(Host(r)) = IF mem[r].found = Nobody THEN {} ELSE {mem[r].found}
        \/ Matching(Host(r)) = {p}
    BY <1>x DEF EdgeKnown, PangolinCalls
  <2>2. CASE mem[r].found = Nobody
    BY <2>1, <2>2 DEF PublishedAs, Gone
  <2>3. CASE mem[r].found # Nobody
    <3>1. p = mem[r].found /\ Matching(Host(r)) = {mem[r].found}
      BY <2>1, <2>3 DEF PublishedAs
    <3>2. mem[r].found \in Requests /\ Host(mem[r].found) = Host(r)
          /\ resource[mem[r].found] # Nobody
      BY <3>1 DEF Matching
    <3> QED
      BY <3>1, <3>2 DEF Gone
  <2> QED
    BY <2>2, <2>3
(* Its resource gets settings of this hostname or is deleted. *)
<1>v. ASSUME pc[r] \in PangolinCalls, NEW v \in Requests \cup {Nobody},
             v = Nobody \/ Host(v) = Host(r),
             resource' = [resource EXCEPT ![p] = v],
             UNCHANGED target \/ \E w : target' = [target EXCEPT ![p] = w]
      PROVE  Placed' /\ Beside /\ Matching(Host(r))' = IF v = Nobody THEN {} ELSE {p}
  <2>x. p \in Requests /\ Host(p) = Host(r) /\ Matching(Host(r)) \subseteq {p}
    BY <1>v, <1>x
  <2>v. UNCHANGED target \/ \E w : target' = [target EXCEPT ![p] = w]
    BY <1>v
  <2>w. resource' = [resource EXCEPT ![p] = v]
    BY <1>v
  <2> HIDE DEF p
  <2>1. /\ resource'[p] = v
        /\ \A c \in Requests \ {p} : resource'[c] = resource[c] /\ target'[c] = target[c]
    BY <2>x, <2>v, <2>w, <1>r
  <2>2. Placed' /\ Matching(Host(r))' = IF v = Nobody THEN {} ELSE {p}
    BY <2>x, <2>1, <1>v, OneResourceMoves
  <2>3. \A c \in Requests : Host(c) # Host(r) => c # p
    BY <2>x
  <2> QED
    BY <2>1, <2>2, <2>3
<1>c. pc[r] \in PangolinCalls => resource[p] = Nobody \/ Host(resource[p]) = Host(r)
  BY <1>x DEF Placed
<1>1. CASE PangolinAmbiguous(r) \/ (PangolinFails(r) /\ UNCHANGED resource)
  <2>1. StepFailed(r) /\ UNCHANGED <<mem, resource, target>>
    BY <1>1 DEF PangolinAmbiguous, PangolinFails, providers
  <2> QED
    BY <2>1, <1>p, <1>s, <1>f
<1>2. CASE PangolinLookup(r)
  <2>1. /\ UNCHANGED <<resource, target, done, status>> /\ pc[r] = "run"
        /\ pc'[r] = "pangolin_publish"
    BY <1>2, <1>r DEF PangolinLookup, Applying, Goto, providers, executor
  <2>2. mem[r].found = Nobody
    BY <2>1, <1>a, <1>b DEF EdgeKnown, PangolinCalls
  <2>3. /\ Matching(Host(r)) = IF mem'[r].found = Nobody THEN {} ELSE {mem'[r].found}
        /\ mem'[r].found # Nobody => mem'[r].content = resource[mem'[r].found]
    <3>1. CASE UNCHANGED mem /\ Matching(Host(r)) = {}
      BY <2>2, <3>1
    <3>2. ASSUME NEW c \in Requests, Matching(Host(r)) = {c},
                 mem' = [mem EXCEPT ![r].found = c, ![r].content = resource[c]]
          PROVE  <2>3
      <4>1. mem'[r].found = c /\ mem'[r].content = resource[c]
        BY <3>2, <1>r, FoundLocals, Zenon
      <4> QED
        BY <4>1, <3>2, <1>r
    <3> QED
      BY <1>2, <3>1, <3>2 DEF PangolinLookup
  <2>4. Matching(Host(r))' = Matching(Host(r))
    BY <2>1 DEF Matching, Host
  <2>5. mem'[r].found # Nobody =>
           /\ Host(mem'[r].found) = Host(r)
           /\ mem'[r].content # Nobody /\ Host(mem'[r].content) = Host(r)
    <3>1. mem'[r].found # Nobody => mem'[r].found \in Matching(Host(r))
      BY <2>3
    <3> QED
      BY <2>3, <3>1 DEF Matching, Placed
  <2>6. EdgeKnown(r)'
    BY <2>1, <2>3, <2>4, <2>5, <1>r DEF EdgeKnown, Host, PangolinCalls
  <2> QED
    BY <2>1, <2>6, <1>p
<1>3. CASE PangolinPublish(r)
  <2>1. /\ pc[r] \in PangolinCalls /\ UNCHANGED mem /\ StepApplied(r) /\ done[r] < 3
        /\ resource' = [resource EXCEPT ![p] = r] /\ target' = [target EXCEPT ![p] = r]
    BY <1>3, <1>a DEF PangolinPublish, PangolinCalls
  <2>2. pc'[r] = "run" /\ done'[r] = Len(StepsOf(r))
    BY <2>1, <1>a, <1>r, StepAppliedFacts
  <2>3. Placed' /\ Beside
    BY <2>1, <1>v
  <2> QED
    BY <2>1, <2>2, <2>3, <1>s
<1>4. CASE PangolinFails(r) /\ ~ UNCHANGED resource
  <2>1. /\ pc[r] \in PangolinCalls /\ UNCHANGED <<mem, target>> /\ StepFailed(r)
        /\ p = r /\ resource' = [resource EXCEPT ![p] = r]
    BY <1>4 DEF PangolinFails, PangolinCalls, PublishedAs, Applying
  <2>2. Placed' /\ Beside
    BY <2>1, <1>v
  <2> QED
    BY <2>1, <2>2, <1>s, <1>f
(* The publication breaks off with a resource there. *)
<1>5. CASE PangolinBreaksNew(r) \/ PangolinBreaksAdopted(r)
  <2>1. /\ pc[r] = "pangolin_publish" /\ UNCHANGED executor
        /\ Goto(r, "pangolin_restore")
        /\ resource' = resource \/ resource' = [resource EXCEPT ![p] = r]
        /\ mem[r].found = Nobody => resource' = [resource EXCEPT ![p] = r]
        /\ UNCHANGED target \/ \E w : target' = [target EXCEPT ![p] = w]
    BY <1>5 DEF PangolinBreaksNew, PangolinBreaksAdopted, PublishedAs
  <2>2. mem'[r].found = mem[r].found /\ mem'[r].content = mem[r].content
    <3>1. UNCHANGED mem \/ mem' = [mem EXCEPT ![r].target = target[mem[r].found]]
      BY <1>5 DEF PangolinBreaksNew, PangolinBreaksAdopted
    <3> QED
      BY <3>1, <1>r, OtherLocals
  <2>3. pc'[r] = "pangolin_restore" /\ UNCHANGED <<done, status>>
    BY <2>1, <1>r, GotoFacts DEF executor
  <2>4. pc[r] \in PangolinCalls
    BY <2>1 DEF PangolinCalls
  <2>5. mem[r].found # Nobody => resource[p] # Nobody
    BY <2>4, <1>x DEF Gone, PublishedAs
  <2>6. Placed' /\ Beside /\ Matching(Host(r))' = {p}
    <3>1. CASE resource' = [resource EXCEPT ![p] = r]
      BY <2>1, <2>4, <3>1, <1>r, <1>v
    <3>2. CASE resource' = resource /\ mem[r].found # Nobody
      <4>1. /\ resource' = [resource EXCEPT ![p] = resource[p]]
            /\ resource[p] \in Requests /\ Host(resource[p]) = Host(r)
        BY <2>4, <2>5, <3>2, <1>c, <1>r, <1>x
      <4> QED
        BY <2>1, <2>4, <4>1, <1>r, <1>v
    <3> QED
      BY <2>1, <3>1, <3>2
  <2>7. PublishedAs(r)' = p
    BY <2>2 DEF PublishedAs
  <2>8. EdgeKnown(r)'
    BY <2>2, <2>3, <2>6, <2>7, <1>r DEF EdgeKnown, PangolinCalls, Host
  <2> QED
    BY <2>6, <2>8
<1>6. CASE PangolinBreaksGone(r)
  BY <1>6, <1>x DEF PangolinBreaksGone, PangolinCalls
(* Put back, or not. *)
<1>7. CASE PangolinRestore(r) \/ PangolinRestoreFails(r)
  <2>1. /\ pc[r] \in PangolinCalls /\ UNCHANGED mem
        /\ StepFailed(r) \/ StepFailedUnclean(r, "pangolin")
        /\ resource' = resource \/ resource' = RestoredSettings(r)
        /\ target' = target \/ target' = RestoredTarget(r)
    BY <1>7 DEF PangolinRestore, PangolinRestoreFails, PangolinCalls
  <2>2. UNCHANGED target \/ \E w : target' = [target EXCEPT ![p] = w]
    BY <2>1 DEF RestoredTarget, PublishedAs
  <2>3. Placed' /\ Beside
    <3>1. CASE resource' = resource
      <4>1. resource' = [resource EXCEPT ![p] = resource[p]]
            /\ resource[p] \in Requests \cup {Nobody}
        BY <2>1, <3>1, <1>r, <1>x
      <4> QED
        BY <2>1, <2>2, <4>1, <1>c, <1>v
    <3>2. CASE resource' = RestoredSettings(r) /\ mem[r].found = Nobody
      <4>1. resource' = [resource EXCEPT ![p] = Nobody]
        BY <3>2 DEF RestoredSettings, PublishedAs
      <4> QED
        BY <2>1, <2>2, <4>1, <1>v
    <3>3. CASE resource' = RestoredSettings(r) /\ mem[r].found # Nobody
      <4>1. /\ resource' = [resource EXCEPT ![p] = mem[r].content]
            /\ mem[r].content \in Requests \cup {Nobody} /\ Host(mem[r].content) = Host(r)
        BY <3>3, <1>r DEF RestoredSettings, PublishedAs, EdgeKnown, Locals
      <4> QED
        BY <2>1, <2>2, <4>1, <1>v
    <3> QED
      BY <2>1, <3>1, <3>2, <3>3
  <2> QED
    BY <2>1, <2>3, <1>s, <1>f
<1> QED
  BY <1>1, <1>2, <1>3, <1>4, <1>5, <1>6, <1>7 DEF PangolinStep

LEMMA NextEdgeInv ==
    ASSUME TypeInv, RecordInv, EdgeInv, Apart, [Next]_vars PROVE EdgeInv'
<1>r. /\ pc \in [Requests -> Positions] /\ Placed /\ \A r \in Requests : EdgeKnown(r)
      /\ \A q \in Requests : StepsOf(q)' = StepsOf(q) /\ Host(q)' = Host(q)
  BY PlansStay DEF TypeInv, TypeOK, EdgeInv
<1>1. ASSUME NEW r \in Requests, Thread(r) PROVE EdgeInv'
  <2>1. /\ EdgeKnown(r)' /\ Placed'
        /\ \A c \in Requests : Host(c) # Host(r) => resource'[c] = resource[c]
    BY <1>1, <1>r, EdgeStays, EdgeStep DEF Thread
  <2>2. ASSUME NEW s \in Requests \ {r} PROVE EdgeKnown(s)'
    <3>1. Still(s) /\ InProgress(r)
      BY <1>1, ThreadIsItsOwn
    <3>2. pc[s] \in PangolinCalls => Matching(Host(s))' = Matching(Host(s))
      <4>1. pc[s] \in PangolinCalls => Host(s) # Host(r)
        BY <3>1 DEF Apart, InProgress, PangolinCalls
      <4> QED
        BY <4>1, <2>1 DEF Matching, Host
    <3>3. PublishedAs(s)' = PublishedAs(s)
      BY <3>1 DEF PublishedAs, Still
    <3> QED
      BY <3>1, <3>2, <3>3, <1>r DEF EdgeKnown, Still, Host, PangolinCalls
  <2> QED
    BY <2>1, <2>2 DEF EdgeInv
<1>2. ASSUME NEW r \in Requests, Start(r) PROVE EdgeInv'
  <2>1. /\ UNCHANGED <<resource, status, done, mem>>
        /\ pc[r] = "ready" /\ pc'[r] = "load"
        /\ \A s \in Requests \ {r} : pc'[s] = pc[s]
    BY <1>2, <1>r DEF Start, Goto, providers, executor
  <2>2. \A s \in Requests : EdgeKnown(s)'
    BY <2>1, <1>r DEF EdgeKnown, Matching, PublishedAs, Host, PangolinCalls
  <2> QED
    BY <2>1, <2>2, <1>r DEF EdgeInv, Placed, Host
<1>3. CASE Crash
  <2>1. /\ UNCHANGED resource
        /\ \A s \in Requests : pc'[s] \notin PangolinCalls /\ mem'[s].found = Nobody
    BY <1>3, <1>r DEF Crash, InProgress, NoLocals, PangolinCalls
  <2>2. \A s \in Requests : EdgeKnown(s)'
    BY <2>1 DEF EdgeKnown, PangolinCalls
  <2> QED
    BY <2>1, <2>2, <1>r DEF EdgeInv, Placed, Host
<1>4. CASE UNCHANGED vars
  <2>1. UNCHANGED <<resource, status, done, mem, pc>>
    BY <1>4 DEF vars, providers, executor
  <2>2. \A s \in Requests : EdgeKnown(s)'
    BY <2>1, <1>r DEF EdgeKnown, Matching, PublishedAs, Host, PangolinCalls
  <2> QED
    BY <2>1, <2>2, <1>r DEF EdgeInv, Placed, Host
<1> QED
  BY <1>1, <1>2, <1>3, <1>4 DEF Next

(* No hostname has two Pangolin resources. *)
OneResourcePerHost ==
    \A c, d \in Requests :
        resource[c] # Nobody /\ resource[d] # Nobody /\ Host(c) = Host(d) => c = d

(* As long as no two applies for one hostname overlap, a lookup and the creation
   that follows it leave a hostname with one resource: in any number of
   applies for other hostnames, also when answers to creations are lost and
   when the container stops. *)
THEOREM ResourceUniqueness == SafeSpec /\ []Apart => []OneResourcePerHost
<1>1. EdgeInv => OneResourcePerHost
  BY DEF EdgeInv, Placed, OneResourcePerHost
<1>2. TypeInv /\ RecordInv /\ EdgeInv /\ Apart /\ [Next]_vars => EdgeInv'
  BY NextEdgeInv
<1> QED
  BY InitTypeInv, NextTypeInv, InitRecordInv, NextRuns, InitEdgeInv, <1>1, <1>2,
     PTL DEF SafeSpec

(* What requests know of their own hostname, and who has a resource. *)
KnownInv == Created /\ \A r \in Requests : Known(r)

LEMMA InitKnownInv == Init => KnownInv
  BY InitSoloInv DEF SoloInv, KnownInv

(* A step of one thread shows in DNS and in Pangolin at its own hostname only. *)
LEMMA OwnHostOnly ==
    ASSUME TypeInv, RecordInv, EdgeInv, NEW r \in Requests, Thread(r)
    PROVE  /\ \A q \in Requests : Host(q) # Host(r) => dns'[Host(q)] = dns[Host(q)]
           /\ \A c \in Requests : Host(c) # Host(r) =>
                 resource'[c] = resource[c] /\ target'[c] = target[c]
<1>r. dns \in [Hosts -> SUBSET Addresses] /\ \A q \in Requests : Host(q) \in Hosts
  BY RouteAssumption DEF TypeInv, TypeOK, Host
<1>1. \A c \in Requests : Host(c) # Host(r) =>
         resource'[c] = resource[c] /\ target'[c] = target[c]
  BY EdgeStays, EdgeStep DEF Thread, EdgeInv
<1>2. CASE DnsStep(r)
  <2>1. UNCHANGED dns \/ \E A : dns' = [dns EXCEPT ![Host(r)] = A]
    BY <1>2
    DEF DnsStep, DnsConflict, DnsAlreadyAnswers, DnsSnapshot, DnsAdd, DnsFails,
        DnsUndoList, DnsUndo, DnsUndoFails, providers
  <2> QED
    BY <2>1, <1>r, <1>1
<1>3. CASE CaddyStep(r) \/ PangolinStep(r)
  BY <1>3, <1>1, CaddyMoves, PangolinMoves
<1>4. CASE HandlerStep(r)
  BY <1>4, <1>1
  DEF HandlerStep, LoadRoutes, IntegrationMissing, ReturnApplied, ReturnRolledBack,
      Audit, Save, StoreFails, providers
<1> QED
  BY <1>2, <1>3, <1>4 DEF Thread

LEMMA NextKnownInv ==
    ASSUME ~ HiddenFaults, TypeInv, RecordInv, EdgeInv, KnownInv, Apart, [Next]_vars
    PROVE  KnownInv'
<1>r. /\ pc \in [Requests -> Positions] /\ status \in [Requests -> Statuses]
      /\ \A r \in Requests : Control(r) /\ Known(r) /\ EdgeKnown(r)
      /\ \A r \in Requests : StepsOf(r)' = StepsOf(r) /\ Host(r)' = Host(r)
                             /\ Address(r)' = Address(r)
      /\ Created
  BY PlansStay DEF TypeInv, TypeOK, ControlOK, KnownInv, EdgeInv
<1>1. ASSUME NEW r \in Requests, Start(r) PROVE KnownInv'
  <2>1. /\ UNCHANGED <<dns, resource, target, status, done, todo, rollback, unclean, mem>>
        /\ pc[r] = "ready" /\ pc'[r] = "load"
        /\ \A s \in Requests \ {r} : pc'[s] = pc[s]
    BY <1>1, <1>r DEF Start, Goto, providers, executor
  <2>2. \A s \in Requests : Reports(s)'
    BY <2>1, <1>r DEF Known, Reports
  <2>3. ASSUME NEW s \in Requests \ {r} PROVE Known(s)'
    BY <2>1, <2>2, <1>r
    DEF Known, DnsKnown, InForce, Compensable, PangolinKnown, InProgress
  <2>4. /\ status[r] = "running" /\ done[r] = 0
        /\ mem[r].dns = Nobody /\ mem[r].caddy = Nobody
        /\ mem[r].found = Nobody /\ mem[r].target = Nobody
    BY <2>1, <1>r DEF Control, Known, Reports, Statuses
  <2>5. DnsKnown(r)' /\ PangolinKnown(r)'
    BY <2>1, <2>4 DEF DnsKnown, InForce, PangolinKnown
  <2>6. Known(r)'
    BY <2>1, <2>2, <2>4, <2>5 DEF Known
  <2>7. Created'
    BY <2>1, <1>r DEF Created
  <2> QED
    BY <2>3, <2>6, <2>7 DEF KnownInv
<1>2. ASSUME NEW r \in Requests, Thread(r) PROVE KnownInv'
  <2>1. Known(r)' /\ Created'
    BY <1>2, <1>r, DnsSolo, CaddySolo, PangolinSolo, HandlerSolo DEF Thread
  <2>2. ASSUME NEW s \in Requests \ {r} PROVE Known(s)'
    <3>1. Still(s) /\ InProgress(r) /\ (InProgress(s)' <=> InProgress(s))
      BY <1>2, ThreadIsItsOwn DEF Still, InProgress
    <3>2. Reports(s)'
      BY <3>1, <1>r DEF Known, Reports, Still
    <3>3. ASSUME InProgress(s) PROVE DnsKnown(s)' /\ PangolinKnown(s)'
      <4>1. Host(s) # Host(r) /\ DnsKnown(s) /\ PangolinKnown(s)
        BY <3>1, <3>3, <1>r DEF Apart, Known
      <4>2. dns'[Host(s)] = dns[Host(s)]
        BY <4>1, <1>2, OwnHostOnly
      <4>3. DnsKnown(s)'
        BY <3>1, <4>1, <4>2, <1>r DEF DnsKnown, InForce, Compensable, Still
      <4>4. mem[s].found # Nobody =>
               /\ resource'[mem[s].found] = resource[mem[s].found]
               /\ target'[mem[s].found] = target[mem[s].found]
        <5>1. mem[s].found \in Requests \cup {Nobody}
          BY DEF TypeInv, TypeOK, Locals
        <5>2. mem[s].found # Nobody => Host(mem[s].found) # Host(r)
          BY <4>1, <1>r DEF EdgeKnown
        <5> QED
          BY <5>1, <5>2, <1>2, OwnHostOnly
      <4>5. PangolinKnown(s)'
        BY <3>1, <4>1, <4>4, <1>r DEF PangolinKnown, Still
      <4> QED
        BY <4>3, <4>5
    <3> QED
      BY <3>1, <3>2, <3>3, <1>r DEF Known, Still
  <2> QED
    BY <2>1, <2>2 DEF KnownInv
<1>3. CASE Crash
  <2>1. /\ UNCHANGED <<resource, status, done, todo, rollback, unclean>>
        /\ \A s \in Requests :
              /\ pc'[s] \in {"ready", "done", "dead"}
              /\ pc'[s] \in {pc[s], "dead"}
              /\ mem'[s] = NoLocals
    BY <1>3, <1>r DEF Crash, InProgress, executor
  <2>2. ASSUME NEW s \in Requests PROVE Known(s)'
    <3>1. Known(s) /\ ~ InProgress(s)' /\ Len(StepsOf(s))' = Len(StepsOf(s))
      BY <2>1, <1>r DEF InProgress
    <3>2. Reports(s)'
      BY <2>1, <3>1 DEF Known, Reports
    <3>3. /\ mem'[s].dns = Nobody /\ mem'[s].caddy = Nobody
          /\ mem'[s].found = Nobody /\ mem'[s].target = Nobody
      BY <2>1 DEF NoLocals
    <3> QED
      BY <3>1, <3>2, <3>3 DEF Known
  <2>3. Created'
    BY <2>1, <1>r DEF Created
  <2> QED
    BY <2>2, <2>3 DEF KnownInv
<1>4. CASE UNCHANGED vars
  <2>1. UNCHANGED <<dns, resource, target, status, done, todo, rollback, unclean, mem, pc>>
    BY <1>4 DEF vars, providers, executor
  <2> QED
    BY <2>1, <1>r
    DEF KnownInv, Created, Known, Reports, DnsKnown, InForce, Compensable, PangolinKnown,
        InProgress
<1> QED
  BY <1>1, <1>2, <1>3, <1>4 DEF Next

(* When the executor of a request reports "rolled_back", DNS has for its hostname
   what it found there, and so has Pangolin unless its publication broke off
   and could not be taken back. *)
OwnHostRestored ==
    \A r \in Requests :
        pc[r] = "audit" /\ status[r] = "rolled_back" =>
            /\ mem[r].dns # Nobody => dns[Host(r)] = mem[r].dns
            /\ r \notin unclean["pangolin"] =>
                  /\ resource[r] = Nobody
                  /\ mem[r].found # Nobody =>
                        /\ resource[mem[r].found] = mem[r].content
                        /\ mem[r].target # Nobody => target[mem[r].found] = mem[r].target

(* As long as no two applies for one hostname overlap and calls that raise did
   nothing, a reported rollback restored the hostname on DNS and on Pangolin,
   except what its failing publication could not take back itself, whatever other hostnames are being applied or rolled back meanwhile and
   whenever the container stopped.  What threads for different hostnames share
   is Caddy's configuration and routes.json. *)
THEOREM HostIsolation == ~ HiddenFaults /\ SafeSpec /\ []Apart => []OwnHostRestored
<1> SUFFICES ASSUME ~ HiddenFaults PROVE SafeSpec /\ []Apart => []OwnHostRestored
  OBVIOUS
<1>1. TypeInv /\ KnownInv => OwnHostRestored
  <2> SUFFICES ASSUME TypeInv, KnownInv, NEW r \in Requests, pc[r] = "audit",
                      status[r] = "rolled_back"
               PROVE  /\ mem[r].dns # Nobody => dns[Host(r)] = mem[r].dns
                      /\ r \notin unclean["pangolin"] =>
                            /\ resource[r] = Nobody
                            /\ mem[r].found # Nobody =>
                                  /\ resource[mem[r].found] = mem[r].content
                                  /\ mem[r].target # Nobody =>
                                        target[mem[r].found] = mem[r].target
    BY DEF OwnHostRestored
  <2>1. DnsKnown(r) /\ PangolinKnown(r) /\ Reports(r) /\ Created
    BY DEF KnownInv, Known, InProgress
  <2>2. /\ done[r] < Len(StepsOf(r)) /\ todo[r] = 0
        /\ rollback[r]["dns"] # "rollback_failed"
    BY <2>1 DEF Reports, Providers
  <2>3. done[r] \in 0..3 /\ Len(StepsOf(r)) \in 1..3
    BY ExecutorFacts
  <2>4. r \notin unclean["pangolin"] => resource[r] = Nobody
    BY <2>1, <2>2, <2>3 DEF Created
  <2>5. mem[r].dns # Nobody => dns[Host(r)] = mem[r].dns
    BY <2>1, <2>2 DEF DnsKnown
  <2> QED
    BY <2>1, <2>2, <2>4, <2>5 DEF PangolinKnown
<1>2. TypeInv /\ RecordInv /\ EdgeInv /\ Apart /\ [Next]_vars => EdgeInv'
  BY NextEdgeInv
<1>3. TypeInv /\ RecordInv /\ EdgeInv /\ KnownInv /\ Apart /\ [Next]_vars => KnownInv'
  BY NextKnownInv
<1> QED
  BY InitTypeInv, NextTypeInv, InitRecordInv, NextRuns, InitEdgeInv, InitKnownInv,
     <1>1, <1>2, <1>3, PTL DEF SafeSpec
=============================================================================
