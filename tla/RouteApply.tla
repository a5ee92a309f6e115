----------------------------- MODULE RouteApply ------------------------------
(***************************************************************************)
(* POST /api/v1/apply of app/server.py, several requests at a time.        *)
(*                                                                         *)
(* ThreadingHTTPServer gives every request a thread.  The thread consumes  *)
(* its plan, loads routes.json, runs the provider steps of                 *)
(* RouteApplyService.apply_route through the TransactionExecutor, appends  *)
(* the result to the audit log and saves the routes it loaded, with its    *)
(* own route in them.  Every request builds its own RouteApplyService, so  *)
(* the lock of its CaddyConfigManager excludes nobody: the atomic steps    *)
(* below are the single provider calls and file replacements.              *)
(*                                                                         *)
(* A route is named by the request whose plan holds it.                    *)
(***************************************************************************)
EXTENDS Integers, FiniteSets, Sequences

CONSTANTS
    Requests,           \* the approved requests, each with a plan of its own
    Hosts,              \* hostnames
    Addresses,          \* LAN addresses a DNS answer can carry
    Route,              \* the route of each request's plan
    Nobody,             \* stands for no route and for a local not yet assigned
    InitialAnswers,     \* the DNS answers a hostname may start with
    ProviderMutations,  \* WISE_ENABLE_PROVIDER_MUTATIONS of the server that
                        \* handles each request: a restart may change it
    HiddenFaults,       \* may a call that raises have taken effect?
    MayCrash,           \* may the container stop while requests run?
    MaxInFlight,        \* bound: requests in progress at a time
    MaxFaults           \* bound: calls that fail and crashes in a behaviour

Modes == {"lan", "remote", "lan_remote"}
Providers == {"dns", "caddy", "pangolin"}

ASSUME RouteAssumption ==
    Route \in [Requests -> [host : Hosts, mode : Modes, address : Addresses,
                            enabled : BOOLEAN]]
ASSUME NobodyAssumption ==
    /\ Nobody \notin Requests
    /\ \A S \in (SUBSET Requests) \cup (SUBSET Addresses) : Nobody # S
ASSUME InitialAnswersAssumption == InitialAnswers \subseteq SUBSET Addresses
ASSUME FlagAssumption ==
    /\ ProviderMutations \in [Requests -> BOOLEAN]
    /\ {HiddenFaults, MayCrash} \subseteq BOOLEAN
ASSUME BoundAssumption == MaxInFlight \in Nat \ {0} /\ MaxFaults \in Nat

VARIABLES
    routes,        \* routes.json: the saved route of each hostname
    audited,       \* the requests with a result in audit.jsonl
    dns,           \* the answers the DNS provider gives for each hostname
    caddyFile,     \* caddy/config.json, as the set of routes it proxies
    caddyRunning,  \* the routes the running Caddy proxies
    resource,      \* the route whose name, switch and login each Pangolin
                   \* resource has; named by the request that created it
    target,        \* the route whose upstream its target leads to
    pc,            \* where the thread of each request is
    status,        \* its executor's state, as in module Transaction: running,
                   \* compensating, or what run() returned
    done,          \* how many of its steps were applied
    todo,          \* how many of them are still to be undone
    rollback,      \* the rollback_status of its provider steps
    unclean,       \* history: the requests whose failing step raised again while
                   \* its apply took back what it had done
    mem,           \* its local variables, lost with the thread
    reply,         \* what its client was answered
    faults         \* failures still allowed (bound)

disk == <<routes, audited>>
providers == <<dns, caddyFile, caddyRunning, resource, target>>
executor == <<status, done, todo, rollback, unclean>>
vars == <<disk, providers, executor, pc, mem, reply, faults>>

-----------------------------------------------------------------------------
Host(r) == Route[r].host
Address(r) == Route[r].address
NoRoutes == [h \in Hosts |-> Nobody]
LanModes == {"lan", "lan_remote"}
RemoteModes == {"remote", "lan_remote"}

(* apply_route: DNS, then the local proxy, then the public route. *)
StepsOf(r) ==
    CASE Route[r].mode = "lan"        -> <<"dns", "caddy">>
      [] Route[r].mode = "remote"     -> <<"pangolin">>
      [] Route[r].mode = "lan_remote" -> <<"dns", "caddy", "pangolin">>

(* Slip: forgets that lan_remote routes are proxied too. *)
ProxyConfigOfLanOnly(list) ==
    {r \in Requests : list[Host(r)] = r /\ Route[r].mode = "lan" /\ Route[r].enabled}

(* build_config: the enabled LAN routes of a route list. *)
ProxyConfig(list) ==
    {r \in Requests : /\ list[Host(r)] = r
                      /\ Route[r].mode \in LanModes
                      /\ Route[r].enabled}

(* Slip: starts from an empty list. *)
DesiredAlone(r) == [NoRoutes EXCEPT ![Host(r)] = r]

(* The loaded routes without this hostname, and the desired route. *)
Desired(r) == [mem[r].routes EXCEPT ![Host(r)] = r]

(* _matching_resource: the resources that claim the hostname. *)
Matching(h) == {c \in Requests : Host(c) = h /\ resource[c] # Nobody}

NoLocals == [routes |-> NoRoutes, dns |-> Nobody, seen |-> Nobody,
             caddy |-> Nobody, found |-> Nobody, content |-> Nobody,
             target |-> Nobody]

InProgress(r) == pc[r] \notin {"ready", "done", "dead"}

Positions == {"ready", "load", "run", "dns_add", "caddy_install", "caddy_reload",
              "caddy_restore", "pangolin_publish", "pangolin_restore",
              "caddy_undo_reload", "dns_undo", "audit", "save", "done", "dead"}

Replies == {"none", "rejected", "applied", "conflict", "saved", "error"}

Statuses == {"running", "compensating", "applied", "rolled_back", "rollback_failed"}

Locals ==
    [routes : [Hosts -> Requests \cup {Nobody}],  \* what load_routes returned
     dns : {Nobody} \cup SUBSET Addresses,         \* the DnsSnapshot
     seen : {Nobody} \cup SUBSET Addresses,        \* _restore's listing
     caddy : {Nobody} \cup SUBSET Requests,        \* the file before apply
     found : Requests \cup {Nobody},              \* the adopted resource
     content : Requests \cup {Nobody},            \* resource_before
     target : Requests \cup {Nobody}]             \* target_before, once known

TypeOK ==
    /\ routes \in [Hosts -> Requests \cup {Nobody}]
    /\ audited \subseteq Requests
    /\ dns \in [Hosts -> SUBSET Addresses]
    /\ caddyFile # Nobody /\ caddyFile \subseteq Requests
    /\ caddyRunning # Nobody /\ caddyRunning \subseteq Requests
    /\ resource \in [Requests -> Requests \cup {Nobody}]
    /\ target \in [Requests -> Requests \cup {Nobody}]
    /\ pc \in [Requests -> Positions]
    /\ status \in [Requests -> Statuses]
    /\ done \in [Requests -> 0..3]
    /\ todo \in [Requests -> 0..3]
    /\ rollback \in [Requests -> [Providers -> {"none", "rolled_back", "rollback_failed"}]]
    /\ unclean \in [{"caddy", "pangolin"} -> SUBSET Requests]
    /\ mem \in [Requests -> Locals]
    /\ reply \in [Requests -> Replies]
    /\ faults \in 0..MaxFaults

Init ==
    /\ routes = NoRoutes
    /\ audited = {}
    /\ dns \in [Hosts -> InitialAnswers]
    /\ caddyFile = {}
    /\ caddyRunning = {}
    /\ resource = [r \in Requests |-> Nobody]
    /\ target = [r \in Requests |-> Nobody]
    /\ pc = [r \in Requests |-> "ready"]
    /\ status = [r \in Requests |-> "running"]
    /\ done = [r \in Requests |-> 0]
    /\ todo = [r \in Requests |-> 0]
    /\ rollback = [r \in Requests |-> [p \in Providers |-> "none"]]
    /\ unclean = [p \in {"caddy", "pangolin"} |-> {}]
    /\ mem = [r \in Requests |-> NoLocals]
    /\ reply = [r \in Requests |-> "none"]
    /\ faults = MaxFaults

-----------------------------------------------------------------------------
Goto(r, position) == pc' = [pc EXCEPT ![r] = position]

(* A call that raises. *)
Fault == faults > 0 /\ faults' = faults - 1

(* The executor's next step is the one of provider p. *)
Applying(r, p) ==
    /\ pc[r] = "run"
    /\ status[r] = "running"
    /\ done[r] < Len(StepsOf(r))
    /\ StepsOf(r)[done[r] + 1] = p

(* Slip: undoes in completion order. *)
UndoingForwards(r, p) ==
    /\ pc[r] = "run"
    /\ status[r] = "compensating"
    /\ todo[r] > 0
    /\ StepsOf(r)[done[r] - todo[r] + 1] = p

(* It undoes the one of provider p next. *)
Undoing(r, p) ==
    /\ pc[r] = "run"
    /\ status[r] = "compensating"
    /\ todo[r] > 0
    /\ StepsOf(r)[todo[r]] = p

(* The step's apply returned / raised; its rollback returned or raised. *)
StepApplied(r) ==
    /\ done' = [done EXCEPT ![r] = @ + 1]
    /\ UNCHANGED <<status, todo, rollback, unclean>>
    /\ Goto(r, "run")

Compensate(r) ==
    /\ status' = [status EXCEPT ![r] = "compensating"]
    /\ todo' = [todo EXCEPT ![r] = done[r]]
    /\ UNCHANGED <<done, rollback>>
    /\ Goto(r, "run")

StepFailed(r) == Compensate(r) /\ UNCHANGED unclean

(* Its apply could not take back what it had done: to the executor a step that
   failed like any other, which it does not roll back. *)
StepFailedUnclean(r, p) ==
    Compensate(r) /\ unclean' = [unclean EXCEPT ![p] = @ \cup {r}]

StepUndone(r, p, result) ==
    /\ todo' = [todo EXCEPT ![r] = @ - 1]
    /\ rollback' = [rollback EXCEPT ![r][p] = result]
    /\ UNCHANGED <<status, done, unclean>>
    /\ Goto(r, "run")

(* The handler answers and its locals are gone. *)
Answer(r, what) ==
    /\ reply' = [reply EXCEPT ![r] = what]
    /\ mem' = [mem EXCEPT ![r] = NoLocals]
    /\ Goto(r, "done")

-----------------------------------------------------------------------------
(* The request arrives and PlanStore.consume hands it its plan. *)
Start(r) ==
    /\ pc[r] = "ready"
    /\ Cardinality({s \in Requests : InProgress(s)}) < MaxInFlight
    /\ Goto(r, "load")
    /\ UNCHANGED <<disk, providers, executor, mem, reply, faults>>

(* Slip: takes the route table for empty. *)
LoadNothing(r) ==
    /\ pc[r] = "load"
    /\ Goto(r, IF ProviderMutations[r] THEN "run" ELSE "save")
    /\ UNCHANGED <<disk, providers, executor, mem, reply, faults>>

LoadRoutes(r) ==
    /\ pc[r] = "load"
    /\ mem' = [mem EXCEPT ![r].routes = routes]
    /\ Goto(r, IF ProviderMutations[r] THEN "run" ELSE "save")
    /\ UNCHANGED <<disk, providers, executor, reply, faults>>

(* A saved integration of the route is gone: 400, and the plan is used up. *)
IntegrationMissing(r) ==
    /\ pc[r] = "load"
    /\ ProviderMutations[r]
    /\ Answer(r, "rejected")
    /\ UNCHANGED <<disk, providers, executor, faults>>

-----------------------------------------------------------------------------
(* DnsRecordManager.apply: the snapshot, and the conflict it may show.
   replace_conflicts is never passed, so it is always FALSE. *)
DnsConflict(r) ==
    /\ Applying(r, "dns")
    /\ dns[Host(r)] \ {Address(r)} # {}
    /\ StepFailed(r)
    /\ UNCHANGED <<disk, providers, mem, reply, faults>>

DnsAlreadyAnswers(r) ==
    /\ Applying(r, "dns")
    /\ dns[Host(r)] = {Address(r)}
    /\ mem' = [mem EXCEPT ![r].dns = dns[Host(r)]]
    /\ StepApplied(r)
    /\ UNCHANGED <<disk, providers, reply, faults>>

DnsSnapshot(r) ==
    /\ Applying(r, "dns")
    /\ dns[Host(r)] = {}
    /\ mem' = [mem EXCEPT ![r].dns = dns[Host(r)]]
    /\ Goto(r, "dns_add")
    /\ UNCHANGED <<disk, providers, executor, reply, faults>>

DnsAdd(r) ==
    /\ pc[r] = "dns_add"
    /\ dns' = [dns EXCEPT ![Host(r)] = @ \cup {Address(r)}]
    /\ StepApplied(r)
    /\ UNCHANGED <<disk, caddyFile, caddyRunning, resource, target, mem, reply, faults>>

(* The lookup or the add raises.  The add stands outside apply's try: when it
   took effect nobody takes it back. *)
DnsFails(r) ==
    /\ Applying(r, "dns") \/ pc[r] = "dns_add"
    /\ Fault
    /\ \/ UNCHANGED dns
       \/ /\ HiddenFaults /\ pc[r] = "dns_add"
          /\ dns' = [dns EXCEPT ![Host(r)] = @ \cup {Address(r)}]
    /\ StepFailed(r)
    /\ UNCHANGED <<disk, caddyFile, caddyRunning, resource, target, mem, reply>>

(* DnsRecordManager._restore lists the answers, then deletes the ones its
   snapshot lacks and adds the ones it has. *)
DnsUndoList(r) ==
    /\ Undoing(r, "dns")
    /\ mem' = [mem EXCEPT ![r].seen = dns[Host(r)]]
    /\ Goto(r, "dns_undo")
    /\ UNCHANGED <<disk, providers, executor, reply, faults>>

Stale(r) == mem[r].seen \ mem[r].dns
Lost(r) == mem[r].dns \ mem[r].seen

(* Slip: re-adds what is missing and keeps what was added. *)
RestoredAddingOnly(r) == dns[Host(r)] \cup Lost(r)

Restored(r) == (dns[Host(r)] \ Stale(r)) \cup Lost(r)

DnsUndo(r) ==
    /\ pc[r] = "dns_undo"
    /\ dns' = [dns EXCEPT ![Host(r)] = Restored(r)]
    /\ StepUndone(r, "dns", "rolled_back")
    /\ UNCHANGED <<disk, caddyFile, caddyRunning, resource, target, mem, reply, faults>>

(* The listing raises, or one of the deletes and adds: those before it stay
   made. *)
DnsUndoFails(r) ==
    /\ Fault
    /\ \/ Undoing(r, "dns") /\ UNCHANGED dns
       \/ /\ pc[r] = "dns_undo"
          /\ \E gone \in SUBSET Stale(r), back \in SUBSET Lost(r) :
                /\ back # {} => gone = Stale(r)
                /\ HiddenFaults \/ gone # Stale(r) \/ back # Lost(r)
                /\ dns' = [dns EXCEPT ![Host(r)] = (@ \ gone) \cup back]
    /\ StepUndone(r, "dns", "rollback_failed")
    /\ UNCHANGED <<disk, caddyFile, caddyRunning, resource, target, mem, reply>>

-----------------------------------------------------------------------------
(* Slip: forgets to remember the file. *)
CaddyStartsBlindly(r) ==
    /\ Applying(r, "caddy")
    /\ Goto(r, "caddy_install")
    /\ UNCHANGED <<disk, providers, executor, mem, reply, faults>>

(* CaddyConfigManager.apply: remember the file, validate the candidate built
   from the loaded routes, replace the file, reload. *)
CaddyRead(r) ==
    /\ Applying(r, "caddy")
    /\ mem' = [mem EXCEPT ![r].caddy = caddyFile]
    /\ Goto(r, "caddy_install")
    /\ UNCHANGED <<disk, providers, executor, reply, faults>>

CaddyInstall(r) ==
    /\ pc[r] = "caddy_install"
    /\ caddyFile' = ProxyConfig(Desired(r))
    /\ Goto(r, "caddy_reload")
    /\ UNCHANGED <<disk, dns, caddyRunning, resource, target, executor, mem, reply, faults>>

CaddyReload(r) ==
    /\ pc[r] = "caddy_reload"
    /\ caddyRunning' = caddyFile
    /\ StepApplied(r)
    /\ UNCHANGED <<disk, dns, caddyFile, resource, target, mem, reply, faults>>

(* `caddy validate` or `caddy reload` fails or times out. *)
CaddyFails(r) ==
    /\ pc[r] \in {"caddy_install", "caddy_reload"}
    /\ Fault
    /\ \/ UNCHANGED caddyRunning
       \/ /\ HiddenFaults /\ pc[r] = "caddy_reload"
          /\ caddyRunning' = caddyFile
    /\ Goto(r, "caddy_restore")
    /\ UNCHANGED <<disk, dns, caddyFile, resource, target, executor, mem, reply>>

(* The except clause writes the remembered file back; it does not reload. *)
CaddyRestore(r) ==
    /\ pc[r] = "caddy_restore"
    /\ caddyFile' = mem[r].caddy
    /\ StepFailed(r)
    /\ UNCHANGED <<disk, dns, caddyRunning, resource, target, mem, reply, faults>>

(* Writing it back raises too: the step fails, and the candidate stays. *)
CaddyRestoreFails(r) ==
    /\ pc[r] = "caddy_restore"
    /\ Fault
    /\ \/ UNCHANGED caddyFile
       \/ HiddenFaults /\ caddyFile' = mem[r].caddy
    /\ StepFailedUnclean(r, "caddy")
    /\ UNCHANGED <<disk, dns, caddyRunning, resource, target, mem, reply>>

(* CaddyConfigManager.rollback writes the remembered file back and reloads. *)
CaddyUndo(r) ==
    /\ Undoing(r, "caddy")
    /\ caddyFile' = mem[r].caddy
    /\ Goto(r, "caddy_undo_reload")
    /\ UNCHANGED <<disk, dns, caddyRunning, resource, target, executor, mem, reply, faults>>

CaddyUndoReload(r) ==
    /\ pc[r] = "caddy_undo_reload"
    /\ caddyRunning' = caddyFile
    /\ StepUndone(r, "caddy", "rolled_back")
    /\ UNCHANGED <<disk, dns, caddyFile, resource, target, mem, reply, faults>>

CaddyUndoFails(r) ==
    /\ Undoing(r, "caddy") \/ pc[r] = "caddy_undo_reload"
    /\ Fault
    /\ \/ UNCHANGED caddyRunning
       \/ /\ HiddenFaults /\ pc[r] = "caddy_undo_reload"
          /\ caddyRunning' = caddyFile
    /\ StepUndone(r, "caddy", "rollback_failed")
    /\ UNCHANGED <<disk, dns, caddyFile, resource, target, mem, reply>>

-----------------------------------------------------------------------------
(* PangolinResourceManager.apply: look the hostname up; more than one match
   is an error. *)
PangolinAmbiguous(r) ==
    /\ Applying(r, "pangolin")
    /\ Cardinality(Matching(Host(r))) > 1
    /\ StepFailed(r)
    /\ UNCHANGED <<disk, providers, mem, reply, faults>>

PangolinLookup(r) ==
    /\ Applying(r, "pangolin")
    /\ \/ /\ Matching(Host(r)) = {}
          /\ UNCHANGED mem
       \/ \E c \in Requests :
             /\ Matching(Host(r)) = {c}
             /\ mem' = [mem EXCEPT ![r].found = c, ![r].content = resource[c]]
    /\ Goto(r, "pangolin_publish")
    /\ UNCHANGED <<disk, providers, executor, reply, faults>>

(* Slip: creates a resource whatever the lookup found. *)
PublishedAnew(r) == r

(* The resource r publishes through: its own new one, or the one it adopts. *)
PublishedAs(r) == IF mem[r].found = Nobody THEN r ELSE mem[r].found

(* An adopted resource whose creator deleted it meanwhile. *)
Gone(r) == mem[r].found # Nobody /\ resource[mem[r].found] = Nobody

(* Create or update the resource and its target. *)
PangolinPublish(r) ==
    /\ pc[r] = "pangolin_publish"
    /\ ~ Gone(r)
    /\ resource' = [resource EXCEPT ![PublishedAs(r)] = r]
    /\ target' = [target EXCEPT ![PublishedAs(r)] = r]
    /\ StepApplied(r)
    /\ UNCHANGED <<disk, dns, caddyFile, caddyRunning, mem, reply, faults>>

(* The lookup raises, or the creation, which nobody takes back when only its
   answer was lost. *)
PangolinFails(r) ==
    /\ \/ Applying(r, "pangolin")
       \/ pc[r] = "pangolin_publish" /\ mem[r].found = Nobody
    /\ Fault
    /\ \/ UNCHANGED resource
       \/ /\ HiddenFaults /\ pc[r] = "pangolin_publish"
          /\ resource' = [resource EXCEPT ![r] = r]
    /\ StepFailed(r)
    /\ UNCHANGED <<disk, dns, caddyFile, caddyRunning, target, mem, reply>>

(* A later call raises: with a resource of its own the update, the listing of
   targets or the creation of one ... *)
PangolinBreaksNew(r) ==
    /\ pc[r] = "pangolin_publish"
    /\ mem[r].found = Nobody
    /\ Fault
    /\ resource' = [resource EXCEPT ![r] = r]
    /\ \/ UNCHANGED target
       \/ HiddenFaults /\ target' = [target EXCEPT ![r] = r]
    /\ Goto(r, "pangolin_restore")
    /\ UNCHANGED <<disk, dns, caddyFile, caddyRunning, executor, mem, reply>>

(* ... with an adopted one its update or the listing of targets, before the
   target is known, or the update of the target, of which mem has the earlier
   content. *)
PangolinBreaksAdopted(r) ==
    /\ pc[r] = "pangolin_publish"
    /\ mem[r].found # Nobody
    /\ ~ Gone(r)
    /\ Fault
    /\ LET c == mem[r].found
       IN  \/ /\ resource' \in {resource, [resource EXCEPT ![c] = r]}
              /\ UNCHANGED <<target, mem>>
           \/ /\ resource' = [resource EXCEPT ![c] = r]
              /\ mem' = [mem EXCEPT ![r].target = target[c]]
              /\ \/ UNCHANGED target
                 \/ HiddenFaults /\ target' = [target EXCEPT ![c] = r]
    /\ Goto(r, "pangolin_restore")
    /\ UNCHANGED <<disk, dns, caddyFile, caddyRunning, executor, reply>>

(* The update answers that there is no such resource. *)
PangolinBreaksGone(r) ==
    /\ pc[r] = "pangolin_publish"
    /\ Gone(r)
    /\ Goto(r, "pangolin_restore")
    /\ UNCHANGED <<disk, providers, executor, mem, reply, faults>>

(* PangolinResourceManager.rollback: delete the own resource, or put the target
   and then the settings back. *)
RestoredTarget(r) ==
    IF mem[r].found = Nobody THEN [target EXCEPT ![r] = Nobody]
    ELSE IF mem[r].target = Nobody THEN target
    ELSE [target EXCEPT ![mem[r].found] = mem[r].target]

(* Slip: keeps the settings of an adopted resource. *)
KeptSettings(r) ==
    IF mem[r].found = Nobody THEN [resource EXCEPT ![r] = Nobody] ELSE resource

RestoredSettings(r) ==
    IF mem[r].found = Nobody THEN [resource EXCEPT ![r] = Nobody]
    ELSE [resource EXCEPT ![mem[r].found] = mem[r].content]

PangolinRestore(r) ==
    /\ pc[r] = "pangolin_restore"
    /\ ~ Gone(r)
    /\ target' = RestoredTarget(r)
    /\ resource' = RestoredSettings(r)
    /\ StepFailed(r)
    /\ UNCHANGED <<disk, dns, caddyFile, caddyRunning, mem, reply, faults>>

(* One of these calls raises as well: what comes after it stays undone. *)
PangolinRestoreFails(r) ==
    /\ pc[r] = "pangolin_restore"
    /\ \/ Gone(r) /\ UNCHANGED <<resource, target, faults>>
       \/ /\ ~ Gone(r)
          /\ Fault
          /\ \/ UNCHANGED <<resource, target>>
             \/ /\ mem[r].found # Nobody
                /\ target' = RestoredTarget(r)
                /\ UNCHANGED resource
             \/ /\ HiddenFaults
                /\ target' = RestoredTarget(r)
                /\ resource' = RestoredSettings(r)
    /\ StepFailedUnclean(r, "pangolin")
    /\ UNCHANGED <<disk, dns, caddyFile, caddyRunning, mem, reply>>

-----------------------------------------------------------------------------
(* The executor returns "applied". *)
ReturnApplied(r) ==
    /\ pc[r] = "run"
    /\ status[r] = "running"
    /\ done[r] = Len(StepsOf(r))
    /\ status' = [status EXCEPT ![r] = "applied"]
    /\ Goto(r, "audit")
    /\ UNCHANGED <<disk, providers, done, todo, rollback, unclean, mem, reply, faults>>

(* Slip: waits for every rollback to succeed. *)
ReturnOnlyIfUndone(r) ==
    /\ pc[r] = "run"
    /\ status[r] = "compensating"
    /\ todo[r] = 0
    /\ \A p \in Providers : rollback[r][p] # "rollback_failed"
    /\ status' = [status EXCEPT ![r] = "rolled_back"]
    /\ Goto(r, "audit")
    /\ UNCHANGED <<disk, providers, done, todo, rollback, unclean, mem, reply, faults>>

(* The executor returns "rolled_back" or "rollback_failed". *)
ReturnRolledBack(r) ==
    /\ pc[r] = "run"
    /\ status[r] = "compensating"
    /\ todo[r] = 0
    /\ status' = [status EXCEPT ![r] =
                IF \E p \in Providers : rollback[r][p] = "rollback_failed"
                  THEN "rollback_failed" ELSE "rolled_back"]
    /\ Goto(r, "audit")
    /\ UNCHANGED <<disk, providers, done, todo, rollback, unclean, mem, reply, faults>>

(* Slip: goes on to the save whatever the status. *)
AuditAndSave(r) ==
    /\ pc[r] = "audit"
    /\ audited' = audited \cup {r}
    /\ Goto(r, "save")
    /\ UNCHANGED <<routes, providers, executor, mem, reply, faults>>

(* provider_transaction.finished; without provider mutations, plan.applied,
   which follows the save. *)
Audit(r) ==
    /\ pc[r] = "audit"
    /\ audited' = audited \cup {r}
    /\ \/ /\ status[r] = "applied"
          /\ Goto(r, "save")
          /\ UNCHANGED <<mem, reply>>
       \/ /\ status[r] \in {"rolled_back", "rollback_failed"}
          /\ Answer(r, "conflict")
       \/ /\ ~ ProviderMutations[r]
          /\ Answer(r, "saved")
    /\ UNCHANGED <<routes, providers, executor, faults>>

Save(r) ==
    /\ pc[r] = "save"
    /\ routes' = Desired(r)
    /\ \/ /\ ProviderMutations[r]
          /\ Answer(r, "applied")
       \/ /\ ~ ProviderMutations[r]
          /\ Goto(r, "audit")
          /\ UNCHANGED <<mem, reply>>
    /\ UNCHANGED <<audited, providers, executor, faults>>

(* Reading routes.json raises, appending to audit.jsonl, or writing the backup
   or the file: 400 or 500, and routes.json is as it was, whatever the providers
   hold by now. *)
StoreFails(r) ==
    /\ pc[r] \in {"load", "audit", "save"}
    /\ Fault
    /\ \/ UNCHANGED audited
       \/ HiddenFaults /\ pc[r] = "audit" /\ audited' = audited \cup {r}
    /\ Answer(r, "error")
    /\ UNCHANGED <<routes, providers, executor>>

(* The container stops and is started again: the threads and their rollback
   state are gone, and Caddy starts from its file. *)
Crash ==
    /\ MayCrash
    /\ Fault
    /\ \E r \in Requests : InProgress(r)
    /\ pc' = [r \in Requests |-> IF InProgress(r) THEN "dead" ELSE pc[r]]
    /\ mem' = [r \in Requests |-> NoLocals]
    /\ caddyRunning' = caddyFile
    /\ UNCHANGED <<disk, dns, caddyFile, resource, target, executor, reply>>

-----------------------------------------------------------------------------
DnsStep(r) ==
    \/ DnsConflict(r) \/ DnsAlreadyAnswers(r) \/ DnsSnapshot(r) \/ DnsAdd(r)
    \/ DnsFails(r) \/ DnsUndoList(r) \/ DnsUndo(r) \/ DnsUndoFails(r)

CaddyStep(r) ==
    \/ CaddyRead(r) \/ CaddyInstall(r) \/ CaddyReload(r) \/ CaddyFails(r)
    \/ CaddyRestore(r) \/ CaddyRestoreFails(r) \/ CaddyUndo(r)
    \/ CaddyUndoReload(r) \/ CaddyUndoFails(r)

PangolinStep(r) ==
    \/ PangolinAmbiguous(r) \/ PangolinLookup(r) \/ PangolinPublish(r)
    \/ PangolinFails(r) \/ PangolinBreaksNew(r) \/ PangolinBreaksAdopted(r)
    \/ PangolinBreaksGone(r) \/ PangolinRestore(r) \/ PangolinRestoreFails(r)

HandlerStep(r) ==
    \/ LoadRoutes(r) \/ IntegrationMissing(r)
    \/ ReturnApplied(r) \/ ReturnRolledBack(r)
    \/ Audit(r) \/ Save(r) \/ StoreFails(r)

Thread(r) == DnsStep(r) \/ CaddyStep(r) \/ PangolinStep(r) \/ HandlerStep(r)

Next ==
    \/ \E r \in Requests : Start(r) \/ Thread(r)
    \/ Crash

SafeSpec == Init /\ [][Next]_vars

(* The threads of the server are scheduled, and every call they make returns
   or raises: HTTP calls and subprocesses have timeouts. *)
Spec == SafeSpec /\ \A r \in Requests : WF_vars(Thread(r))

-----------------------------------------------------------------------------
Quiet == \A r \in Requests : ~ InProgress(r)

(* No compensation failed and no call of the store did: what the service itself
   reports as in need of repair has not happened. *)
NothingToRepair ==
    \A r \in Requests : status[r] # "rollback_failed" /\ reply[r] # "error"

(* Desired state is saved only after every step succeeded and the result was
   audited, whatever other requests, faults and restarts do: no interleaving
   lets the route of a failed or unfinished transaction into routes.json,
   although every save rewrites all the routes its thread once loaded. *)
SavedOnlyAfterApplied ==
    \A h \in Hosts :
        routes[h] # Nobody =>
            /\ Host(routes[h]) = h
            /\ ProviderMutations[routes[h]] =>
                  status[routes[h]] = "applied" /\ routes[h] \in audited

(* Every request that got its plan is answered, unless the server stops. *)
EveryRequestAnswered ==
    \A r \in Requests : pc[r] = "load" ~> pc[r] \in {"done", "dead"}

(* When the executor of a request reports "rolled_back", the providers are as
   that request found them: its DNS answers, Caddy's file and the running
   Caddy, and the Pangolin resource and target it adopted or created.  What a
   failing step could not take back itself it does not report, and that is all
   that may be left: Caddy's file, or that resource. *)
RolledBackRestores ==
    \A r \in Requests :
        pc[r] = "audit" /\ status[r] = "rolled_back" /\ NothingToRepair =>
            /\ mem[r].dns # Nobody => dns[Host(r)] = mem[r].dns
            /\ mem[r].caddy # Nobody =>
                  /\ r \notin unclean["caddy"] => caddyFile = mem[r].caddy
                  /\ unclean["caddy"] = {} => caddyRunning = mem[r].caddy
            /\ r \notin unclean["pangolin"] =>
                  /\ resource[r] = Nobody
                  /\ mem[r].found # Nobody =>
                        /\ resource[mem[r].found] = mem[r].content
                        /\ mem[r].target # Nobody => target[mem[r].found] = mem[r].target

(* A route that was reported "rolled_back" is nowhere between requests: no
   later request, whose snapshot of Caddy's file or of a resource it may have
   to put back, and no restart, which loads that file, brings it back. *)
RolledBackIsGone ==
    Quiet /\ NothingToRepair =>
        \A r \in Requests :
            status[r] = "rolled_back" /\ r \notin unclean["caddy"] \cup unclean["pangolin"] =>
                /\ r \notin caddyFile \cup caddyRunning
                /\ \A c \in Requests : r \notin {resource[c], target[c]}

(* No restart cut off a request for this hostname, and no failing step of one
   left there what it could not take back: nobody else takes it back. *)
Undisturbed(h) ==
    \A r \in Requests :
        Host(r) = h => pc[r] # "dead" /\ r \notin unclean["caddy"] \cup unclean["pangolin"]

(* Between requests every saved route that was applied is in effect: its answer
   is in DNS, the running Caddy proxies it when it is enabled, Pangolin
   publishes it, settings and target.  Neither a rollback nor a restart in the
   middle of a request for another hostname takes it away, nor what such a
   request could not take back. *)
SavedRouteIsLive ==
    Quiet /\ NothingToRepair =>
        \A r \in {c \in Requests : /\ routes[Host(c)] = c
                                   /\ ProviderMutations[c]
                                   /\ Undisturbed(Host(c))} :
            /\ Route[r].mode \in LanModes =>
                  /\ Address(r) \in dns[Host(r)]
                  /\ Route[r].enabled => r \in caddyRunning
            /\ Route[r].mode \in RemoteModes =>
                  \E c \in Requests : resource[c] = r /\ target[c] = r

(* A save changes the route of its own hostname only. *)
SavesItsOwnRoute ==
    \A r \in Requests :
        pc[r] = "save" /\ pc'[r] # "save" =>
            \A h \in Hosts \ {Host(r)} : routes'[h] = routes[h]

SavesTouchOneHost == [][SavesItsOwnRoute]_vars

(* A route that was answered "applied" or "saved" stays in the desired state until
   another route for its hostname replaces it: nothing deletes routes. *)
AppliedIsKept ==
    \A r \in Requests : reply[r] \in {"applied", "saved"} => routes[Host(r)] # Nobody

(* Between requests Caddy's file is the one generated from the desired
   state. *)
CaddyFollowsDesired ==
    Quiet /\ NothingToRepair /\ (\A r \in Requests : ProviderMutations[r]) =>
        caddyFile = ProxyConfig(routes)
=============================================================================
