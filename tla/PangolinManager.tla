--------------------------- MODULE PangolinManager ---------------------------
(***************************************************************************)
(* PangolinResourceManager of app/pangolin_manager.py, call by call: apply *)
(* publishes a route on the Pangolin edge with up to five calls, records   *)
(* what it changed, and rolls back when one of them raises.                *)
(*                                                                         *)
(* Pangolin is external.  A resource or a target that an apply creates is  *)
(* named by its request; what an update writes is named by the request     *)
(* whose route it carries.                                                 *)
(***************************************************************************)
EXTENDS Integers, FiniteSets

CONSTANTS
    Requests,       \* applies, one for each approved request
    OldResources,   \* resources and targets that others created on the edge
    OldTargets,
    Host,           \* the hostname of each request and of each old resource
    Site,           \* the site of each request and of each old target
    OldOn,          \* the resource of each old target
    Gone,           \* stands for a resource or a target that is not there
    Fresh,          \* what create_http_resource sets
    Old,            \* what others have set
    Nobody,         \* stands for a local not yet assigned
    HiddenFaults,   \* may a call that raises have taken effect?
    MaxInFlight,    \* bound: requests in progress at a time
    MaxFaults       \* bound: calls that fail and crashes in a behaviour

Resources == Requests \cup OldResources
Targets == Requests \cup OldTargets

ASSUME NamesAssumption ==
    /\ Requests \cap (OldResources \cup OldTargets) = {}
    /\ Nobody \notin Resources \cup Targets
    /\ {Gone, Fresh, Old, Nobody} \cap Requests = {}
    /\ Gone \notin {Fresh, Old, Nobody} /\ Nobody \notin {Fresh, Old} /\ Fresh # Old
    /\ Gone \notin [on : Resources, as : Requests \cup {Old}]
ASSUME OldAssumption == OldOn \in [OldTargets -> OldResources]
ASSUME BoundsAssumption ==
    /\ HiddenFaults \in BOOLEAN
    /\ MaxInFlight \in Nat \ {0}
    /\ MaxFaults \in Nat

VARIABLES
    settings,   \* each resource: whose name, enabled and sso it has
    targets,    \* each target: its resource, and whose upstream it has
    pc,         \* where each apply is
    mem,        \* its rollback state
    faults,     \* failures still allowed (bound)
    alone,      \* history: no other apply has been in progress with this one
    found,      \* history: the edge when one that is alone looked it up
    clean       \* history: no creation's answer was lost, no rollback raised

edge == <<settings, targets>>
history == <<alone, found, clean>>
vars == <<edge, pc, mem, faults, history>>

Contents == Requests \cup {Fresh, Old}
TargetStates == {Gone} \cup [on : Resources, as : Requests \cup {Old}]

(* state: resource_id, resource_before, target_id, target_before.  It holds
   resource_created when the resource is its own, and target_created alike. *)
States == [resource : Resources \cup {Nobody}, before : Contents \cup {Nobody},
           target : Targets \cup {Nobody}, target_before : Requests \cup {Old, Nobody}]

NoState == [resource |-> Nobody, before |-> Nobody,
            target |-> Nobody, target_before |-> Nobody]

Calls == {"update", "list", "create_target", "update_target"}
Positions == {"idle", "create", "undo", "undo_resource", "applied", "undone", "dead"}
                \cup Calls

TypeOK ==
    /\ settings \in [Resources -> Contents \cup {Gone}]
    /\ targets \in [Targets -> TargetStates]
    /\ pc \in [Requests -> Positions]
    /\ mem \in [Requests -> States]
    /\ faults \in 0..MaxFaults
    /\ found \in [Requests -> {Nobody} \cup
                     [settings : [Resources -> Contents \cup {Gone}],
                      targets : [Targets -> TargetStates]]]
    /\ alone \in [Requests -> BOOLEAN]
    /\ clean \in [Requests -> BOOLEAN]

Init ==
    /\ settings = [c \in Resources |-> IF c \in OldResources THEN Old ELSE Gone]
    /\ targets = [t \in Targets |-> IF t \in OldTargets
                                    THEN [on |-> OldOn[t], as |-> Old] ELSE Gone]
    /\ pc = [r \in Requests |-> "idle"]
    /\ mem = [r \in Requests |-> NoState]
    /\ faults = MaxFaults
    /\ found = [r \in Requests |-> Nobody]
    /\ alone = [r \in Requests |-> TRUE]
    /\ clean = [r \in Requests |-> TRUE]

-----------------------------------------------------------------------------
InProgress(r) == pc[r] \notin {"idle", "applied", "undone", "dead"}

Goto(r, position) == pc' = [pc EXCEPT ![r] = position]

(* A call that raises. *)
Fault == faults > 0 /\ faults' = faults - 1

(* _matching_resource: the resources that claim the hostname. *)
Matching(r) == {c \in Resources : Host[c] = Host[r] /\ settings[c] # Gone}

(* Slip: any target of the resource will do. *)
AnyTarget(r) ==
    {t \in Targets : targets[t] # Gone /\ targets[t].on = mem[r].resource}

(* The targets of its resource on the route's site. *)
OnSite(r) ==
    {t \in Targets : /\ targets[t] # Gone
                     /\ targets[t].on = mem[r].resource
                     /\ Site[t] = Site[r]}

SetResource(c, content) ==
    /\ settings' = [settings EXCEPT ![c] = content]
    /\ UNCHANGED targets

SetTarget(t, state) ==
    /\ targets' = [targets EXCEPT ![t] = state]
    /\ UNCHANGED settings

Rewrite(t, content) ==
    /\ targets[t] # Gone
    /\ SetTarget(t, [targets[t] EXCEPT !.as = content])

-----------------------------------------------------------------------------
(* apply begins, or a transaction that applied it rolls back. *)
Begins(r) ==
    /\ Cardinality({s \in Requests : InProgress(s)}) < MaxInFlight
    /\ alone' = [s \in Requests |->
                    IF s = r THEN alone[r] /\ \A q \in Requests : ~ InProgress(q)
                    ELSE alone[s] /\ ~ InProgress(s) /\ pc[s] # "applied"]
    /\ found' = [s \in Requests |->
                    IF ~ alone'[s] THEN Nobody
                    ELSE IF s = r /\ pc[r] = "idle"
                         THEN [settings |-> settings, targets |-> targets]
                         ELSE found[s]]
    /\ UNCHANGED clean

(* The rollback state goes with its thread. *)
Ends(r) ==
    /\ Goto(r, "undone")
    /\ mem' = [mem EXCEPT ![r] = NoState]
    /\ found' = [found EXCEPT ![r] = Nobody]
    /\ UNCHANGED alone

(* The lookup, which stands outside the try: more than one match raises, and so
   does a resource without the fields that a snapshot needs. *)
Ambiguous(r) ==
    /\ pc[r] = "idle"
    /\ Cardinality(Matching(r)) > 1
    /\ Begins(r)
    /\ Goto(r, "undone")
    /\ UNCHANGED <<edge, mem, faults>>

LookupFails(r) ==
    /\ pc[r] = "idle"
    /\ Fault
    /\ Begins(r)
    /\ Goto(r, "undone")
    /\ UNCHANGED <<edge, mem>>

NotPublished(r) ==
    /\ pc[r] = "idle"
    /\ Matching(r) = {}
    /\ Begins(r)
    /\ Goto(r, "create")
    /\ UNCHANGED <<edge, mem, faults>>

(* Slip: remembers which resource, and not what it was. *)
AdoptBlindly(r) ==
    /\ pc[r] = "idle"
    /\ \E c \in Resources :
          /\ Matching(r) = {c}
          /\ mem' = [mem EXCEPT ![r].resource = c]
    /\ Begins(r)
    /\ Goto(r, "update")
    /\ UNCHANGED <<edge, faults>>

Adopt(r) ==
    /\ pc[r] = "idle"
    /\ \E c \in Resources :
          /\ Matching(r) = {c}
          /\ mem' = [mem EXCEPT ![r].resource = c, ![r].before = settings[c]]
    /\ Begins(r)
    /\ Goto(r, "update")
    /\ UNCHANGED <<edge, faults>>

CreateResource(r) ==
    /\ pc[r] = "create"
    /\ SetResource(r, Fresh)
    /\ mem' = [mem EXCEPT ![r].resource = r]
    /\ Goto(r, "update")
    /\ UNCHANGED <<faults, history>>

(* _subdomain or the creation raises: no id is known, nothing is undone. *)
CreateFails(r) ==
    /\ pc[r] = "create"
    /\ Fault
    /\ \/ UNCHANGED <<edge, clean>>
       \/ /\ HiddenFaults
          /\ SetResource(r, Fresh)
          /\ clean' = [clean EXCEPT ![r] = FALSE]
    /\ Ends(r)

Exists(r) == settings[mem[r].resource] # Gone

Update(r) ==
    /\ pc[r] = "update"
    /\ Exists(r)
    /\ SetResource(mem[r].resource, r)
    /\ Goto(r, "list")
    /\ UNCHANGED <<mem, faults, history>>

(* The target of the route's site, in the order of Pangolin's answer. *)
ListTargets(r) ==
    /\ pc[r] = "list"
    /\ Exists(r)
    /\ \/ /\ OnSite(r) = {}
          /\ Goto(r, "create_target")
          /\ UNCHANGED mem
       \/ \E t \in OnSite(r) :
             /\ mem' = [mem EXCEPT ![r].target = t, ![r].target_before = targets[t].as]
             /\ Goto(r, "update_target")
    /\ UNCHANGED <<edge, faults, history>>

NewTarget(r) == [on |-> mem[r].resource, as |-> r]

CreateTarget(r) ==
    /\ pc[r] = "create_target"
    /\ Exists(r)
    /\ SetTarget(r, NewTarget(r))
    /\ mem' = [mem EXCEPT ![r].target = r]
    /\ Goto(r, "applied")
    /\ UNCHANGED <<faults, history>>

UpdateTarget(r) ==
    /\ pc[r] = "update_target"
    /\ Rewrite(mem[r].target, r)
    /\ Goto(r, "applied")
    /\ UNCHANGED <<mem, faults, history>>

(* The call of this position took effect and then raised. *)
Hidden(r) ==
    /\ HiddenFaults
    /\ \/ /\ pc[r] = "update" /\ Exists(r)
          /\ SetResource(mem[r].resource, r)
          /\ UNCHANGED clean
       \/ /\ pc[r] = "create_target" /\ Exists(r)
          /\ SetTarget(r, NewTarget(r))
          /\ clean' = [clean EXCEPT ![r] = FALSE]
       \/ /\ pc[r] = "update_target" /\ Rewrite(mem[r].target, r)
          /\ UNCHANGED clean

(* A call of the try raises. *)
CallFails(r) ==
    /\ pc[r] \in Calls
    /\ Fault
    /\ Hidden(r) \/ UNCHANGED <<edge, clean>>
    /\ Goto(r, "undo")
    /\ UNCHANGED <<mem, found, alone>>

(* Another request deleted what it is about to change. *)
CallRefused(r) ==
    /\ \/ pc[r] \in {"update", "list", "create_target"} /\ ~ Exists(r)
       \/ pc[r] = "update_target" /\ targets[mem[r].target] = Gone
    /\ Goto(r, "undo")
    /\ UNCHANGED <<edge, mem, faults, history>>

-----------------------------------------------------------------------------
(* The transaction that applied the route calls its rollback: apply_route has no
   step after Pangolin's that could fail, the tests do it. *)
UndoApplied(r) ==
    /\ pc[r] = "applied"
    /\ Begins(r)
    /\ Goto(r, "undo")
    /\ UNCHANGED <<edge, mem, faults>>

(* rollback deletes a resource of its own, which ends it; Pangolin deletes the
   targets with it. *)
Deleted(r) ==
    /\ settings' = [settings EXCEPT ![r] = Gone]
    /\ targets' = [t \in Targets |->
                     IF targets[t] # Gone /\ targets[t].on = r THEN Gone ELSE targets[t]]

DeleteResource(r) ==
    /\ pc[r] = "undo"
    /\ mem[r].resource = r
    /\ Deleted(r)
    /\ Ends(r)
    /\ UNCHANGED <<faults, clean>>

(* Slip: restores the target it found, and keeps the one it created. *)
RestoredOnly(r) ==
    \/ mem[r].target_before = Nobody /\ UNCHANGED edge
    \/ mem[r].target_before # Nobody /\ Rewrite(mem[r].target, mem[r].target_before)

(* Slip: deletes whatever target it recorded. *)
TargetDeleted(r) ==
    \/ mem[r].target = Nobody /\ UNCHANGED edge
    \/ mem[r].target # Nobody /\ SetTarget(mem[r].target, Gone)

(* A target of its own is deleted, one that it found is put back. *)
TargetUndone(r) ==
    \/ mem[r].target = Nobody /\ UNCHANGED edge
    \/ mem[r].target = r /\ targets[r] # Gone /\ SetTarget(r, Gone)
    \/ mem[r].target_before # Nobody /\ Rewrite(mem[r].target, mem[r].target_before)

UndoTarget(r) ==
    /\ pc[r] = "undo"
    /\ mem[r].resource # r
    /\ TargetUndone(r)
    /\ Goto(r, "undo_resource")
    /\ UNCHANGED <<mem, faults, history>>

(* Slip: looks for the target only. *)
ResourceForgotten(r) ==
    /\ pc[r] = "undo_resource"
    /\ Ends(r)
    /\ UNCHANGED <<edge, faults, clean>>

UndoResource(r) ==
    /\ pc[r] = "undo_resource"
    /\ Exists(r)
    /\ SetResource(mem[r].resource, mem[r].before)
    /\ Ends(r)
    /\ UNCHANGED <<faults, clean>>

(* The next call of rollback, if there is one. *)
HasUndoCall(r) ==
    \/ pc[r] = "undo" /\ (mem[r].resource = r \/ mem[r].target # Nobody)
    \/ pc[r] = "undo_resource"

UndoCall(r) ==
    \/ pc[r] = "undo" /\ mem[r].resource = r /\ Deleted(r)
    \/ pc[r] = "undo" /\ mem[r].resource # r /\ TargetUndone(r)
    \/ /\ pc[r] = "undo_resource" /\ Exists(r)
       /\ SetResource(mem[r].resource, mem[r].before)

(* It raises, with or without effect, or because what it is to change is gone:
   the calls after it are left out. *)
UndoFails(r) ==
    /\ HasUndoCall(r)
    /\ \/ Fault /\ (UNCHANGED edge \/ (HiddenFaults /\ UndoCall(r)))
       \/ /\ \/ pc[r] = "undo_resource" /\ ~ Exists(r)
             \/ /\ pc[r] = "undo" /\ mem[r].resource # r
                /\ targets[mem[r].target] = Gone
          /\ UNCHANGED <<edge, faults>>
    /\ clean' = [clean EXCEPT ![r] = FALSE]
    /\ Ends(r)

(* The container stops: the rollback states are gone. *)
Crash ==
    /\ Fault
    /\ \E r \in Requests : InProgress(r)
    /\ pc' = [r \in Requests |-> IF InProgress(r) \/ pc[r] = "applied" THEN "dead" ELSE pc[r]]
    /\ mem' = [r \in Requests |-> NoState]
    /\ found' = [r \in Requests |-> Nobody]
    /\ UNCHANGED <<edge, alone, clean>>

-----------------------------------------------------------------------------
ApplyStep(r) ==
    \/ Ambiguous(r) \/ LookupFails(r) \/ NotPublished(r) \/ Adopt(r)
    \/ CreateResource(r) \/ CreateFails(r) \/ Update(r) \/ ListTargets(r)
    \/ CreateTarget(r) \/ UpdateTarget(r) \/ CallFails(r) \/ CallRefused(r)

RollbackStep(r) ==
    \/ UndoApplied(r) \/ DeleteResource(r) \/ UndoTarget(r) \/ UndoResource(r)
    \/ UndoFails(r)

Next ==
    \/ \E r \in Requests : ApplyStep(r) \/ RollbackStep(r)
    \/ Crash

Spec == Init /\ [][Next]_vars

-----------------------------------------------------------------------------
(* An apply that fails, or is rolled back, leaves the edge as it found it,
   whichever of its calls raised and whether that call had taken effect: unless
   another apply was in progress, the answer to a creation was lost, or a call
   of the rollback itself raised. *)
EdgeAsFound ==
    \A r \in Requests :
        InProgress(r) /\ pc'[r] = "undone" /\ alone[r] /\ clean'[r] =>
            settings' = found[r].settings /\ targets' = found[r].targets

FailureLeavesEdge == [][EdgeAsFound]_vars

(* An apply that succeeds has its route on one resource for the hostname and
   on a target for its site, and has changed nothing else. *)
RoutePublished ==
    \A r \in Requests :
        pc[r] \in Calls /\ pc'[r] = "applied" /\ alone[r] =>
            \E c \in Resources, t \in Targets :
                /\ Host[c] = Host[r] /\ Site[t] = Site[r]
                /\ settings' = [found[r].settings EXCEPT ![c] = r]
                /\ targets' = [found[r].targets EXCEPT ![t] = [on |-> c, as |-> r]]

AppliedPublishes == [][RoutePublished]_vars

(* Whatever applies overlap and whatever fails: what others created is never
   deleted, and a target is changed only by a route for its site. *)
OthersUntouched ==
    /\ \A c \in OldResources : settings[c] # Gone
    /\ \A t \in OldTargets :
          /\ targets[t] # Gone
          /\ targets[t].as = Old \/ Site[targets[t].as] = Site[t]

(* Nothing that an apply created outlives its rollback, also when others have
   adopted it meanwhile. *)
NothingOrphaned ==
    \A r \in Requests :
        pc[r] = "undone" /\ clean[r] => settings[r] = Gone /\ targets[r] = Gone
=============================================================================
