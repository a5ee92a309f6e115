------------------------ MODULE PangolinManagerProofs ------------------------
(***************************************************************************)
(* Theorems about module PangolinManager, for every number of applies and  *)
(* of resources and targets that others created.                           *)
(***************************************************************************)
EXTENDS PangolinManager, TLAPS

Active == Calls \cup {"undo", "undo_resource", "applied"}

(* The rollback state fits the position: it names what the apply changed, and
   holds what was there before if, and only if, others created it. *)
Remembered(r) ==
    /\ pc[r] \notin Active => mem[r] = NoState
    /\ pc[r] \in Active => mem[r].resource \in Resources
    /\ mem[r].resource \notin {r, Nobody} => mem[r].before # Nobody
    /\ mem[r].target \in {r, Nobody} <=> mem[r].target_before = Nobody
    /\ mem[r].target # Nobody => Site[mem[r].target] = Site[r]
    /\ mem[r].target_before \in Requests => Site[mem[r].target_before] = Site[r]
    /\ pc[r] = "update_target" => mem[r].target_before # Nobody
    /\ pc[r] \in {"update", "list", "create_target"} => mem[r].target = Nobody
    /\ pc[r] = "undo_resource" => mem[r].resource # r
    /\ ~ clean[r] => pc[r] \in {"undo", "undo_resource", "undone", "dead"}

(* What an apply created is in its rollback state, until it is deleted. *)
Owned(r) ==
    clean[r] /\ pc[r] # "dead" =>
        /\ settings[r] # Gone => mem[r].resource = r /\ pc[r] # "undo_resource"
        /\ targets[r] # Gone =>
              /\ mem[r].target = r /\ pc[r] \in {"applied", "undo"}
              /\ targets[r].on = mem[r].resource

(* What others created is there, and its targets are where they were. *)
OldKept ==
    /\ \A c \in OldResources : settings[c] # Gone
    /\ \A t \in OldTargets : targets[t] # Gone /\ targets[t].on = OldOn[t]

(* A target has the upstream of a route for its site. *)
SitesKept ==
    \A t \in Targets :
        targets[t] # Gone => targets[t].as = Old \/ Site[targets[t].as] = Site[t]

IInv ==
    /\ TypeOK /\ OldKept /\ SitesKept
    /\ \A r \in Requests : Remembered(r) /\ Owned(r)

(* What a step of r may do to what r did not create. *)
Effect(r) ==
    /\ settings' \in [Resources -> Contents \cup {Gone}]
    /\ targets' \in [Targets -> TargetStates]
    /\ \A c \in Resources \ {r} :
          settings'[c] = settings[c] \/ (settings[c] # Gone /\ settings'[c] # Gone)
    /\ \A t \in Targets :
          \/ t = r
          \/ targets'[t] = targets[t]
          \/ targets[t] # Gone /\ targets[t].on = r /\ targets'[t] = Gone
          \/ /\ targets[t] # Gone /\ targets'[t] # Gone
             /\ targets'[t].on = targets[t].on
    /\ \A t \in Targets :
          \/ targets'[t] = targets[t]
          \/ targets'[t] = Gone
          \/ targets'[t].as = Old \/ Site[targets'[t].as] = Site[t]

(* Nothing but r's own state changes. *)
Local(r) ==
    /\ pc' \in [Requests -> Positions] /\ mem' \in [Requests -> States]
    /\ clean' \in [Requests -> BOOLEAN] /\ faults' \in 0..MaxFaults
    /\ \A s \in Requests \ {r} : pc'[s] = pc[s] /\ mem'[s] = mem[s] /\ clean'[s] = clean[s]

HistoryOK ==
    /\ found' \in [Requests -> {Nobody} \cup
                      [settings : [Resources -> Contents \cup {Gone}],
                       targets : [Targets -> TargetStates]]]
    /\ alone' \in [Requests -> BOOLEAN]

Names ==
    /\ OldOn \in [OldTargets -> OldResources] /\ MaxFaults \in Nat
    /\ Requests \cap (OldResources \cup OldTargets) = {}
    /\ Nobody \notin Resources \cup Targets
    /\ {Gone, Fresh, Old, Nobody} \cap Requests = {}
    /\ Gone \notin {Fresh, Old, Nobody} /\ Nobody \notin {Fresh, Old} /\ Fresh # Old
    /\ Gone \notin [on : Resources, as : Requests \cup {Old}]
    /\ Resources = Requests \cup OldResources /\ Targets = Requests \cup OldTargets

LEMMA NamesFact == Names
BY NamesAssumption, OldAssumption, BoundsAssumption DEF Names, Resources, Targets

-----------------------------------------------------------------------------
LEMMA InitIInv == Init => IInv
<1> SUFFICES ASSUME Init PROVE IInv
  OBVIOUS
<1> USE NamesFact DEF Init, Names
<1>1. NoState \in States
  BY DEF NoState, States
<1>2. TypeOK
  BY <1>1 DEF TypeOK, TargetStates, Contents, Positions
<1>3. OldKept /\ SitesKept
  BY DEF OldKept, SitesKept
<1>4. \A r \in Requests : Remembered(r) /\ Owned(r)
  BY DEF Remembered, Owned, NoState, Active, Calls
<1> QED
  BY <1>2, <1>3, <1>4 DEF IInv

(* A step of r preserves the invariant if it changes no more of the edge than
   it may, and r's own part holds after it. *)
LEMMA StepOf ==
    ASSUME IInv, NEW r \in Requests, Effect(r), Local(r), HistoryOK,
           Remembered(r)', Owned(r)'
    PROVE  IInv'
<1> USE NamesFact DEF Names, IInv
<1>1. TypeOK'
  BY DEF TypeOK, Effect, Local, HistoryOK
<1>2. OldKept'
  <2>1. ASSUME NEW c \in OldResources PROVE settings'[c] # Gone
    BY DEF OldKept, Effect
  <2>2. ASSUME NEW t \in OldTargets PROVE targets'[t] # Gone /\ targets'[t].on = OldOn[t]
    <3>1. t \in Targets /\ t # r /\ OldOn[t] # r /\ targets[t] # Gone /\ targets[t].on = OldOn[t]
      BY DEF OldKept
    <3> QED
      BY <3>1 DEF Effect
  <2> QED
    BY <2>1, <2>2 DEF OldKept
<1>3. SitesKept'
  BY DEF SitesKept, Effect
<1>4. ASSUME NEW s \in Requests \ {r} PROVE Remembered(s)' /\ Owned(s)'
  <2>1. pc'[s] = pc[s] /\ mem'[s] = mem[s] /\ clean'[s] = clean[s]
    BY DEF Local
  <2>2. Remembered(s)'
    BY <2>1 DEF Remembered, Active, Calls
  <2>3. settings[s] = Gone => settings'[s] = Gone
    BY DEF Effect
  <2>4. \/ targets'[s] = targets[s] \/ targets'[s] = Gone
        \/ targets[s] # Gone /\ targets'[s].on = targets[s].on
    BY DEF Effect
  <2> QED
    BY <2>1, <2>2, <2>3, <2>4 DEF Owned
<1> QED
  BY <1>1, <1>2, <1>3, <1>4

LEMMA SameEdge == ASSUME IInv, NEW r \in Requests, UNCHANGED edge PROVE Effect(r)
BY DEF Effect, edge, IInv, TypeOK

LEMMA SameHistory == ASSUME IInv, UNCHANGED <<alone, found>> PROVE HistoryOK
BY DEF HistoryOK, IInv, TypeOK

LEMMA BeginsHistory ==
    ASSUME IInv, NEW r \in Requests, Begins(r) PROVE HistoryOK /\ clean' = clean
<1> USE DEF IInv, TypeOK
<1>1. alone' \in [Requests -> BOOLEAN] /\ clean' = clean
  BY DEF Begins, InProgress
<1>2. found' \in [Requests -> {Nobody} \cup
                      [settings : [Resources -> Contents \cup {Gone}],
                       targets : [Targets -> TargetStates]]]
  BY DEF Begins
<1> QED
  BY <1>1, <1>2 DEF HistoryOK

LEMMA EndsLocal ==
    ASSUME IInv, NEW r \in Requests, Ends(r) PROVE
        /\ HistoryOK
        /\ pc' \in [Requests -> Positions] /\ pc'[r] = "undone"
        /\ mem' \in [Requests -> States] /\ mem'[r] = NoState
        /\ \A s \in Requests \ {r} : pc'[s] = pc[s] /\ mem'[s] = mem[s]
<1> USE DEF IInv, TypeOK
<1>1. NoState \in States
  BY DEF NoState, States
<1>2. HistoryOK
  BY DEF Ends, HistoryOK
<1> QED
  BY <1>1, <1>2 DEF Ends, Goto, Positions

-----------------------------------------------------------------------------
(* apply, up to the resource. *)
LEMMA LookupSteps ==
    ASSUME IInv, NEW r \in Requests,
           Ambiguous(r) \/ LookupFails(r) \/ NotPublished(r)
    PROVE  IInv'
<1> USE NamesFact DEF Names
<1>1. pc[r] = "idle" /\ Begins(r) /\ UNCHANGED <<edge, mem>> /\ faults' \in 0..MaxFaults
  BY DEF Ambiguous, LookupFails, NotPublished, Fault, IInv, TypeOK
<1>2. /\ pc' \in [Requests -> Positions] /\ pc'[r] \in {"undone", "create"}
      /\ \A s \in Requests \ {r} : pc'[s] = pc[s]
  BY DEF Ambiguous, LookupFails, NotPublished, Goto, Positions, IInv, TypeOK
<1>3. Effect(r) /\ HistoryOK /\ clean' = clean
  BY <1>1, SameEdge, BeginsHistory
<1>4. Local(r)
  BY <1>1, <1>2, <1>3 DEF Local, IInv, TypeOK
<1>5. Remembered(r)' /\ Owned(r)'
  BY <1>1, <1>2, <1>3 DEF IInv, Remembered, Owned, Active, Calls, NoState, edge
<1> QED
  BY <1>3, <1>4, <1>5, StepOf

LEMMA AdoptStep == ASSUME IInv, NEW r \in Requests, Adopt(r) PROVE IInv'
<1> USE NamesFact DEF Names
<1>1. PICK c \in Resources :
         /\ Matching(r) = {c}
         /\ mem' = [mem EXCEPT ![r].resource = c, ![r].before = settings[c]]
  BY DEF Adopt
<1>2. c \in Resources /\ settings[c] \in Contents
  BY <1>1 DEF Matching, IInv, TypeOK
<1>3. pc[r] = "idle" /\ Begins(r) /\ UNCHANGED <<edge, faults>> /\ mem[r] = NoState
  BY DEF Adopt, IInv, Remembered, Active, Calls
<1>4. /\ pc' \in [Requests -> Positions] /\ pc'[r] = "update"
      /\ \A s \in Requests \ {r} : pc'[s] = pc[s]
  BY DEF Adopt, Goto, Positions, Calls, IInv, TypeOK
<1>5. /\ mem' \in [Requests -> States]
      /\ mem'[r] = [NoState EXCEPT !.resource = c, !.before = settings[c]]
      /\ \A s \in Requests \ {r} : mem'[s] = mem[s]
  <2>1. NoState \in States /\ mem \in [Requests -> States]
    BY DEF NoState, States, IInv, TypeOK
  <2>2. [NoState EXCEPT !.resource = c, !.before = settings[c]] \in States
    BY <2>1, <1>2 DEF States
  <2>3. mem' = [mem EXCEPT ![r] = [NoState EXCEPT !.resource = c, !.before = settings[c]]]
    BY <2>1, <1>1, <1>3
  <2> HIDE DEF Names
  <2> QED
    BY <2>1, <2>2, <2>3
<1>6. Effect(r) /\ HistoryOK /\ clean' = clean
  BY <1>3, SameEdge, BeginsHistory
<1>7. Local(r)
  BY <1>3, <1>4, <1>5, <1>6 DEF Local, IInv, TypeOK
<1>8. Remembered(r)' /\ Owned(r)'
  <2>1. settings[r] = Gone \/ ~ clean[r]
    BY <1>3 DEF IInv, Owned, NoState
  <2>2. targets[r] = Gone \/ ~ clean[r]
    BY <1>3 DEF IInv, Owned, NoState
  <2>3. /\ mem'[r].resource = c /\ mem'[r].before = settings[c]
        /\ mem'[r].target = Nobody /\ mem'[r].target_before = Nobody
    BY <1>5 DEF NoState
  <2>4. settings[c] # Nobody
    BY <1>2 DEF Contents
  <2>5. Remembered(r)'
    BY <2>3, <2>4, <1>2, <1>3, <1>4, <1>6 DEF IInv, Remembered, Active, Calls
  <2>6. Owned(r)'
    BY <2>1, <2>2, <1>3, <1>4, <1>6 DEF Owned, edge
  <2> QED
    BY <2>5, <2>6
<1> QED
  BY <1>6, <1>7, <1>8, StepOf

LEMMA CreateResourceStep ==
    ASSUME IInv, NEW r \in Requests, CreateResource(r) PROVE IInv'
<1> USE NamesFact DEF Names
<1>1. /\ pc[r] = "create" /\ UNCHANGED <<targets, faults, history>>
      /\ settings' = [settings EXCEPT ![r] = Fresh] /\ mem[r] = NoState
  BY DEF CreateResource, SetResource, IInv, Remembered, Active, Calls
<1>2. /\ pc' \in [Requests -> Positions] /\ pc'[r] = "update"
      /\ \A s \in Requests \ {r} : pc'[s] = pc[s]
  BY DEF CreateResource, Goto, Positions, Calls, IInv, TypeOK
<1>3. /\ mem' \in [Requests -> States]
      /\ mem'[r] = [NoState EXCEPT !.resource = r]
      /\ \A s \in Requests \ {r} : mem'[s] = mem[s]
  BY <1>1 DEF CreateResource, States, IInv, TypeOK
<1>4. Effect(r)
  BY <1>1 DEF Effect, IInv, TypeOK, SitesKept, Contents
<1>5. Local(r) /\ HistoryOK
  BY <1>1, <1>2, <1>3, SameHistory DEF Local, IInv, TypeOK, history
<1>6. Remembered(r)' /\ Owned(r)'
  BY <1>1, <1>2, <1>3
  DEF IInv, Remembered, Owned, Active, Calls, NoState, history, TypeOK
<1> QED
  BY <1>4, <1>5, <1>6, StepOf

LEMMA CreateFailsStep ==
    ASSUME IInv, NEW r \in Requests, CreateFails(r) PROVE IInv'
<1> USE NamesFact DEF Names
<1>1. pc[r] = "create" /\ faults' \in 0..MaxFaults /\ Ends(r)
  BY DEF CreateFails, Fault, IInv, TypeOK
<1>2. \/ UNCHANGED <<edge, clean>>
      \/ SetResource(r, Fresh) /\ clean' = [clean EXCEPT ![r] = FALSE]
  BY DEF CreateFails
<1>3. Effect(r)
  BY <1>2, SameEdge DEF Effect, IInv, TypeOK, SitesKept, Contents, SetResource
<1>4. /\ HistoryOK
      /\ pc' \in [Requests -> Positions] /\ pc'[r] = "undone"
      /\ mem' \in [Requests -> States] /\ mem'[r] = NoState
      /\ \A s \in Requests \ {r} : pc'[s] = pc[s] /\ mem'[s] = mem[s]
  BY <1>1, EndsLocal
<1>5. Local(r)
  BY <1>1, <1>2, <1>4 DEF Local, IInv, TypeOK
<1>6. Remembered(r)'
  BY <1>4 DEF Remembered, Active, Calls, NoState
<1>7. mem[r] = NoState /\ pc[r] = "create"
  BY <1>1 DEF IInv, Remembered, Active, Calls
<1>8. Owned(r)'
  BY <1>2, <1>4, <1>7 DEF IInv, Owned, NoState, TypeOK, edge
<1> QED
  BY <1>3, <1>4, <1>5, <1>6, <1>8, StepOf

LEMMA UpdateStep == ASSUME IInv, NEW r \in Requests, Update(r) PROVE IInv'
<1> USE NamesFact DEF Names
<1> DEFINE c == mem[r].resource
<1>1. /\ pc[r] = "update" /\ UNCHANGED <<targets, mem, faults, history>>
      /\ c \in Resources /\ settings[c] # Gone
      /\ settings' = [settings EXCEPT ![c] = r]
  BY DEF Update, Exists, SetResource, IInv, Remembered, Active, Calls
<1>2. /\ pc' \in [Requests -> Positions] /\ pc'[r] = "list"
      /\ \A s \in Requests \ {r} : pc'[s] = pc[s]
  BY DEF Update, Goto, Positions, Calls, IInv, TypeOK
<1> HIDE DEF c
<1>3. Effect(r)
  BY <1>1 DEF Effect, IInv, TypeOK, SitesKept, Contents
<1>4. Local(r) /\ HistoryOK
  BY <1>1, <1>2, SameHistory DEF Local, IInv, TypeOK, history
<1>5. Remembered(r)'
  BY <1>1, <1>2 DEF IInv, Remembered, Active, Calls, history
<1>6. settings'[r] # Gone => settings[r] # Gone
  BY <1>1 DEF IInv, TypeOK
<1>7. Owned(r)'
  BY <1>1, <1>2, <1>6 DEF IInv, Owned, history
<1> QED
  BY <1>3, <1>4, <1>5, <1>7, StepOf

-----------------------------------------------------------------------------
(* apply, from the target on. *)
LEMMA ListTargetsStep == ASSUME IInv, NEW r \in Requests, ListTargets(r) PROVE IInv'
<1> USE NamesFact DEF Names
<1>1. /\ pc[r] = "list" /\ UNCHANGED <<edge, faults, history>>
      /\ mem[r].target = Nobody /\ mem[r].target_before = Nobody
      /\ mem[r].resource \in Resources /\ clean[r]
      /\ mem[r].resource \notin {r, Nobody} => mem[r].before # Nobody
  BY DEF ListTargets, IInv, Remembered, Active, Calls
<1>2. targets[r] = Gone
  BY <1>1 DEF IInv, Owned
<1>3. Effect(r) /\ HistoryOK
  BY <1>1, SameEdge, SameHistory DEF history
<1>4. CASE UNCHANGED mem /\ Goto(r, "create_target")
  <2>1. /\ pc' \in [Requests -> Positions] /\ pc'[r] = "create_target"
        /\ \A s \in Requests \ {r} : pc'[s] = pc[s]
    BY <1>4 DEF Goto, Positions, Calls, IInv, TypeOK
  <2>2. Local(r)
    BY <1>1, <1>4, <2>1 DEF Local, IInv, TypeOK, history
  <2>3. Remembered(r)' /\ Owned(r)'
    BY <1>1, <1>2, <1>4, <2>1 DEF IInv, Remembered, Owned, Active, Calls, history, edge
  <2> QED
    BY <1>3, <2>2, <2>3, StepOf
<1>5. ASSUME NEW t \in OnSite(r), Goto(r, "update_target"),
             mem' = [mem EXCEPT ![r].target = t, ![r].target_before = targets[t].as]
      PROVE  IInv'
  <2>1. /\ pc' \in [Requests -> Positions] /\ pc'[r] = "update_target"
        /\ \A s \in Requests \ {r} : pc'[s] = pc[s]
    BY <1>5 DEF Goto, Positions, Calls, IInv, TypeOK
  <2>2. /\ t \in Targets /\ targets[t] # Gone /\ Site[t] = Site[r] /\ t # r
        /\ targets[t].as \in Requests \cup {Old}
        /\ targets[t].as = Old \/ Site[targets[t].as] = Site[t]
    BY <1>2 DEF OnSite, IInv, SitesKept, TypeOK, TargetStates
  <2> DEFINE m == [mem[r] EXCEPT !.target = t, !.target_before = targets[t].as]
  <2>3. mem \in [Requests -> States] /\ mem[r] \in States
    BY DEF IInv, TypeOK
  <2>4. /\ m \in States
        /\ m.target = t /\ m.target_before = targets[t].as
        /\ m.resource = mem[r].resource /\ m.before = mem[r].before
    <3> DEFINE s == mem[r]
               b == targets[t].as
    <3>1. s \in States /\ b \in Requests \cup {Old} /\ t \in Targets
      BY <2>2, <2>3
    <3> HIDE DEF s, b
    <3>2. /\ [s EXCEPT !.target = t, !.target_before = b] \in States
          /\ [s EXCEPT !.target = t, !.target_before = b].target = t
          /\ [s EXCEPT !.target = t, !.target_before = b].target_before = b
          /\ [s EXCEPT !.target = t, !.target_before = b].resource = s.resource
          /\ [s EXCEPT !.target = t, !.target_before = b].before = s.before
      BY <3>1 DEF States
    <3> QED
      BY <3>2 DEF s, b
  <2>5. mem' = [mem EXCEPT ![r] = m]
    BY <1>5, <2>3
  <2> HIDE DEF m
  <2>6. /\ mem' \in [Requests -> States] /\ mem'[r] = m
        /\ \A s \in Requests \ {r} : mem'[s] = mem[s]
    BY <2>3, <2>4, <2>5
  <2>7. Local(r)
    BY <1>1, <2>1, <2>6 DEF Local, IInv, TypeOK, history
  <2>8. Remembered(r)'
    BY <1>1, <2>1, <2>2, <2>4, <2>6 DEF Remembered, Active, Calls, history
  <2>9. Owned(r)'
    BY <1>1, <1>2, <2>1, <2>4, <2>6 DEF IInv, Owned, history, edge
  <2> QED
    BY <1>3, <2>7, <2>8, <2>9, StepOf
<1> QED
  BY <1>4, <1>5 DEF ListTargets

LEMMA CreateTargetStep == ASSUME IInv, NEW r \in Requests, CreateTarget(r) PROVE IInv'
<1> USE NamesFact DEF Names
<1> DEFINE m == [mem[r] EXCEPT !.target = r]
<1>1. /\ pc[r] = "create_target" /\ UNCHANGED <<settings, faults, history>>
      /\ mem[r].target = Nobody /\ mem[r].target_before = Nobody
      /\ mem[r].resource \in Resources /\ clean[r]
      /\ mem[r].resource \notin {r, Nobody} => mem[r].before # Nobody
      /\ targets' = [targets EXCEPT ![r] = NewTarget(r)]
  BY DEF CreateTarget, SetTarget, IInv, Remembered, Active, Calls
<1>2. /\ pc' \in [Requests -> Positions] /\ pc'[r] = "applied"
      /\ \A s \in Requests \ {r} : pc'[s] = pc[s]
  BY DEF CreateTarget, Goto, Positions, IInv, TypeOK
<1>3. mem \in [Requests -> States] /\ m \in States
  BY DEF States, IInv, TypeOK
<1>4. /\ m.target = r /\ m.target_before = mem[r].target_before
      /\ m.resource = mem[r].resource /\ m.before = mem[r].before
  BY <1>3 DEF States
<1>5. mem' = [mem EXCEPT ![r] = m]
  BY DEF CreateTarget
<1> HIDE DEF m
<1>6. /\ mem' \in [Requests -> States] /\ mem'[r] = m
      /\ \A s \in Requests \ {r} : mem'[s] = mem[s]
  BY <1>3, <1>5
<1>7. NewTarget(r) \in TargetStates /\ NewTarget(r).as = r /\ NewTarget(r).on = mem[r].resource
  BY <1>1 DEF NewTarget, TargetStates
<1>8. Effect(r)
  BY <1>1, <1>7 DEF Effect, IInv, TypeOK, SitesKept
<1>9. Local(r) /\ HistoryOK
  BY <1>1, <1>2, <1>6, SameHistory DEF Local, IInv, TypeOK, history
<1>10. Remembered(r)'
  BY <1>1, <1>2, <1>4, <1>6 DEF Remembered, Active, Calls, history
<1>11. Owned(r)'
  <2>1. targets'[r] = NewTarget(r)
    BY <1>1 DEF IInv, TypeOK
  <2> QED
    BY <2>1, <1>1, <1>2, <1>4, <1>6, <1>7 DEF IInv, Owned, history
<1> QED
  BY <1>8, <1>9, <1>10, <1>11, StepOf

(* Rewriting a target that is there, for the site it has. *)
LEMMA RewriteEffect ==
    ASSUME IInv, NEW r \in Requests, NEW t \in Targets, NEW content \in Requests \cup {Old},
           content = Old \/ Site[content] = Site[t], Rewrite(t, content)
    PROVE  /\ Effect(r)
           /\ targets[t] # Gone /\ targets'[t] # Gone /\ targets'[t].on = targets[t].on
           /\ \A u \in Targets \ {t} : targets'[u] = targets[u]
<1> USE NamesFact DEF Names
<1> DEFINE new == [targets[t] EXCEPT !.as = content]
<1>1. /\ targets \in [Targets -> TargetStates] /\ targets[t] # Gone
      /\ settings' = settings /\ targets' = [targets EXCEPT ![t] = new]
  BY DEF Rewrite, SetTarget, IInv, TypeOK
<1>2. targets[t] \in [on : Resources, as : Requests \cup {Old}]
  BY <1>1 DEF TargetStates
<1>3. /\ new \in [on : Resources, as : Requests \cup {Old}]
      /\ new.as = content /\ new.on = targets[t].on
  BY <1>2
<1> HIDE DEF new
<1>4. new # Gone /\ new \in TargetStates
  BY <1>3 DEF TargetStates
<1>5. targets'[t] = new /\ \A u \in Targets \ {t} : targets'[u] = targets[u]
  BY <1>1
<1>6. targets' \in [Targets -> TargetStates]
  BY <1>1, <1>4
<1>7. settings' \in [Resources -> Contents \cup {Gone}]
  BY <1>1 DEF IInv, TypeOK
<1>8. Effect(r)
  BY <1>1, <1>3, <1>4, <1>5, <1>6, <1>7 DEF Effect
<1> QED
  BY <1>1, <1>3, <1>4, <1>5, <1>8

LEMMA UpdateTargetStep == ASSUME IInv, NEW r \in Requests, UpdateTarget(r) PROVE IInv'
<1> USE NamesFact DEF Names
<1> DEFINE t == mem[r].target
<1>1. /\ pc[r] = "update_target" /\ UNCHANGED <<mem, faults, history>> /\ Rewrite(t, r)
      /\ clean[r] /\ t \notin {r, Nobody} /\ Site[t] = Site[r]
  BY DEF UpdateTarget, IInv, Remembered, Active, Calls
<1>2. t \in Targets
  BY <1>1 DEF IInv, TypeOK, States
<1>3. /\ pc' \in [Requests -> Positions] /\ pc'[r] = "applied"
      /\ \A s \in Requests \ {r} : pc'[s] = pc[s]
  BY DEF UpdateTarget, Goto, Positions, IInv, TypeOK
<1> HIDE DEF t
<1>4. Effect(r) /\ targets'[r] = targets[r] /\ settings' = settings
  <2>1. /\ Effect(r)
        /\ \A u \in Targets \ {t} : targets'[u] = targets[u]
    BY <1>1, <1>2, RewriteEffect
  <2> QED
    BY <2>1, <1>1 DEF Rewrite, SetTarget
<1>5. Local(r) /\ HistoryOK
  BY <1>1, <1>3, SameHistory DEF Local, IInv, TypeOK, history
<1>6. Remembered(r)'
  BY <1>1, <1>3 DEF IInv, Remembered, Active, Calls, history
<1>7. Owned(r)'
  BY <1>1, <1>3, <1>4 DEF IInv, Owned, history
<1> QED
  BY <1>4, <1>5, <1>6, <1>7, StepOf

LEMMA CallRefusedStep == ASSUME IInv, NEW r \in Requests, CallRefused(r) PROVE IInv'
<1> USE NamesFact DEF Names
<1>1. pc[r] \in Calls /\ UNCHANGED <<edge, mem, faults, history>>
  BY DEF CallRefused, Calls
<1>2. /\ pc' \in [Requests -> Positions] /\ pc'[r] = "undo"
      /\ \A s \in Requests \ {r} : pc'[s] = pc[s]
  BY DEF CallRefused, Goto, Positions, IInv, TypeOK
<1>3. Effect(r) /\ HistoryOK
  BY <1>1, SameEdge, SameHistory DEF history
<1>4. Local(r)
  BY <1>1, <1>2 DEF Local, IInv, TypeOK, history
<1>5. Remembered(r)'
  BY <1>1, <1>2 DEF IInv, Remembered, Active, Calls, history
<1>6. Owned(r)'
  BY <1>1, <1>2 DEF IInv, Owned, history, edge, Calls
<1> QED
  BY <1>3, <1>4, <1>5, <1>6, StepOf

LEMMA CallFailsStep == ASSUME IInv, NEW r \in Requests, CallFails(r) PROVE IInv'
<1> USE NamesFact DEF Names
<1> DEFINE c == mem[r].resource
<1>1. /\ pc[r] \in Calls /\ UNCHANGED <<mem, found, alone>> /\ faults' \in 0..MaxFaults
      /\ c \in Resources /\ clean[r]
  BY DEF CallFails, Fault, IInv, TypeOK, Remembered, Active, Calls
<1>2. /\ pc' \in [Requests -> Positions] /\ pc'[r] = "undo"
      /\ \A s \in Requests \ {r} : pc'[s] = pc[s]
  BY DEF CallFails, Goto, Positions, IInv, TypeOK
<1>3. /\ Effect(r) /\ clean' \in [Requests -> BOOLEAN]
      /\ \A s \in Requests \ {r} : clean'[s] = clean[s]
      /\ clean'[r] => (settings'[r] # Gone => settings[r] # Gone) /\ targets'[r] = targets[r]
  <2>1. CASE UNCHANGED <<edge, clean>>
    BY <2>1, SameEdge DEF edge, IInv, TypeOK
  <2>2. CASE pc[r] = "update" /\ Exists(r) /\ SetResource(mem[r].resource, r) /\ UNCHANGED clean
    <3>1. settings[c] # Gone /\ settings' = [settings EXCEPT ![c] = r] /\ UNCHANGED <<targets, clean>>
      BY <2>2 DEF Exists, SetResource
    <3> HIDE DEF c
    <3> QED
      BY <3>1, <1>1 DEF Effect, IInv, TypeOK, SitesKept, Contents
  <2>3. CASE SetTarget(r, NewTarget(r)) /\ clean' = [clean EXCEPT ![r] = FALSE]
    <3>1. NewTarget(r) \in TargetStates /\ NewTarget(r).as = r
      BY <1>1 DEF NewTarget, TargetStates
    <3> QED
      BY <2>3, <3>1 DEF SetTarget, Effect, IInv, TypeOK, SitesKept
  <2>4. CASE pc[r] = "update_target" /\ Rewrite(mem[r].target, r) /\ UNCHANGED clean
    <3>1. /\ mem[r].target \notin {r, Nobody} /\ Site[mem[r].target] = Site[r]
          /\ mem[r].target \in Targets
      BY <2>4 DEF IInv, TypeOK, States, Remembered
    <3>2. /\ Effect(r)
          /\ \A u \in Targets \ {mem[r].target} : targets'[u] = targets[u]
      BY <2>4, <3>1, RewriteEffect
    <3>3. Effect(r) /\ targets'[r] = targets[r] /\ settings' = settings
      BY <2>4, <3>1, <3>2 DEF Rewrite, SetTarget
    <3> QED
      BY <2>4, <3>3 DEF IInv, TypeOK
  <2> QED
    BY <2>1, <2>2, <2>3, <2>4 DEF CallFails, Hidden
<1>4. Local(r) /\ HistoryOK
  BY <1>1, <1>2, <1>3, SameHistory DEF Local, IInv, TypeOK
<1>5. Remembered(r)'
  BY <1>1, <1>2 DEF IInv, Remembered, Active, Calls
<1>6. Owned(r)'
  BY <1>1, <1>2, <1>3 DEF IInv, Owned, Calls
<1> QED
  BY <1>3, <1>4, <1>5, <1>6, StepOf

-----------------------------------------------------------------------------
(* rollback. *)
LEMMA UndoAppliedStep == ASSUME IInv, NEW r \in Requests, UndoApplied(r) PROVE IInv'
<1> USE NamesFact DEF Names
<1>1. pc[r] = "applied" /\ UNCHANGED <<edge, mem, faults>> /\ Begins(r)
  BY DEF UndoApplied
<1>2. /\ pc' \in [Requests -> Positions] /\ pc'[r] = "undo"
      /\ \A s \in Requests \ {r} : pc'[s] = pc[s]
  BY DEF UndoApplied, Goto, Positions, IInv, TypeOK
<1>3. Effect(r) /\ HistoryOK /\ clean' = clean
  BY <1>1, SameEdge, BeginsHistory
<1>4. Local(r)
  BY <1>1, <1>2, <1>3 DEF Local, IInv, TypeOK
<1>5. Remembered(r)'
  BY <1>1, <1>2, <1>3 DEF IInv, Remembered, Active, Calls
<1>6. Owned(r)'
  BY <1>1, <1>2, <1>3 DEF IInv, Owned, edge
<1> QED
  BY <1>3, <1>4, <1>5, <1>6, StepOf

LEMMA DeletedEffect ==
    ASSUME IInv, NEW r \in Requests, Deleted(r), mem[r].resource = r, pc[r] = "undo"
    PROVE  /\ Effect(r)
           /\ clean[r] => settings'[r] = Gone /\ targets'[r] = Gone
<1> USE NamesFact DEF Names
<1>1. Effect(r) /\ settings'[r] = Gone
  BY DEF Deleted, Effect, IInv, TypeOK, TargetStates, SitesKept
<1>2. ASSUME clean[r] PROVE targets'[r] = Gone
  <2>1. targets[r] # Gone => targets[r].on = r
    BY <1>2 DEF IInv, Owned
  <2> QED
    BY <2>1 DEF Deleted
<1> QED
  BY <1>1, <1>2

LEMMA DeleteResourceStep ==
    ASSUME IInv, NEW r \in Requests, DeleteResource(r) PROVE IInv'
<1>1. /\ Effect(r) /\ UNCHANGED <<faults, clean>> /\ Ends(r)
      /\ clean[r] => settings'[r] = Gone /\ targets'[r] = Gone
  BY DeletedEffect DEF DeleteResource
<1>2. /\ HistoryOK
      /\ pc' \in [Requests -> Positions] /\ pc'[r] = "undone"
      /\ mem' \in [Requests -> States] /\ mem'[r] = NoState
      /\ \A s \in Requests \ {r} : pc'[s] = pc[s] /\ mem'[s] = mem[s]
  BY <1>1, EndsLocal
<1>3. Local(r)
  BY <1>1, <1>2 DEF Local, IInv, TypeOK
<1>4. Remembered(r)'
  BY <1>2, NamesFact DEF Remembered, Active, Calls, NoState, Names
<1>5. Owned(r)'
  BY <1>1, <1>2 DEF Owned
<1> QED
  BY <1>1, <1>2, <1>3, <1>4, <1>5, StepOf

(* Undoing the target leaves none of r's own. *)
LEMMA TargetUndoneEffect ==
    ASSUME IInv, NEW r \in Requests, TargetUndone(r), pc[r] = "undo", mem[r].resource # r
    PROVE  /\ Effect(r) /\ settings' = settings
           /\ clean[r] => settings'[r] = Gone /\ targets'[r] = Gone
<1> USE NamesFact DEF Names
<1> DEFINE t == mem[r].target
           b == mem[r].target_before
<1>1. /\ t \in Targets \cup {Nobody} /\ b \in Requests \cup {Old, Nobody}
      /\ t \in {r, Nobody} <=> b = Nobody
      /\ t # Nobody => Site[t] = Site[r]
      /\ b \in Requests => Site[b] = Site[r]
  BY DEF IInv, TypeOK, States, Remembered
<1>2. clean[r] => settings[r] = Gone /\ (targets[r] # Gone => t = r)
  BY DEF IInv, Owned
<1>3. \/ t = Nobody /\ UNCHANGED edge
      \/ t = r /\ SetTarget(r, Gone)
      \/ b # Nobody /\ Rewrite(t, b)
  BY DEF TargetUndone
<1> HIDE DEF t, b
<1>4. CASE t = Nobody /\ UNCHANGED edge
  BY <1>2, <1>4, SameEdge DEF edge
<1>5. CASE t = r /\ SetTarget(r, Gone)
  <2>1. settings' = settings /\ targets' = [targets EXCEPT ![r] = Gone]
    BY <1>5 DEF SetTarget
  <2>2. Effect(r) /\ targets'[r] = Gone
    BY <2>1 DEF Effect, IInv, TypeOK, TargetStates
  <2> QED
    BY <1>2, <2>1, <2>2
<1>6. CASE b # Nobody /\ Rewrite(t, b)
  <2>1. t \in Targets \ {r} /\ b \in Requests \cup {Old} /\ (b = Old \/ Site[b] = Site[t])
    BY <1>1, <1>6
  <2>2. Effect(r) /\ \A u \in Targets \ {t} : targets'[u] = targets[u]
    BY <1>6, <2>1, RewriteEffect
  <2>3. settings' = settings
    BY <1>6 DEF Rewrite, SetTarget
  <2> QED
    BY <1>2, <2>1, <2>2, <2>3
<1> QED
  BY <1>3, <1>4, <1>5, <1>6

LEMMA UndoTargetStep == ASSUME IInv, NEW r \in Requests, UndoTarget(r) PROVE IInv'
<1>1. /\ Effect(r) /\ UNCHANGED <<mem, faults, history>>
      /\ pc[r] = "undo" /\ mem[r].resource # r
      /\ clean[r] => settings'[r] = Gone /\ targets'[r] = Gone
  BY TargetUndoneEffect DEF UndoTarget
<1>2. /\ pc' \in [Requests -> Positions] /\ pc'[r] = "undo_resource"
      /\ \A s \in Requests \ {r} : pc'[s] = pc[s]
  BY DEF UndoTarget, Goto, Positions, IInv, TypeOK
<1>3. Local(r) /\ HistoryOK
  BY <1>1, <1>2, SameHistory DEF Local, IInv, TypeOK, history
<1>4. Remembered(r)'
  BY <1>1, <1>2 DEF IInv, Remembered, Active, Calls, history
<1>5. Owned(r)'
  BY <1>1, <1>2 DEF Owned, history
<1> QED
  BY <1>1, <1>3, <1>4, <1>5, StepOf

(* Putting a resource back that others created, and that is still there. *)
LEMMA RestoredEffect ==
    ASSUME IInv, NEW r \in Requests, pc[r] = "undo_resource", Exists(r),
           SetResource(mem[r].resource, mem[r].before)
    PROVE  /\ Effect(r)
           /\ clean[r] => settings'[r] = Gone /\ targets'[r] = Gone
<1> USE NamesFact DEF Names
<1> DEFINE c == mem[r].resource
           b == mem[r].before
<1>1. /\ c \in Resources /\ b \in Contents \cup {Nobody}
      /\ c # r => b # Nobody
      /\ settings[c] # Gone /\ targets' = targets /\ settings' = [settings EXCEPT ![c] = b]
  BY DEF IInv, TypeOK, States, Remembered, Active, Exists, SetResource
<1> HIDE DEF b
<1>2. ASSUME clean[r] PROVE settings[r] = Gone /\ targets[r] = Gone
  BY <1>2 DEF IInv, Owned
<1>3. c # r
  BY DEF IInv, Remembered
<1> HIDE DEF c
<1>4. Effect(r)
  BY <1>1, <1>3 DEF Effect, IInv, TypeOK, SitesKept, Contents
<1>5. settings'[r] = settings[r]
  BY <1>1, <1>3 DEF IInv, TypeOK
<1> QED
  BY <1>1, <1>2, <1>4, <1>5

LEMMA UndoResourceStep == ASSUME IInv, NEW r \in Requests, UndoResource(r) PROVE IInv'
<1>1. /\ Effect(r) /\ UNCHANGED <<faults, clean>> /\ Ends(r)
      /\ clean[r] => settings'[r] = Gone /\ targets'[r] = Gone
  BY RestoredEffect DEF UndoResource
<1>2. /\ HistoryOK
      /\ pc' \in [Requests -> Positions] /\ pc'[r] = "undone"
      /\ mem' \in [Requests -> States] /\ mem'[r] = NoState
      /\ \A s \in Requests \ {r} : pc'[s] = pc[s] /\ mem'[s] = mem[s]
  BY <1>1, EndsLocal
<1>3. Local(r)
  BY <1>1, <1>2 DEF Local, IInv, TypeOK
<1>4. Remembered(r)'
  BY <1>2, NamesFact DEF Remembered, Active, Calls, NoState, Names
<1>5. Owned(r)'
  BY <1>1, <1>2 DEF Owned
<1> QED
  BY <1>1, <1>2, <1>3, <1>4, <1>5, StepOf

LEMMA UndoFailsStep == ASSUME IInv, NEW r \in Requests, UndoFails(r) PROVE IInv'
<1>1. Ends(r) /\ clean' = [clean EXCEPT ![r] = FALSE] /\ faults' \in 0..MaxFaults
  <2>1. Fault \/ UNCHANGED faults
    BY DEF UndoFails
  <2>2. faults' \in 0..MaxFaults
    BY <2>1, NamesFact DEF Fault, IInv, TypeOK, Names
  <2> QED
    BY <2>2 DEF UndoFails
<1>2. UNCHANGED edge \/ UndoCall(r)
  BY DEF UndoFails
<1>3. Effect(r)
  BY <1>2, SameEdge, DeletedEffect, TargetUndoneEffect, RestoredEffect DEF UndoCall
<1>4. /\ HistoryOK
      /\ pc' \in [Requests -> Positions] /\ pc'[r] = "undone"
      /\ mem' \in [Requests -> States] /\ mem'[r] = NoState
      /\ \A s \in Requests \ {r} : pc'[s] = pc[s] /\ mem'[s] = mem[s]
  BY <1>1, EndsLocal
<1>5. Local(r) /\ ~ clean'[r]
  BY <1>1, <1>4 DEF Local, IInv, TypeOK
<1>6. Remembered(r)' /\ Owned(r)'
  BY <1>4, <1>5, NamesFact DEF Remembered, Owned, Active, Calls, NoState, Names
<1> QED
  BY <1>3, <1>4, <1>5, <1>6, StepOf

LEMMA CrashStep == ASSUME IInv, Crash PROVE IInv'
<1> USE NamesFact DEF Names
<1>1. UNCHANGED <<edge, alone, clean>> /\ faults' \in 0..MaxFaults
  BY DEF Crash, Fault, IInv, TypeOK
<1>2. NoState \in States
  BY DEF NoState, States
<1>3. \A r \in Requests :
         /\ mem'[r] = NoState /\ found'[r] = Nobody /\ pc'[r] \in Positions
         /\ pc'[r] = "dead" \/ (pc'[r] = pc[r] /\ pc[r] \in {"idle", "undone", "dead"})
  BY DEF Crash, InProgress, Positions, IInv, TypeOK
<1>4. TypeOK' /\ OldKept' /\ SitesKept'
  BY <1>1, <1>2 DEF Crash, IInv, TypeOK, OldKept, SitesKept, InProgress, edge, Positions
<1>5. ASSUME NEW r \in Requests PROVE Remembered(r)' /\ Owned(r)'
  BY <1>1, <1>3 DEF IInv, Remembered, Owned, Active, Calls, NoState, edge
<1> QED
  BY <1>4, <1>5 DEF IInv

LEMMA NextIInv == IInv /\ [Next]_vars => IInv'
<1> SUFFICES ASSUME IInv, [Next]_vars PROVE IInv'
  OBVIOUS
<1>1. ASSUME NEW r \in Requests, ApplyStep(r) PROVE IInv'
  BY <1>1, LookupSteps, AdoptStep, CreateResourceStep, CreateFailsStep, UpdateStep,
     ListTargetsStep, CreateTargetStep, UpdateTargetStep, CallFailsStep, CallRefusedStep
  DEF ApplyStep
<1>2. ASSUME NEW r \in Requests, RollbackStep(r) PROVE IInv'
  BY <1>2, UndoAppliedStep, DeleteResourceStep, UndoTargetStep, UndoResourceStep,
     UndoFailsStep
  DEF RollbackStep
<1>3. CASE UNCHANGED vars
  BY <1>3
  DEF vars, edge, history, IInv, TypeOK, OldKept, SitesKept, Remembered, Owned
<1> QED
  BY <1>1, <1>2, <1>3, CrashStep DEF Next

THEOREM Invariance == Spec => []IInv
BY InitIInv, NextIInv, PTL DEF Spec

-----------------------------------------------------------------------------
(* Every state is well typed. *)
THEOREM TypeCorrect == Spec => []TypeOK
<1>1. IInv => TypeOK
  BY DEF IInv
<1> QED
  BY <1>1, Invariance, PTL

(* However many applies overlap, whatever call of them fails, and wherever the
   container stops: what others created is there, with an upstream for its site. *)
THEOREM UntouchedCorrectness == Spec => []OthersUntouched
<1>1. IInv => OthersUntouched
  BY NamesFact DEF IInv, OldKept, SitesKept, OthersUntouched, Names
<1> QED
  BY <1>1, Invariance, PTL

(* And a rollback that loses no answer leaves nothing of its apply behind. *)
THEOREM OrphanCorrectness == Spec => []NothingOrphaned
<1>1. IInv => NothingOrphaned
  BY NamesFact DEF IInv, Remembered, Owned, NothingOrphaned, Active, Calls, NoState, Names
<1> QED
  BY <1>1, Invariance, PTL

-----------------------------------------------------------------------------
(* While an apply is alone, its rollback state and the edge together tell what
   the edge was when it began.                                              *)
Edges == [settings : [Resources -> Contents \cup {Gone}], targets : [Targets -> TargetStates]]

Busy(r) == pc[r] \notin {"idle", "undone", "dead"}

SettingsKnown(r) ==
    /\ \A c \in Resources : c # mem[r].resource => settings[c] = found[r].settings[c]
    /\ mem[r].resource = r =>
          /\ found[r].settings[r] = Gone
          /\ \A t \in Targets : found[r].targets[t] # Gone => found[r].targets[t].on # r
    /\ mem[r].resource \notin {r, Nobody} =>
          found[r].settings[mem[r].resource] = mem[r].before
    /\ mem[r].resource # Nobody => Host[mem[r].resource] = Host[r]
    /\ pc[r] \in {"list", "create_target", "update_target", "applied"} =>
          settings[mem[r].resource] = r

TargetsKnown(r) ==
    /\ clean[r] => \A t \in Targets : t # mem[r].target => targets[t] = found[r].targets[t]
    /\ mem[r].target = r => found[r].targets[r] = Gone
    /\ mem[r].target \notin {r, Nobody} =>
          /\ targets[mem[r].target] # Gone
          /\ targets[mem[r].target].on = mem[r].resource
          /\ found[r].targets[mem[r].target] =
                [on |-> mem[r].resource, as |-> mem[r].target_before]
    /\ clean[r] /\ pc[r] = "undo_resource" =>
          \A t \in Targets : targets[t] = found[r].targets[t]

Solo(r) ==
    alone[r] /\ Busy(r) =>
        /\ \A s \in Requests \ {r} : ~ InProgress(s)
        /\ found[r] \in Edges
        /\ SettingsKnown(r)
        /\ TargetsKnown(r)

(* A target is on a resource that is there. *)
Grounded == \A t \in Targets : targets[t] # Gone => settings[targets[t].on] # Gone

SInv == IInv /\ Grounded /\ \A r \in Requests : Solo(r)

LEMMA InitSInv == Init => SInv
<1> SUFFICES ASSUME Init PROVE SInv
  OBVIOUS
<1>1. Grounded
  BY NamesFact DEF Init, Grounded, Names
<1>2. \A r \in Requests : Solo(r)
  BY DEF Init, Solo, Busy
<1> QED
  BY <1>1, <1>2, InitIInv DEF SInv

(* A step of r leaves the others as they were, and begins only when it says so. *)
Steps(r) ==
    /\ \A s \in Requests \ {r} : pc'[s] = pc[s] /\ mem'[s] = mem[s]
    /\ \/ Begins(r)
       \/ InProgress(r) /\ \A s \in Requests \ {r} : alone'[s] = alone[s]

LEMMA OthersSolo ==
    ASSUME SInv, NEW r \in Requests, Steps(r), NEW s \in Requests \ {r}
    PROVE  Solo(s)'
<1>1. CASE Begins(r)
  <2>1. alone'[s] => ~ InProgress(s) /\ pc[s] # "applied"
    BY <1>1 DEF Begins
  <2> QED
    BY <2>1 DEF Steps, Solo, Busy, InProgress
<1>2. CASE InProgress(r) /\ \A q \in Requests \ {r} : alone'[q] = alone[q]
  <2>1. ~ (alone[s] /\ Busy(s))
    BY <1>2 DEF SInv, Solo
  <2> QED
    BY <1>2, <2>1 DEF Steps, Solo, Busy
<1> QED
  BY <1>1, <1>2 DEF Steps

LEMMA GroundedStep ==
    ASSUME IInv, Grounded, NEW r \in Requests,
           \A c \in Resources : settings[c] # Gone => settings'[c] # Gone,
           \A t \in Targets : targets'[t] # Gone =>
               \/ targets[t] # Gone /\ targets'[t].on = targets[t].on
               \/ targets'[t].on \in Resources /\ settings[targets'[t].on] # Gone
    PROVE  Grounded'
<1>1. \A t \in Targets : targets[t] # Gone => targets[t].on \in Resources
  BY DEF IInv, TypeOK, TargetStates
<1> QED
  BY <1>1 DEF Grounded

LEMMA BeginsSolo ==
    ASSUME IInv, Grounded, NEW r \in Requests, Begins(r), pc[r] = "idle", alone'[r]
    PROVE  /\ \A s \in Requests : ~ InProgress(s)
           /\ found'[r] = [settings |-> settings, targets |-> targets]
           /\ found'[r] \in Edges
<1>1. found'[r] = [settings |-> settings, targets |-> targets]
  BY DEF Begins
<1> QED
  BY <1>1 DEF Begins, Edges, IInv, TypeOK

LEMMA LookupSolo ==
    ASSUME SInv, NEW r \in Requests, IInv',
           Ambiguous(r) \/ LookupFails(r) \/ NotPublished(r)
    PROVE  Grounded' /\ Solo(r)' /\ Steps(r)
<1> USE NamesFact DEF Names
<1>1. /\ pc[r] = "idle" /\ Begins(r) /\ UNCHANGED <<edge, mem, clean>>
      /\ pc' = [pc EXCEPT ![r] = "undone"] \/ pc' = [pc EXCEPT ![r] = "create"]
      /\ mem[r] = NoState
  BY DEF Ambiguous, LookupFails, NotPublished, Goto, Begins, SInv, IInv, Remembered, Active, Calls
<1>2. pc \in [Requests -> Positions]
  BY DEF SInv, IInv, TypeOK
<1>3. Grounded'
  BY <1>1 DEF Grounded, SInv, edge
<1>4. Steps(r)
  BY <1>1, <1>2 DEF Steps
<1>5. ASSUME alone'[r], Busy(r)' PROVE Solo(r)'
  <2>1. /\ \A s \in Requests : ~ InProgress(s)
        /\ found'[r] = [settings |-> settings, targets |-> targets]
        /\ found'[r] \in Edges
    BY <1>1, <1>5, BeginsSolo DEF SInv
  <2>2. pc'[r] = "create" /\ \A s \in Requests \ {r} : ~ InProgress(s)'
    BY <1>1, <1>2, <1>5, <2>1 DEF Busy, InProgress
  <2>3. SettingsKnown(r)' /\ TargetsKnown(r)'
    BY <1>1, <2>1, <2>2 DEF SettingsKnown, TargetsKnown, NoState, edge
  <2> QED
    BY <2>1, <2>2, <2>3 DEF Solo
<1> QED
  BY <1>3, <1>4, <1>5 DEF Solo

LEMMA AdoptSolo ==
    ASSUME SInv, NEW r \in Requests, IInv', Adopt(r)
    PROVE  Grounded' /\ Solo(r)' /\ Steps(r)
<1> USE NamesFact DEF Names
<1>1. PICK c \in Resources :
         /\ Matching(r) = {c}
         /\ mem' = [mem EXCEPT ![r].resource = c, ![r].before = settings[c]]
  BY DEF Adopt
<1>2. /\ pc[r] = "idle" /\ Begins(r) /\ UNCHANGED <<edge, clean>>
      /\ pc' = [pc EXCEPT ![r] = "update"] /\ mem[r] = NoState
  BY DEF Adopt, Goto, Begins, SInv, IInv, Remembered, Active, Calls
<1>3. /\ pc \in [Requests -> Positions] /\ mem \in [Requests -> States]
      /\ mem[r] = [resource |-> Nobody, before |-> Nobody,
                   target |-> Nobody, target_before |-> Nobody]
  BY <1>2 DEF SInv, IInv, TypeOK, NoState
<1>4. c \in Resources /\ Host[c] = Host[r] /\ settings[c] # Gone
  BY <1>1 DEF Matching
<1>5. /\ mem'[r].resource = c /\ mem'[r].before = settings[c]
      /\ mem'[r].target = Nobody /\ mem'[r].target_before = Nobody
      /\ \A s \in Requests \ {r} : mem'[s] = mem[s]
  BY <1>1, <1>3
<1>6. Grounded'
  BY <1>2 DEF Grounded, SInv, edge
<1>7. Steps(r)
  BY <1>2, <1>3, <1>5 DEF Steps
<1>8. settings[r] = Gone \/ ~ clean[r]
  BY <1>2 DEF SInv, IInv, Owned, NoState
<1>9. clean[r]
  BY <1>2 DEF SInv, IInv, Remembered
<1>10. ASSUME alone'[r], Busy(r)' PROVE Solo(r)'
  <2>1. /\ \A s \in Requests : ~ InProgress(s)
        /\ found'[r] = [settings |-> settings, targets |-> targets]
        /\ found'[r] \in Edges
    BY <1>2, <1>10, BeginsSolo DEF SInv
  <2>2. pc'[r] = "update" /\ \A s \in Requests \ {r} : ~ InProgress(s)'
    BY <1>2, <1>3, <2>1 DEF InProgress
  <2>3. SettingsKnown(r)' /\ TargetsKnown(r)'
    BY <1>2, <1>4, <1>5, <1>8, <1>9, <2>1, <2>2 DEF SettingsKnown, TargetsKnown, edge
  <2> QED
    BY <2>1, <2>2, <2>3 DEF Solo
<1> QED
  BY <1>6, <1>7, <1>10 DEF Solo

LEMMA CreateResourceSolo ==
    ASSUME SInv, NEW r \in Requests, IInv', CreateResource(r)
    PROVE  Grounded' /\ Solo(r)' /\ Steps(r)
<1> USE NamesFact DEF Names
<1>1. /\ pc[r] = "create" /\ UNCHANGED <<targets, alone, found, clean>>
      /\ settings' = [settings EXCEPT ![r] = Fresh]
      /\ pc' = [pc EXCEPT ![r] = "update"] /\ mem[r] = NoState
      /\ mem' = [mem EXCEPT ![r].resource = r] /\ clean[r]
  BY DEF CreateResource, SetResource, Goto, history, SInv, IInv, Remembered, Active, Calls
<1>2. /\ pc \in [Requests -> Positions] /\ mem \in [Requests -> States]
      /\ settings \in [Resources -> Contents \cup {Gone}]
      /\ mem[r] = [resource |-> Nobody, before |-> Nobody,
                   target |-> Nobody, target_before |-> Nobody]
  BY <1>1 DEF SInv, IInv, TypeOK, NoState
<1>3. /\ mem'[r].resource = r /\ mem'[r].before = Nobody
      /\ mem'[r].target = Nobody /\ mem'[r].target_before = Nobody
      /\ \A s \in Requests \ {r} : mem'[s] = mem[s]
  BY <1>1, <1>2
<1>4. Grounded'
  BY <1>1, <1>2, GroundedStep DEF SInv
<1>5. Steps(r)
  BY <1>1, <1>2, <1>3 DEF Steps, InProgress
<1>6. settings[r] = Gone
  BY <1>1 DEF SInv, IInv, Owned, NoState
<1>7. ASSUME alone[r] PROVE Solo(r)'
  <2>1. /\ \A s \in Requests \ {r} : ~ InProgress(s)
        /\ found[r] \in Edges /\ SettingsKnown(r) /\ TargetsKnown(r)
    BY <1>1, <1>7 DEF SInv, Solo, Busy
  <2>2. pc'[r] = "update" /\ \A s \in Requests \ {r} : ~ InProgress(s)'
    BY <1>1, <1>2, <2>1 DEF InProgress
  <2>3. /\ \A c \in Resources : settings[c] = found[r].settings[c]
        /\ \A t \in Targets : targets[t] = found[r].targets[t]
    BY <1>1, <1>2, <2>1 DEF SettingsKnown, TargetsKnown
  <2>4. \A t \in Targets : targets[t] # Gone => targets[t].on # r
    BY <1>6 DEF SInv, Grounded
  <2>5. SettingsKnown(r)'
    BY <1>1, <1>2, <1>3, <1>6, <2>2, <2>3, <2>4 DEF SettingsKnown
  <2>6. TargetsKnown(r)'
    BY <1>1, <1>3, <2>2, <2>3 DEF TargetsKnown
  <2> QED
    BY <1>1, <2>1, <2>2, <2>5, <2>6 DEF Solo
<1> QED
  BY <1>1, <1>4, <1>5, <1>7 DEF Solo

(* The steps that end an apply. *)
LEMMA EndsSolo ==
    ASSUME SInv, NEW r \in Requests, InProgress(r), Ends(r)
    PROVE  Solo(r)' /\ Steps(r) /\ UNCHANGED alone
<1>1. pc'[r] = "undone" /\ UNCHANGED alone
      /\ \A s \in Requests \ {r} : pc'[s] = pc[s] /\ mem'[s] = mem[s]
  BY DEF Ends, Goto, SInv, IInv, TypeOK
<1> QED
  BY <1>1 DEF Solo, Busy, Steps

LEMMA CreateFailsSolo ==
    ASSUME SInv, NEW r \in Requests, IInv', CreateFails(r)
    PROVE  /\ Grounded' /\ Solo(r)' /\ Steps(r)
           /\ alone[r] /\ clean'[r] =>
                 settings' = found[r].settings /\ targets' = found[r].targets
<1> USE NamesFact DEF Names
<1>1. pc[r] = "create" /\ Ends(r) /\ mem[r] = NoState
  BY DEF CreateFails, SInv, IInv, Remembered, Active, Calls
<1>2. \/ UNCHANGED <<edge, clean>>
      \/ SetResource(r, Fresh) /\ clean' = [clean EXCEPT ![r] = FALSE]
  BY DEF CreateFails
<1>3. Solo(r)' /\ Steps(r)
  BY <1>1, EndsSolo DEF InProgress
<1>4. Grounded'
  <2>1. CASE UNCHANGED <<edge, clean>>
    BY <2>1 DEF SInv, Grounded, edge
  <2>2. CASE SetResource(r, Fresh)
    BY <2>2, GroundedStep DEF SInv, SetResource, IInv, TypeOK
  <2> QED
    BY <1>2, <2>1, <2>2
<1>5. ASSUME alone[r], clean'[r] PROVE settings' = found[r].settings /\ targets' = found[r].targets
  <2>1. UNCHANGED <<settings, targets, clean>>
    BY <1>2, <1>5 DEF edge, SInv, IInv, TypeOK
  <2>2. found[r] \in Edges /\ SettingsKnown(r) /\ TargetsKnown(r)
    BY <1>1, <1>5 DEF SInv, Solo, Busy
  <2>3. /\ \A c \in Resources : settings[c] = found[r].settings[c]
        /\ \A t \in Targets : targets[t] = found[r].targets[t]
    BY <1>1, <1>5, <2>1, <2>2 DEF SettingsKnown, TargetsKnown, NoState
  <2> QED
    BY <2>1, <2>2, <2>3 DEF Edges, SInv, IInv, TypeOK
<1> QED
  BY <1>3, <1>4, <1>5

LEMMA UpdateSolo ==
    ASSUME SInv, NEW r \in Requests, IInv', Update(r)
    PROVE  Grounded' /\ Solo(r)' /\ Steps(r)
<1> USE NamesFact DEF Names
<1> DEFINE c == mem[r].resource
<1>1. /\ pc[r] = "update" /\ UNCHANGED <<targets, mem, alone, found, clean>>
      /\ settings' = [settings EXCEPT ![c] = r]
      /\ pc' = [pc EXCEPT ![r] = "list"] /\ c \in Resources
      /\ pc \in [Requests -> Positions]
      /\ settings \in [Resources -> Contents \cup {Gone}]
  BY DEF Update, SetResource, Goto, history, SInv, IInv, Remembered, Active, Calls, TypeOK
<1> HIDE DEF c
<1>2. Grounded'
  BY <1>1, GroundedStep DEF SInv
<1>3. Steps(r)
  BY <1>1 DEF Steps, InProgress
<1>4. ASSUME alone[r] PROVE Solo(r)'
  <2>1. /\ \A s \in Requests \ {r} : ~ InProgress(s)
        /\ found[r] \in Edges /\ SettingsKnown(r) /\ TargetsKnown(r)
    BY <1>1, <1>4 DEF SInv, Solo, Busy
  <2>2. pc'[r] = "list" /\ \A s \in Requests \ {r} : ~ InProgress(s)'
    BY <1>1, <2>1 DEF InProgress
  <2>3. SettingsKnown(r)' /\ TargetsKnown(r)'
    BY <1>1, <2>1, <2>2 DEF SettingsKnown, TargetsKnown, c
  <2> QED
    BY <1>1, <2>1, <2>2, <2>3 DEF Solo
<1> QED
  BY <1>1, <1>2, <1>3, <1>4 DEF Solo

LEMMA ListTargetsSolo ==
    ASSUME SInv, NEW r \in Requests, IInv', ListTargets(r)
    PROVE  Grounded' /\ Solo(r)' /\ Steps(r)
<1> USE NamesFact DEF Names
<1>1. /\ pc[r] = "list" /\ UNCHANGED <<settings, targets, alone, found, clean>>
      /\ mem[r].target = Nobody /\ mem[r].target_before = Nobody
      /\ pc \in [Requests -> Positions] /\ mem \in [Requests -> States] /\ clean[r]
      /\ targets \in [Targets -> TargetStates]
  BY DEF ListTargets, history, edge, SInv, IInv, Remembered, TypeOK
<1>2. \/ pc' = [pc EXCEPT ![r] = "create_target"] /\ UNCHANGED mem
      \/ /\ pc' = [pc EXCEPT ![r] = "update_target"]
         /\ \E t \in OnSite(r) :
               mem' = [mem EXCEPT ![r].target = t, ![r].target_before = targets[t].as]
  BY DEF ListTargets, Goto
<1>3. targets[r] = Gone
  BY <1>1 DEF SInv, IInv, Owned
<1>4. /\ mem'[r].resource = mem[r].resource /\ mem'[r].before = mem[r].before
      /\ \A s \in Requests \ {r} : mem'[s] = mem[s]
      /\ \/ mem'[r].target = Nobody /\ mem'[r].target_before = Nobody
         \/ /\ mem'[r].target \in Targets \ {r} /\ targets[mem'[r].target] # Gone
            /\ targets[mem'[r].target].on = mem[r].resource
            /\ mem'[r].target_before = targets[mem'[r].target].as
  <2>1. CASE UNCHANGED mem
    BY <1>1, <2>1
  <2>2. ASSUME NEW t \in OnSite(r),
               mem' = [mem EXCEPT ![r].target = t, ![r].target_before = targets[t].as]
        PROVE  <1>4!:
    <3>1. /\ t \in Targets \ {r} /\ targets[t] # Gone /\ targets[t].on = mem[r].resource
      BY <1>3 DEF OnSite
    <3> DEFINE b == targets[t].as
               s == mem[r]
    <3>2. s \in [resource : Resources \cup {Nobody}, before : Contents \cup {Nobody},
                 target : Targets \cup {Nobody}, target_before : Requests \cup {Old, Nobody}]
      BY <1>1 DEF States
    <3>3. mem' = [mem EXCEPT ![r] = [s EXCEPT !.target = t, !.target_before = b]]
      BY <1>1, <2>2
    <3>4. /\ mem'[r] = [s EXCEPT !.target = t, !.target_before = b]
          /\ \A q \in Requests \ {r} : mem'[q] = mem[q]
      BY <1>1, <3>3
    <3>5. b = targets[t].as /\ s = mem[r]
      OBVIOUS
    <3> HIDE DEF s, b
    <3>6. /\ mem'[r].resource = s.resource /\ mem'[r].before = s.before
          /\ mem'[r].target = t /\ mem'[r].target_before = b
      BY <3>2, <3>4
    <3> QED
      BY <3>1, <3>4, <3>5, <3>6
  <2> QED
    BY <1>2, <2>1, <2>2
<1>5. Grounded'
  BY <1>1 DEF SInv, Grounded
<1>6. Steps(r)
  BY <1>1, <1>2, <1>4 DEF Steps, InProgress
<1>7. ASSUME alone[r] PROVE Solo(r)'
  <2>1. /\ \A s \in Requests \ {r} : ~ InProgress(s)
        /\ found[r] \in Edges /\ SettingsKnown(r) /\ TargetsKnown(r)
    BY <1>1, <1>7 DEF SInv, Solo, Busy
  <2>2. /\ pc'[r] \in {"create_target", "update_target"}
        /\ \A s \in Requests \ {r} : ~ InProgress(s)'
    BY <1>1, <1>2, <2>1 DEF InProgress
  <2>3. SettingsKnown(r)'
    BY <1>1, <1>4, <2>1, <2>2 DEF SettingsKnown
  <2>4. \A t \in Targets : targets[t] = found[r].targets[t]
    BY <1>1, <2>1 DEF TargetsKnown
  <2>5. ASSUME NEW t \in Targets, targets[t] # Gone
        PROVE  targets[t] = [on |-> targets[t].on, as |-> targets[t].as]
    BY <1>1, <2>5 DEF TargetStates
  <2>6. TargetsKnown(r)'
    BY <1>1, <1>4, <2>2, <2>4, <2>5 DEF TargetsKnown
  <2> QED
    BY <1>1, <2>1, <2>2, <2>3, <2>6 DEF Solo
<1> QED
  BY <1>1, <1>5, <1>6, <1>7 DEF Solo

(* A target that is the only change to what was found. *)
LEMMA PublishedTarget ==
    ASSUME SInv, NEW r \in Requests, NEW t \in Targets,
           found[r] \in Edges, targets' \in [Targets -> TargetStates], settings' = settings,
           mem[r].resource \in Resources, SettingsKnown(r),
           settings[mem[r].resource] = r, Site[t] = Site[r],
           targets'[t] = [on |-> mem[r].resource, as |-> r],
           \A u \in Targets \ {t} : targets'[u] = found[r].targets[u]
    PROVE  \E c \in Resources, u \in Targets :
              /\ Host[c] = Host[r] /\ Site[u] = Site[r]
              /\ settings' = [found[r].settings EXCEPT ![c] = r]
              /\ targets' = [found[r].targets EXCEPT ![u] = [on |-> c, as |-> r]]
<1> USE NamesFact DEF Names
<1> DEFINE c == mem[r].resource
<1>1. c \in Resources /\ Host[c] = Host[r]
  BY DEF SettingsKnown
<1>2. settings' = [found[r].settings EXCEPT ![c] = r]
  BY DEF SettingsKnown, Edges, SInv, IInv, TypeOK
<1>3. targets' = [found[r].targets EXCEPT ![t] = [on |-> c, as |-> r]]
  BY DEF Edges
<1> HIDE DEF c
<1> QED
  BY <1>1, <1>2, <1>3

LEMMA CreateTargetSolo ==
    ASSUME SInv, NEW r \in Requests, IInv', CreateTarget(r)
    PROVE  /\ Grounded' /\ Solo(r)' /\ Steps(r)
           /\ alone[r] =>
                 \E c \in Resources, t \in Targets :
                    /\ Host[c] = Host[r] /\ Site[t] = Site[r]
                    /\ settings' = [found[r].settings EXCEPT ![c] = r]
                    /\ targets' = [found[r].targets EXCEPT ![t] = [on |-> c, as |-> r]]
<1> USE NamesFact DEF Names
<1>1. /\ pc[r] = "create_target" /\ UNCHANGED <<settings, alone, found, clean>>
      /\ mem[r].target = Nobody /\ mem[r].target_before = Nobody
      /\ mem[r].resource \in Resources /\ settings[mem[r].resource] # Gone
      /\ pc \in [Requests -> Positions] /\ mem \in [Requests -> States] /\ clean[r]
      /\ targets \in [Targets -> TargetStates]
      /\ pc' = [pc EXCEPT ![r] = "applied"] /\ mem' = [mem EXCEPT ![r].target = r]
  BY DEF CreateTarget, Goto, Exists, SetTarget, history, SInv, IInv, Remembered, Active, Calls, TypeOK
<1>2. targets' = [targets EXCEPT ![r] = [on |-> mem[r].resource, as |-> r]]
  BY DEF CreateTarget, SetTarget, NewTarget
<1>3. targets[r] = Gone
  BY <1>1 DEF SInv, IInv, Owned
<1>4. /\ mem'[r].resource = mem[r].resource /\ mem'[r].before = mem[r].before
      /\ mem'[r].target = r /\ mem'[r].target_before = Nobody
      /\ \A s \in Requests \ {r} : mem'[s] = mem[s]
  BY <1>1 DEF States
<1>5. Grounded'
  <2>1. /\ targets'[r].on = mem[r].resource
        /\ \A t \in Targets \ {r} : targets'[t] = targets[t]
    BY <1>1, <1>2
  <2> QED
    BY <1>1, <2>1, GroundedStep DEF SInv
<1>6. Steps(r)
  BY <1>1, <1>4 DEF Steps, InProgress
<1>7. ASSUME alone[r]
      PROVE  /\ found[r] \in Edges /\ SettingsKnown(r) /\ TargetsKnown(r)
             /\ \A s \in Requests \ {r} : ~ InProgress(s)
             /\ \A t \in Targets : targets[t] = found[r].targets[t]
  <2>1. /\ found[r] \in Edges /\ SettingsKnown(r) /\ TargetsKnown(r)
        /\ \A s \in Requests \ {r} : ~ InProgress(s)
    BY <1>1, <1>7 DEF SInv, Solo, Busy
  <2> QED
    BY <1>1, <2>1 DEF TargetsKnown
<1>8. ASSUME alone[r] PROVE Solo(r)'
  <2>1. pc'[r] = "applied" /\ \A s \in Requests \ {r} : ~ InProgress(s)'
    BY <1>1, <1>7, <1>8 DEF InProgress
  <2>2. SettingsKnown(r)'
    BY <1>1, <1>4, <1>7, <1>8, <2>1 DEF SettingsKnown
  <2>3. TargetsKnown(r)'
    BY <1>1, <1>2, <1>3, <1>4, <1>7, <1>8, <2>1 DEF TargetsKnown
  <2> QED
    BY <1>1, <1>7, <1>8, <2>1, <2>2, <2>3 DEF Solo
<1>9. ASSUME alone[r]
      PROVE  \E c \in Resources, t \in Targets :
                /\ Host[c] = Host[r] /\ Site[t] = Site[r]
                /\ settings' = [found[r].settings EXCEPT ![c] = r]
                /\ targets' = [found[r].targets EXCEPT ![t] = [on |-> c, as |-> r]]
  <2>1. settings[mem[r].resource] = r
    BY <1>1, <1>7, <1>9 DEF SettingsKnown
  <2>2. /\ r \in Targets /\ targets' \in [Targets -> TargetStates]
        /\ targets'[r] = [on |-> mem[r].resource, as |-> r]
        /\ \A u \in Targets \ {r} : targets'[u] = found[r].targets[u]
    BY <1>1, <1>2, <1>7, <1>9 DEF TargetStates
  <2> QED
    BY <1>1, <1>7, <1>9, <2>1, <2>2, PublishedTarget
<1> QED
  BY <1>1, <1>5, <1>6, <1>8, <1>9 DEF Solo

(* Rewriting the target that it found. *)
LEMMA RewriteSolo ==
    ASSUME SInv, NEW r \in Requests, NEW t \in Targets, NEW content \in Requests \cup {Old},
           Rewrite(t, content)
    PROVE  /\ Grounded' /\ settings' = settings
           /\ targets'[t] = [on |-> targets[t].on, as |-> content]
           /\ targets' \in [Targets -> TargetStates] /\ targets'[t] # Gone
           /\ \A u \in Targets \ {t} : targets'[u] = targets[u]
<1> USE NamesFact DEF Names
<1>1. /\ targets \in [Targets -> TargetStates] /\ targets[t] # Gone
      /\ settings' = settings /\ targets' = [targets EXCEPT ![t] = [@ EXCEPT !.as = content]]
  BY DEF Rewrite, SetTarget, SInv, IInv, TypeOK
<1>2. targets[t] \in [on : Resources, as : Requests \cup {Old}]
  BY <1>1 DEF TargetStates
<1>3. [targets[t] EXCEPT !.as = content] = [on |-> targets[t].on, as |-> content]
  BY <1>2
<1>4. /\ targets'[t] = [on |-> targets[t].on, as |-> content]
      /\ \A u \in Targets \ {t} : targets'[u] = targets[u]
      /\ [on |-> targets[t].on, as |-> content] \in [on : Resources, as : Requests \cup {Old}]
  BY <1>1, <1>2, <1>3
<1>5. targets' \in [Targets -> TargetStates] /\ targets'[t] # Gone
  <2>1. [targets[t] EXCEPT !.as = content] \in TargetStates
    BY <1>3, <1>4 DEF TargetStates
  <2> QED
    BY <1>1, <1>4, <2>1
<1>6. Grounded'
  BY <1>1, <1>4, GroundedStep DEF SInv
<1> QED
  BY <1>1, <1>4, <1>5, <1>6

LEMMA UpdateTargetSolo ==
    ASSUME SInv, NEW r \in Requests, IInv', UpdateTarget(r)
    PROVE  /\ Grounded' /\ Solo(r)' /\ Steps(r)
           /\ alone[r] =>
                 \E c \in Resources, t \in Targets :
                    /\ Host[c] = Host[r] /\ Site[t] = Site[r]
                    /\ settings' = [found[r].settings EXCEPT ![c] = r]
                    /\ targets' = [found[r].targets EXCEPT ![t] = [on |-> c, as |-> r]]
<1> USE NamesFact DEF Names
<1> DEFINE t == mem[r].target
<1>1. /\ pc[r] = "update_target" /\ UNCHANGED <<mem, alone, found, clean>>
      /\ t \in Targets \ {r} /\ Site[t] = Site[r] /\ Rewrite(t, r)
      /\ mem[r].resource \in Resources
      /\ pc \in [Requests -> Positions] /\ clean[r]
      /\ pc' = [pc EXCEPT ![r] = "applied"]
  BY DEF UpdateTarget, Goto, history, SInv, IInv, Remembered, Active, Calls, TypeOK, States
<1>2. /\ Grounded' /\ settings' = settings
      /\ targets'[t] = [on |-> targets[t].on, as |-> r]
      /\ targets' \in [Targets -> TargetStates] /\ targets'[t] # Gone
      /\ \A u \in Targets \ {t} : targets'[u] = targets[u]
  BY <1>1, RewriteSolo
<1>3. Steps(r)
  BY <1>1 DEF Steps, InProgress
<1>4. ASSUME alone[r]
      PROVE  /\ found[r] \in Edges /\ SettingsKnown(r) /\ TargetsKnown(r)
             /\ \A s \in Requests \ {r} : ~ InProgress(s)
             /\ targets[t].on = mem[r].resource
  <2>1. /\ found[r] \in Edges /\ SettingsKnown(r) /\ TargetsKnown(r)
        /\ \A s \in Requests \ {r} : ~ InProgress(s)
    BY <1>1, <1>4 DEF SInv, Solo, Busy
  <2> QED
    BY <1>1, <2>1 DEF TargetsKnown
<1>5. ASSUME alone[r] PROVE Solo(r)'
  <2>1. pc'[r] = "applied" /\ \A s \in Requests \ {r} : ~ InProgress(s)'
    BY <1>1, <1>4, <1>5 DEF InProgress
  <2>2. SettingsKnown(r)'
    BY <1>1, <1>2, <1>4, <1>5, <2>1 DEF SettingsKnown
  <2>3. TargetsKnown(r)'
    BY <1>1, <1>2, <1>4, <1>5, <2>1 DEF TargetsKnown
  <2> QED
    BY <1>1, <1>4, <1>5, <2>1, <2>2, <2>3 DEF Solo
<1>6. ASSUME alone[r]
      PROVE  \E c \in Resources, u \in Targets :
                /\ Host[c] = Host[r] /\ Site[u] = Site[r]
                /\ settings' = [found[r].settings EXCEPT ![c] = r]
                /\ targets' = [found[r].targets EXCEPT ![u] = [on |-> c, as |-> r]]
  <2>1. settings[mem[r].resource] = r
    BY <1>1, <1>4, <1>6 DEF SettingsKnown
  <2>2. /\ targets'[t] = [on |-> mem[r].resource, as |-> r]
        /\ \A u \in Targets \ {t} : targets'[u] = found[r].targets[u]
    BY <1>1, <1>2, <1>4, <1>6 DEF TargetsKnown
  <2> HIDE DEF t
  <2> QED
    BY <1>1, <1>2, <1>4, <1>6, <2>1, <2>2, PublishedTarget
<1> QED
  BY <1>1, <1>2, <1>3, <1>5, <1>6 DEF Solo

(* The steps from a call to the rollback: the edge differs from what was found
   at the resource and the target that the rollback state names.             *)
LEMMA ToRollback ==
    ASSUME SInv, NEW r \in Requests, pc[r] \in Calls,
           pc' = [pc EXCEPT ![r] = "undo"], UNCHANGED <<mem, alone, found>>,
           \A c \in Resources : c # mem[r].resource => settings'[c] = settings[c],
           clean'[r] => clean[r],
           clean'[r] => \A t \in Targets : t # mem[r].target => targets'[t] = targets[t],
           mem[r].target \notin {r, Nobody} /\ targets[mem[r].target] # Gone =>
              /\ targets'[mem[r].target] # Gone
              /\ targets'[mem[r].target].on = targets[mem[r].target].on
    PROVE  Solo(r)' /\ Steps(r)
<1>1. pc \in [Requests -> Positions]
  BY DEF SInv, IInv, TypeOK
<1>2. Steps(r)
  BY <1>1 DEF Steps, InProgress, Calls
<1>3. ASSUME alone[r] PROVE Solo(r)'
  <2>1. /\ \A s \in Requests \ {r} : ~ InProgress(s)
        /\ found[r] \in Edges /\ SettingsKnown(r) /\ TargetsKnown(r)
    BY <1>3 DEF SInv, Solo, Busy, Calls
  <2>2. pc'[r] = "undo" /\ \A s \in Requests \ {r} : ~ InProgress(s)'
    BY <1>1, <2>1 DEF InProgress
  <2>3. SettingsKnown(r)'
    BY <2>1, <2>2 DEF SettingsKnown
  <2>4. TargetsKnown(r)'
    BY <2>1, <2>2 DEF TargetsKnown
  <2> QED
    BY <2>1, <2>2, <2>3, <2>4 DEF Solo
<1> QED
  BY <1>2, <1>3 DEF Solo

LEMMA CallRefusedSolo ==
    ASSUME SInv, NEW r \in Requests, CallRefused(r)
    PROVE  Grounded' /\ Solo(r)' /\ Steps(r)
<1>1. /\ pc[r] \in Calls /\ UNCHANGED <<settings, targets, mem, alone, found, clean>>
      /\ pc' = [pc EXCEPT ![r] = "undo"]
  BY DEF CallRefused, Calls, Goto, edge, history
<1>2. Grounded'
  BY <1>1 DEF SInv, Grounded
<1>3. Solo(r)' /\ Steps(r)
  BY <1>1, ToRollback
<1> QED
  BY <1>2, <1>3

LEMMA CallFailsSolo ==
    ASSUME SInv, NEW r \in Requests, CallFails(r)
    PROVE  Grounded' /\ Solo(r)' /\ Steps(r)
<1> USE NamesFact DEF Names
<1> DEFINE c == mem[r].resource
           t == mem[r].target
<1>1. /\ pc[r] \in Calls /\ UNCHANGED <<mem, alone, found>>
      /\ pc' = [pc EXCEPT ![r] = "undo"] /\ c \in Resources /\ clean[r]
      /\ clean \in [Requests -> BOOLEAN]
      /\ settings \in [Resources -> Contents \cup {Gone}]
      /\ targets \in [Targets -> TargetStates]
  BY DEF CallFails, Goto, SInv, IInv, Remembered, Active, Calls, TypeOK
<1>2. CASE UNCHANGED <<edge, clean>>
  <2>1. UNCHANGED <<settings, targets, clean>>
    BY <1>2 DEF edge
  <2>2. Grounded'
    BY <2>1 DEF SInv, Grounded
  <2> QED
    BY <1>1, <2>1, <2>2, ToRollback
<1>3. CASE Exists(r) /\ SetResource(c, r) /\ UNCHANGED clean
  <2>1. settings' = [settings EXCEPT ![c] = r] /\ UNCHANGED <<targets, clean>>
    BY <1>3 DEF SetResource
  <2> HIDE DEF c
  <2>2. Grounded'
    BY <1>1, <2>1, GroundedStep DEF SInv
  <2>3. \A d \in Resources : d # c => settings'[d] = settings[d]
    BY <1>1, <2>1
  <2> QED
    BY <1>1, <2>1, <2>2, <2>3, ToRollback DEF c
<1>4. CASE /\ pc[r] = "create_target" /\ Exists(r)
           /\ SetTarget(r, NewTarget(r)) /\ clean' = [clean EXCEPT ![r] = FALSE]
  <2>1. /\ settings' = settings /\ ~ clean'[r] /\ targets'[r].on = c
        /\ \A u \in Targets \ {r} : targets'[u] = targets[u]
    BY <1>1, <1>4 DEF SetTarget, NewTarget
  <2>2. settings[c] # Gone
    BY <1>4 DEF Exists
  <2>3. Grounded'
    BY <1>1, <2>1, <2>2, GroundedStep DEF SInv
  <2>4. t = Nobody
    BY <1>4 DEF SInv, IInv, Remembered
  <2> QED
    BY <1>1, <2>1, <2>3, <2>4, ToRollback
<1>5. CASE pc[r] = "update_target" /\ Rewrite(t, r) /\ UNCHANGED clean
  <2>1. t \in Targets \ {r}
    BY <1>5 DEF SInv, IInv, Remembered, TypeOK, States
  <2>2. /\ Grounded' /\ settings' = settings
        /\ targets'[t] = [on |-> targets[t].on, as |-> r] /\ targets'[t] # Gone
        /\ \A u \in Targets \ {t} : targets'[u] = targets[u]
    BY <1>5, <2>1, RewriteSolo
  <2>3. targets'[t].on = targets[t].on
    BY <2>2
  <2> QED
    BY <1>1, <1>5, <2>1, <2>2, <2>3, ToRollback
<1> QED
  BY <1>2, <1>3, <1>4, <1>5 DEF CallFails, Hidden

LEMMA UndoAppliedSolo ==
    ASSUME SInv, NEW r \in Requests, UndoApplied(r)
    PROVE  Grounded' /\ Solo(r)' /\ Steps(r)
<1>1. /\ pc[r] = "applied" /\ Begins(r) /\ UNCHANGED <<settings, targets, mem, clean>>
      /\ pc' = [pc EXCEPT ![r] = "undo"] /\ pc \in [Requests -> Positions]
  BY DEF UndoApplied, Goto, Begins, edge, SInv, IInv, TypeOK
<1>2. Grounded'
  BY <1>1 DEF SInv, Grounded
<1>3. Steps(r)
  BY <1>1 DEF Steps
<1>4. ASSUME alone'[r] PROVE Solo(r)'
  <2>1. alone[r] /\ found'[r] = found[r] /\ \A s \in Requests : ~ InProgress(s)
    BY <1>1, <1>4 DEF Begins
  <2>2. found[r] \in Edges /\ SettingsKnown(r) /\ TargetsKnown(r)
    BY <1>1, <2>1 DEF SInv, Solo, Busy
  <2>3. pc'[r] = "undo" /\ \A s \in Requests \ {r} : ~ InProgress(s)'
    BY <1>1, <2>1 DEF InProgress
  <2>4. SettingsKnown(r)' /\ TargetsKnown(r)'
    BY <1>1, <2>1, <2>2, <2>3 DEF SettingsKnown, TargetsKnown
  <2> QED
    BY <2>1, <2>2, <2>3, <2>4 DEF Solo
<1> QED
  BY <1>2, <1>3, <1>4 DEF Solo

LEMMA DeletedGrounded ==
    ASSUME SInv, NEW r \in Requests, Deleted(r) PROVE Grounded'
<1> USE NamesFact DEF Names
<1>1. \A t \in Targets :
         targets'[t] # Gone => targets'[t] = targets[t] /\ targets[t].on \in Resources \ {r}
  BY DEF Deleted, SInv, IInv, TypeOK, TargetStates
<1>2. \A c \in Resources \ {r} : settings'[c] = settings[c]
  BY DEF Deleted, SInv, IInv, TypeOK
<1> QED
  BY <1>1, <1>2 DEF SInv, Grounded

LEMMA DeleteResourceSolo ==
    ASSUME SInv, NEW r \in Requests, IInv', DeleteResource(r)
    PROVE  /\ Grounded' /\ Solo(r)' /\ Steps(r)
           /\ alone[r] /\ clean'[r] =>
                 settings' = found[r].settings /\ targets' = found[r].targets
<1> USE NamesFact DEF Names
<1>1. /\ pc[r] = "undo" /\ mem[r].resource = r /\ Deleted(r) /\ Ends(r)
      /\ UNCHANGED clean
  BY DEF DeleteResource
<1>2. Grounded' /\ Solo(r)' /\ Steps(r)
  BY <1>1, DeletedGrounded, EndsSolo DEF InProgress
<1>3. ASSUME alone[r], clean[r]
      PROVE  settings' = found[r].settings /\ targets' = found[r].targets
  <2>1. found[r] \in Edges /\ SettingsKnown(r) /\ TargetsKnown(r)
    BY <1>1, <1>3 DEF SInv, Solo, Busy
  <2>2. \A c \in Resources : settings'[c] = found[r].settings[c]
    BY <1>1, <2>1 DEF SettingsKnown, Deleted, SInv, IInv, TypeOK
  <2>3. ASSUME NEW t \in Targets PROVE targets'[t] = found[r].targets[t]
    <3>1. found[r].targets[t] # Gone => found[r].targets[t].on # r
      BY <1>1, <2>1 DEF SettingsKnown
    <3>2. targets'[t] = IF targets[t] # Gone /\ targets[t].on = r THEN Gone ELSE targets[t]
      BY <1>1 DEF Deleted
    <3>3. CASE t # mem[r].target
      BY <1>3, <2>1, <3>1, <3>2, <3>3 DEF TargetsKnown
    <3>4. CASE t = mem[r].target /\ t = r
      <4>1. targets'[r] = Gone
        BY <1>1, <1>3, DeletedEffect DEF SInv
      <4> QED
        BY <2>1, <3>4, <4>1 DEF TargetsKnown
    <3>5. CASE t = mem[r].target /\ t # r
      <4>1. found[r].targets[t] = [on |-> r, as |-> mem[r].target_before]
        BY <1>1, <2>1, <3>5 DEF TargetsKnown
      <4>2. found[r].targets[t].on = r /\ found[r].targets[t] # Gone
        <5>1. mem[r].target_before \in Requests \cup {Old}
          BY <3>5 DEF SInv, IInv, Remembered, TypeOK, States
        <5> QED
          BY <4>1, <5>1
      <4> QED
        BY <3>1, <4>2
    <3> QED
      BY <3>3, <3>4, <3>5
  <2> QED
    BY <2>1, <2>2, <2>3 DEF Edges, Deleted, SInv, IInv, TypeOK
<1> QED
  BY <1>1, <1>2, <1>3

LEMMA UndoneGrounded ==
    ASSUME SInv, NEW r \in Requests, TargetUndone(r), pc[r] = "undo" PROVE Grounded'
<1> USE NamesFact DEF Names
<1> DEFINE t == mem[r].target
           b == mem[r].target_before
<1>1. CASE UNCHANGED edge
  BY <1>1 DEF SInv, Grounded, edge
<1>2. CASE SetTarget(r, Gone)
  BY <1>2, GroundedStep DEF SetTarget, SInv, IInv, TypeOK
<1>3. CASE b # Nobody /\ Rewrite(t, b)
  <2>1. t \in Targets /\ b \in Requests \cup {Old}
    BY <1>3 DEF SInv, IInv, Remembered, TypeOK, States
  <2> HIDE DEF t, b
  <2> QED
    BY <1>3, <2>1, RewriteSolo
<1> QED
  BY <1>1, <1>2, <1>3 DEF TargetUndone

LEMMA UndoTargetSolo ==
    ASSUME SInv, NEW r \in Requests, UndoTarget(r)
    PROVE  Grounded' /\ Solo(r)' /\ Steps(r)
<1> USE NamesFact DEF Names
<1> DEFINE t == mem[r].target
           b == mem[r].target_before
<1>1. /\ pc[r] = "undo" /\ mem[r].resource # r /\ TargetUndone(r)
      /\ UNCHANGED <<mem, alone, found, clean>>
      /\ pc' = [pc EXCEPT ![r] = "undo_resource"] /\ pc \in [Requests -> Positions]
  BY DEF UndoTarget, Goto, history, SInv, IInv, TypeOK
<1>2. /\ t \in Targets \cup {Nobody} /\ b \in Requests \cup {Old, Nobody}
      /\ t \in {r, Nobody} <=> b = Nobody
      /\ targets \in [Targets -> TargetStates]
  BY DEF SInv, IInv, TypeOK, States, Remembered
<1>3. Grounded' /\ settings' = settings
  BY <1>1, UndoneGrounded, TargetUndoneEffect DEF SInv
<1>4. Steps(r)
  BY <1>1 DEF Steps, InProgress
<1>5. ASSUME alone[r] PROVE Solo(r)'
  <2>1. /\ \A s \in Requests \ {r} : ~ InProgress(s)
        /\ found[r] \in Edges /\ SettingsKnown(r) /\ TargetsKnown(r)
    BY <1>1, <1>5 DEF SInv, Solo, Busy
  <2>2. pc'[r] = "undo_resource" /\ \A s \in Requests \ {r} : ~ InProgress(s)'
    BY <1>1, <2>1 DEF InProgress
  <2>3. SettingsKnown(r)'
    BY <1>1, <1>3, <2>1, <2>2 DEF SettingsKnown
  <2>4. /\ clean[r] => \A u \in Targets : targets'[u] = found[r].targets[u]
        /\ t \notin {r, Nobody} =>
              targets'[t] # Gone /\ targets'[t].on = targets[t].on
    <3>1. CASE t = Nobody /\ UNCHANGED edge
      BY <1>2, <2>1, <3>1 DEF TargetsKnown, edge
    <3>2. CASE t = r /\ SetTarget(r, Gone)
      BY <1>2, <2>1, <3>2 DEF TargetsKnown, SetTarget
    <3>3. CASE b # Nobody /\ Rewrite(t, b)
      <4>1. t \in Targets \ {r} /\ b \in Requests \cup {Old}
        BY <1>2, <3>3
      <4>2. /\ targets'[t] = [on |-> targets[t].on, as |-> b] /\ targets'[t] # Gone
            /\ \A u \in Targets \ {t} : targets'[u] = targets[u]
        BY <3>3, <4>1, RewriteSolo
      <4>3. /\ targets[t].on = mem[r].resource
            /\ found[r].targets[t] = [on |-> mem[r].resource, as |-> b]
        BY <2>1, <4>1 DEF TargetsKnown
      <4>4. clean[r] => \A u \in Targets \ {t} : targets[u] = found[r].targets[u]
        BY <2>1 DEF TargetsKnown
      <4> HIDE DEF t, b
      <4> QED
        BY <4>1, <4>2, <4>3, <4>4
    <3> QED
      BY <1>1, <3>1, <3>2, <3>3 DEF TargetUndone
  <2>5. TargetsKnown(r)'
    BY <1>1, <2>1, <2>2, <2>4 DEF TargetsKnown
  <2> QED
    BY <1>1, <2>1, <2>2, <2>3, <2>5 DEF Solo
<1> QED
  BY <1>1, <1>3, <1>4, <1>5 DEF Solo

LEMMA RestoredGrounded ==
    ASSUME SInv, NEW r \in Requests, pc[r] = "undo_resource",
           SetResource(mem[r].resource, mem[r].before)
    PROVE  Grounded'
<1> USE NamesFact DEF Names
<1> DEFINE c == mem[r].resource
           b == mem[r].before
<1>1. /\ c \in Resources \ {r} /\ b \in Contents
      /\ settings' = [settings EXCEPT ![c] = b] /\ targets' = targets
      /\ settings \in [Resources -> Contents \cup {Gone}]
  BY DEF SetResource, SInv, IInv, Remembered, Active, TypeOK, States
<1> HIDE DEF c, b
<1>2. b # Gone
  BY <1>1 DEF Contents
<1> QED
  BY <1>1, <1>2, GroundedStep DEF SInv

LEMMA UndoResourceSolo ==
    ASSUME SInv, NEW r \in Requests, IInv', UndoResource(r)
    PROVE  /\ Grounded' /\ Solo(r)' /\ Steps(r)
           /\ alone[r] /\ clean'[r] =>
                 settings' = found[r].settings /\ targets' = found[r].targets
<1> USE NamesFact DEF Names
<1> DEFINE c == mem[r].resource
           b == mem[r].before
<1>1. /\ pc[r] = "undo_resource" /\ c \in Resources \ {r} /\ c # Nobody
      /\ settings' = [settings EXCEPT ![c] = b] /\ targets' = targets
      /\ Ends(r) /\ UNCHANGED clean
      /\ settings \in [Resources -> Contents \cup {Gone}]
      /\ targets \in [Targets -> TargetStates]
  BY DEF UndoResource, SetResource, SInv, IInv, Remembered, Active, TypeOK
<1>2. Grounded' /\ Solo(r)' /\ Steps(r)
  BY <1>1, RestoredGrounded, EndsSolo DEF InProgress, UndoResource
<1>3. ASSUME alone[r], clean[r]
      PROVE  settings' = found[r].settings /\ targets' = found[r].targets
  <2>1. found[r] \in Edges /\ SettingsKnown(r) /\ TargetsKnown(r)
    BY <1>1, <1>3 DEF SInv, Solo, Busy
  <2>2. found[r].settings[c] = b
    BY <1>1, <2>1 DEF SettingsKnown
  <2>3. \A d \in Resources \ {c} : settings[d] = found[r].settings[d]
    BY <2>1 DEF SettingsKnown
  <2>4. \A t \in Targets : targets'[t] = found[r].targets[t]
    BY <1>1, <1>3, <2>1 DEF TargetsKnown
  <2> HIDE DEF c, b
  <2>5. settings' = found[r].settings
    BY <1>1, <2>1, <2>2, <2>3 DEF Edges
  <2>6. targets = found[r].targets
    <3>1. /\ targets \in [Targets -> TargetStates]
          /\ found[r].targets \in [Targets -> TargetStates]
      BY <1>1, <2>1 DEF Edges
    <3>2. \A t \in Targets : targets[t] = found[r].targets[t]
      BY <1>1, <2>4
    <3> QED
      BY <3>1, <3>2
  <2> QED
    BY <1>1, <2>5, <2>6
<1> QED
  BY <1>1, <1>2, <1>3

LEMMA UndoFailsSolo ==
    ASSUME SInv, NEW r \in Requests, UndoFails(r)
    PROVE  Grounded' /\ Solo(r)' /\ Steps(r) /\ pc'[r] = "undone" /\ ~ clean'[r]
<1>1. clean' = [clean EXCEPT ![r] = FALSE]
  BY DEF UndoFails
<1>2. Ends(r) /\ InProgress(r)
  BY DEF UndoFails, HasUndoCall, InProgress
<1>3. Grounded'
  <2>1. CASE UNCHANGED edge
    BY <2>1 DEF SInv, Grounded, edge
  <2>2. CASE UndoCall(r)
    BY <2>2, DeletedGrounded, UndoneGrounded, RestoredGrounded DEF UndoCall
  <2> QED
    BY <2>1, <2>2 DEF UndoFails
<1> QED
  BY <1>1, <1>2, <1>3, EndsSolo DEF Ends, Goto, SInv, IInv, TypeOK

LEMMA CrashSolo ==
    ASSUME SInv, Crash
    PROVE  /\ Grounded'
           /\ \A r \in Requests :
                 /\ Solo(r)'
                 /\ pc'[r] \in {"undone", "applied"} => pc'[r] = pc[r]
<1>1. \A r \in Requests :
         \/ pc'[r] = "dead" /\ InProgress(r)
         \/ pc'[r] = "dead" /\ pc[r] = "applied"
         \/ pc'[r] = pc[r] /\ pc[r] \in {"idle", "undone", "dead"}
  BY DEF Crash, InProgress
<1>2. Grounded'
  BY DEF Crash, SInv, Grounded, edge
<1> QED
  BY <1>1, <1>2 DEF Solo, Busy

(* What a step of r ends, it ends as the properties say. *)
Outcome(r) ==
    /\ InProgress(r) /\ pc'[r] = "undone" /\ alone[r] /\ clean'[r] =>
          settings' = found[r].settings /\ targets' = found[r].targets
    /\ pc[r] \in Calls /\ pc'[r] = "applied" /\ alone[r] =>
          \E c \in Resources, t \in Targets :
             /\ Host[c] = Host[r] /\ Site[t] = Site[r]
             /\ settings' = [found[r].settings EXCEPT ![c] = r]
             /\ targets' = [found[r].targets EXCEPT ![t] = [on |-> c, as |-> r]]

LEMMA StepOutcome ==
    ASSUME SInv, NEW r \in Requests, IInv', ApplyStep(r) \/ RollbackStep(r)
    PROVE  Grounded' /\ Solo(r)' /\ Steps(r) /\ Outcome(r)
<1>0. pc \in [Requests -> Positions]
  BY DEF SInv, IInv, TypeOK
<1>1. CASE Ambiguous(r) \/ LookupFails(r) \/ NotPublished(r)
  <2>1. pc[r] = "idle"
    BY <1>1 DEF Ambiguous, LookupFails, NotPublished
  <2> QED
    BY <1>1, <2>1, LookupSolo DEF Outcome, InProgress, Calls
<1>2. CASE Adopt(r)
  BY <1>2, AdoptSolo DEF Outcome, InProgress, Calls, Adopt
<1>3. CASE CreateResource(r)
  BY <1>0, <1>3, CreateResourceSolo DEF Outcome, CreateResource, Goto
<1>4. CASE CreateFails(r)
  BY <1>4, CreateFailsSolo DEF Outcome, CreateFails, Calls
<1>5. CASE Update(r)
  BY <1>0, <1>5, UpdateSolo DEF Outcome, Update, Goto
<1>6. CASE ListTargets(r)
  BY <1>0, <1>6, ListTargetsSolo DEF Outcome, ListTargets, Goto
<1>7. CASE CreateTarget(r)
  BY <1>0, <1>7, CreateTargetSolo DEF Outcome, CreateTarget, Goto
<1>8. CASE UpdateTarget(r)
  BY <1>0, <1>8, UpdateTargetSolo DEF Outcome, UpdateTarget, Goto
<1>9. CASE CallFails(r)
  BY <1>0, <1>9, CallFailsSolo DEF Outcome, CallFails, Goto
<1>10. CASE CallRefused(r)
  BY <1>0, <1>10, CallRefusedSolo DEF Outcome, CallRefused, Goto
<1>11. CASE UndoApplied(r)
  BY <1>0, <1>11, UndoAppliedSolo DEF Outcome, UndoApplied, Goto
<1>12. CASE DeleteResource(r)
  BY <1>12, DeleteResourceSolo DEF Outcome, DeleteResource, Calls
<1>13. CASE UndoTarget(r)
  BY <1>0, <1>13, UndoTargetSolo DEF Outcome, UndoTarget, Goto
<1>14. CASE UndoResource(r)
  BY <1>14, UndoResourceSolo DEF Outcome, UndoResource, Calls
<1>15. CASE UndoFails(r)
  BY <1>15, UndoFailsSolo DEF Outcome, Calls
<1> QED
  BY <1>1, <1>2, <1>3, <1>4, <1>5, <1>6, <1>7, <1>8, <1>9, <1>10, <1>11, <1>12,
     <1>13, <1>14, <1>15
  DEF ApplyStep, RollbackStep

LEMMA NextSInv == SInv /\ [Next]_vars => SInv' /\ [EdgeAsFound /\ RoutePublished]_vars
<1> SUFFICES ASSUME SInv, [Next]_vars PROVE SInv' /\ [EdgeAsFound /\ RoutePublished]_vars
  OBVIOUS
<1>1. IInv'
  BY NextIInv DEF SInv
<1>2. ASSUME NEW r \in Requests, ApplyStep(r) \/ RollbackStep(r)
      PROVE  SInv' /\ EdgeAsFound /\ RoutePublished
  <2>1. Grounded' /\ Solo(r)' /\ Steps(r) /\ Outcome(r)
    BY <1>1, <1>2, StepOutcome
  <2>2. \A s \in Requests \ {r} : Solo(s)' /\ pc'[s] = pc[s]
    BY <2>1, OthersSolo DEF Steps
  <2>3. EdgeAsFound /\ RoutePublished
    BY <2>1, <2>2 DEF EdgeAsFound, RoutePublished, Outcome, InProgress, Calls
  <2> QED
    BY <1>1, <2>1, <2>2, <2>3 DEF SInv
<1>3. CASE Crash
  <2>1. EdgeAsFound /\ RoutePublished
    BY <1>3, CrashSolo DEF EdgeAsFound, RoutePublished, InProgress, Calls
  <2> QED
    BY <1>1, <1>3, <2>1, CrashSolo DEF SInv
<1>4. CASE UNCHANGED vars
  BY <1>1, <1>4
  DEF vars, edge, history, SInv, Grounded, Solo, Busy, InProgress, SettingsKnown, TargetsKnown
<1> QED
  BY <1>2, <1>3, <1>4 DEF Next

THEOREM SoloInvariance == Spec => []SInv /\ [][EdgeAsFound /\ RoutePublished]_vars
BY InitSInv, NextSInv, PTL DEF Spec

(* PangolinResourceManager.rollback undoes what apply did, whichever call raised
   and whether or not it had taken effect. *)
THEOREM RollbackCorrectness == Spec => FailureLeavesEdge
<1>1. [EdgeAsFound /\ RoutePublished]_vars => [EdgeAsFound]_vars
  OBVIOUS
<1> QED
  BY <1>1, SoloInvariance, PTL DEF FailureLeavesEdge

(* An apply that succeeds has published its route, and changed nothing else. *)
THEOREM ApplyCorrectness == Spec => AppliedPublishes
<1>1. [EdgeAsFound /\ RoutePublished]_vars => [RoutePublished]_vars
  OBVIOUS
<1> QED
  BY <1>1, SoloInvariance, PTL DEF AppliedPublishes
=============================================================================
