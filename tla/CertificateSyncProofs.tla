------------------------ MODULE CertificateSyncProofs ------------------------
(***************************************************************************)
(* Theorems about module CertificateSync: for any number of dialogs,       *)
(* editors, sources and versions; the last two for one installation at a   *)
(* time.                                                                   *)
(***************************************************************************)
EXTENDS CertificateSync, FiniteSetTheorems, TLAPS

(* What the locals of a thread hold where they are used. *)
Control(t) ==
    /\ pc[t] = "fetch" => mem[t].settings.source \in Sources
    /\ pc[t] \in Installing \cup {"compare", "previewed"} => mem[t].bundle \in Bundles

(* An approval, wherever it is stored or about to be stored, follows a
   synchronization. *)
ApprovalInv ==
    synced = {} =>
        /\ ~ settings.approved
        /\ \A t \in Threads : ~ mem[t].settings.approved
        /\ \A d \in Dialogs : pc[d] \notin {"mark", "mark_put"}
        /\ pc[Renewal] \notin Installing

IInv == TypeOK /\ ApprovalInv /\ \A t \in Threads : Control(t)

LEMMA InitIInv == Init => IInv
<1> SUFFICES ASSUME Init PROVE IInv
  OBVIOUS
<1>1. TypeOK
  <2>1. NoSettings \in Settings
    BY DEF NoSettings, Settings
  <2>2. NoLocals \in Locals
    BY <2>1 DEF NoLocals, Locals
  <2>3. mem \in [Threads -> Locals]
    BY <2>2 DEF Init
  <2>4. /\ pc \in [Threads -> DialogAt \cup EditorAt \cup RenewalAt]
        /\ \A d \in Dialogs : pc[d] \in DialogAt
        /\ \A e \in Editors : pc[e] \in EditorAt
        /\ pc[Renewal] \in RenewalAt
    BY NoneAssumption DEF Init, Threads, DialogAt, EditorAt, RenewalAt
  <2>5. /\ crt \in Bundles \cup {None}
        /\ key \in Bundles \cup {None}
        /\ caddy \in Bundles \cup {None}
    BY FilesAssumption DEF Init
  <2>6. /\ vps \in [Sources -> 1..MaxVersion]
        /\ edits \in 0..MaxEdits
        /\ faults \in 0..MaxFaults
    BY BoundsAssumption DEF Init
  <2> QED
    BY <2>1, <2>3, <2>4, <2>5, <2>6 DEF Init, TypeOK
<1>2. ApprovalInv
  BY NoneAssumption DEF Init, ApprovalInv, NoLocals, NoSettings, Installing, Threads
<1>3. \A t \in Threads : Control(t)
  BY DEF Init, Control, Installing
<1> QED
  BY <1>1, <1>2, <1>3 DEF IInv

(* A step of one thread keeps the invariant: where it goes, with which locals,
   and what it leaves in the shared state. *)
Moves(t) ==
    /\ pc' = [pc EXCEPT ![t] = pc'[t]]
    /\ mem' = [mem EXCEPT ![t] = mem'[t]]
    /\ t \in Dialogs => pc'[t] \in DialogAt
    /\ t \in Editors => pc'[t] \in EditorAt
    /\ t = Renewal => pc'[t] \in RenewalAt
    /\ mem'[t] \in Locals

Shares ==
    /\ vps' = vps
    /\ settings' \in Settings
    /\ crt' \in Bundles \cup {None}
    /\ key' \in Bundles \cup {None}
    /\ caddy' \in Bundles \cup {None}
    /\ config' \in {"running", "other"}
    /\ synced \subseteq synced' /\ synced' \subseteq Bundles
    /\ halfway' \in BOOLEAN
    /\ edits' \in 0..MaxEdits
    /\ faults' \in 0..MaxFaults

Approves(t) ==
    synced' = {} =>
        /\ ~ settings'.approved
        /\ ~ mem'[t].settings.approved
        /\ t \in Dialogs => pc'[t] \notin {"mark", "mark_put"}
        /\ t = Renewal => pc'[t] \notin Installing

LEMMA MoveIInv ==
    ASSUME IInv, NEW t \in Threads, Moves(t), Shares, Approves(t), Control(t)'
    PROVE  IInv'
<1> USE DEF IInv, Moves, Shares, Approves
<1>1. \A s \in Threads : pc'[s] = (IF s = t THEN pc'[t] ELSE pc[s])
  BY DEF TypeOK
<1>2. \A s \in Threads : mem'[s] = (IF s = t THEN mem'[t] ELSE mem[s])
  BY DEF TypeOK
<1>3. pc'[t] \in DialogAt \cup EditorAt \cup RenewalAt
  BY DEF Threads
<1>4. TypeOK'
  <2>1. pc' \in [Threads -> DialogAt \cup EditorAt \cup RenewalAt]
    BY <1>3 DEF TypeOK
  <2>2. mem' \in [Threads -> Locals]
    BY DEF TypeOK
  <2>3. /\ \A d \in Dialogs : pc'[d] \in DialogAt
        /\ \A e \in Editors : pc'[e] \in EditorAt
        /\ pc'[Renewal] \in RenewalAt
    BY <1>1 DEF Threads, TypeOK
  <2> QED
    BY <2>1, <2>2, <2>3 DEF TypeOK
<1>5. ApprovalInv'
  <2> SUFFICES ASSUME synced' = {}
               PROVE  /\ ~ settings'.approved
                      /\ \A s \in Threads : ~ mem'[s].settings.approved
                      /\ \A d \in Dialogs : pc'[d] \notin {"mark", "mark_put"}
                      /\ pc'[Renewal] \notin Installing
    BY DEF ApprovalInv
  <2>1. synced = {}
    OBVIOUS
  <2> QED
    BY <2>1, <1>1, <1>2 DEF ApprovalInv, Threads
<1>6. \A s \in Threads : Control(s)'
  BY <1>1, <1>2 DEF Control
<1> QED
  BY <1>4, <1>5, <1>6

(* Where Goto and Return lead. *)
LEMMA GotoMoves ==
    ASSUME TypeOK, NEW t \in Threads, NEW p, Goto(t, p)
    PROVE  pc'[t] = p /\ pc' = [pc EXCEPT ![t] = pc'[t]]
BY DEF TypeOK, Goto

LEMMA ReturnMoves ==
    ASSUME TypeOK, NEW t \in Threads, NEW p, Return(t, p)
    PROVE  /\ pc'[t] = p /\ pc' = [pc EXCEPT ![t] = pc'[t]]
           /\ mem'[t] = NoLocals /\ mem' = [mem EXCEPT ![t] = mem'[t]]
           /\ NoLocals \in Locals /\ ~ NoLocals.settings.approved
           /\ NoLocals.settings.source = None
<1>1. pc'[t] = p /\ pc' = [pc EXCEPT ![t] = pc'[t]]
  BY GotoMoves DEF Return
<1>2. mem'[t] = NoLocals /\ mem' = [mem EXCEPT ![t] = mem'[t]]
  BY DEF TypeOK, Return
<1>3. NoLocals \in Locals /\ ~ NoLocals.settings.approved /\ NoLocals.settings.source = None
  BY DEF NoLocals, NoSettings, Locals, Settings
<1> QED
  BY <1>1, <1>2, <1>3

LEMMA InstallIInv ==
    ASSUME IInv, NEW t \in Dialogs \cup {Renewal}, InstallStep(t)
    PROVE  IInv'
<1> USE DEF IInv
<1>0. t \in Threads /\ t \notin Editors /\ (t = Renewal => t \notin Dialogs)
  BY NoneAssumption DEF Threads
<1>1. SUFFICES Moves(t) /\ Shares /\ Approves(t) /\ Control(t)'
  BY <1>0, MoveIInv
<1>2. mem[t] \in Locals
  BY <1>0 DEF TypeOK
<1>3. pc[t] \in Installing /\ mem[t].bundle \in Bundles
  BY <1>0 DEF InstallStep, Control, Installing, Remember, WriteCrt, WriteKey, Validate, Reload,
     ReloadRefused, InstallFails, RestoreCrt, RestoreKey, RestoreFails, Recheck, RecheckFails
<1>4. synced = {} => ~ settings.approved /\ ~ mem[t].settings.approved /\ t # Renewal
  BY <1>0, <1>3 DEF ApprovalInv
<1>5. Shares
  <2>1. vps' = vps /\ settings' = settings /\ edits' = edits
    BY DEF InstallStep, Remember, WriteCrt, WriteKey, Validate, Reload,
       ReloadRefused, InstallFails, RestoreCrt, RestoreKey, RestoreFails, Recheck,
       RecheckFails, bounds
  <2>2. crt' \in {crt, mem[t].bundle, mem[t].crt} /\ key' \in {key, mem[t].bundle, mem[t].key}
    BY DEF InstallStep, Remember, WriteCrt, WriteKey, Validate, Reload,
       ReloadRefused, InstallFails, RestoreCrt, RestoreKey, RestoreFails, Recheck,
       RecheckFails, files
  <2>3. caddy' \in {caddy, crt} /\ config' \in {config, "running"}
    BY DEF InstallStep, Remember, WriteCrt, WriteKey, Validate, Reload,
       ReloadRefused, InstallFails, RestoreCrt, RestoreKey, RestoreFails, Recheck,
       RecheckFails, Reloaded, served
  <2>4. synced' \in {synced, synced \cup {mem[t].bundle}}
    BY DEF InstallStep, Remember, WriteCrt, WriteKey, Validate, Reload,
       ReloadRefused, InstallFails, RestoreCrt, RestoreKey, RestoreFails, Recheck,
       RecheckFails
  <2>5. halfway' \in {halfway, TRUE}
    BY DEF InstallStep, Remember, WriteCrt, WriteKey, Validate, Reload,
       ReloadRefused, InstallFails, RestoreCrt, RestoreKey, RestoreFails, Recheck,
       RecheckFails
  <2>6. faults' \in 0..MaxFaults
    <3>1. faults' = faults \/ Fault
      BY DEF InstallStep, Remember, WriteCrt, WriteKey, Validate, Reload,
       ReloadRefused, InstallFails, RestoreCrt, RestoreKey, RestoreFails, Recheck,
       RecheckFails, bounds
    <3> QED
      BY <3>1, BoundsAssumption DEF Fault, TypeOK
  <2>7. {mem[t].crt, mem[t].key} \subseteq Bundles \cup {None}
    BY <1>2 DEF Locals
  <2> QED
    BY <2>1, <2>2, <2>3, <2>4, <2>5, <2>6, <2>7, <1>3 DEF Shares, TypeOK
<1>6. CASE Remember(t)
  <2>1. mem'[t] = [mem[t] EXCEPT !.crt = crt, !.key = key]
    BY <1>0, <1>6 DEF Remember, TypeOK
  <2>2. /\ mem'[t] \in Locals
        /\ mem'[t].bundle = mem[t].bundle
        /\ mem'[t].settings = mem[t].settings
    BY <2>1, <1>2 DEF Locals, TypeOK
  <2>3. mem' = [mem EXCEPT ![t] = mem'[t]]
    BY <1>0, <1>6 DEF Remember, TypeOK
  <2>4. pc'[t] = "write_crt" /\ pc' = [pc EXCEPT ![t] = pc'[t]]
    BY <1>0, <1>6, GotoMoves DEF Remember
  <2> QED
    BY <2>2, <2>3, <2>4, <1>0, <1>3, <1>4, <1>5, <1>6
    DEF Remember, Moves, Approves, Control, DialogAt, RenewalAt, Installing
<1>7. CASE UNCHANGED mem /\ \E p \in Installing : Goto(t, p)
  <2> PICK p \in Installing : Goto(t, p)
    BY <1>7
  <2>1. pc'[t] = p /\ pc' = [pc EXCEPT ![t] = pc'[t]]
    BY <1>0, GotoMoves
  <2>2. settings' = settings
    BY DEF InstallStep, Remember, WriteCrt, WriteKey, Validate, Reload, ReloadRefused,
     InstallFails, RestoreCrt, RestoreKey, RestoreFails, Recheck, RecheckFails
  <2>3. mem' = [mem EXCEPT ![t] = mem'[t]]
    BY <1>7 DEF TypeOK
  <2> QED
    BY <2>1, <2>2, <2>3, <1>0, <1>2, <1>3, <1>4, <1>5, <1>7
    DEF Moves, Approves, Shares, Control, DialogAt, RenewalAt, Installing
<1>8. CASE \E p \in {"sleep", "failed", "mark"} :
              /\ Return(t, p)
              /\ p = "sleep" <=> t = Renewal
              /\ p = "mark" => synced' # {}
  <2> PICK p \in {"sleep", "failed", "mark"} :
              /\ Return(t, p)
              /\ p = "sleep" <=> t = Renewal
              /\ p = "mark" => synced' # {}
    BY <1>8
  <2>1. /\ pc'[t] = p /\ pc' = [pc EXCEPT ![t] = pc'[t]]
        /\ mem'[t] = NoLocals /\ mem' = [mem EXCEPT ![t] = mem'[t]]
        /\ NoLocals \in Locals /\ ~ NoLocals.settings.approved
        /\ NoLocals.settings.source = None
    BY <1>0, ReturnMoves
  <2>2. settings' = settings
    BY DEF InstallStep, Remember, WriteCrt, WriteKey, Validate, Reload, ReloadRefused,
     InstallFails, RestoreCrt, RestoreKey, RestoreFails, Recheck, RecheckFails
  <2> QED
    BY <2>1, <2>2, <1>0, <1>4, <1>5
    DEF Moves, Approves, Shares, Control, DialogAt, RenewalAt, Installing
<1> QED
  BY <1>6, <1>7, <1>8 DEF InstallStep, WriteCrt, WriteKey, Validate, Reload, ReloadRefused,
     InstallFails, RestoreCrt, RestoreKey, RestoreFails, Recheck, RecheckFails, Failed, Installing

(* The other calls of the three kinds of threads. *)
LEMMA EditorIInv ==
    ASSUME IInv, NEW e \in Editors, EditRead(e) \/ EditPut(e)
    PROVE  IInv'
<1> USE DEF IInv
<1>0. e \in Threads /\ e \notin Dialogs /\ e # Renewal
  BY NoneAssumption DEF Threads
<1>1. SUFFICES Moves(e) /\ Shares /\ Approves(e) /\ Control(e)'
  BY <1>0, MoveIInv
<1>2. mem[e] \in Locals
  BY <1>0 DEF TypeOK
<1>3. synced = {} => ~ settings.approved /\ ~ mem[e].settings.approved
  BY <1>0 DEF ApprovalInv
<1>4. CASE EditRead(e)
  <2>1. pc'[e] = "put" /\ pc' = [pc EXCEPT ![e] = pc'[e]]
    BY <1>0, <1>4, GotoMoves DEF EditRead
  <2>2. mem'[e] = [mem[e] EXCEPT !.settings = settings] /\ mem' = [mem EXCEPT ![e] = mem'[e]]
    BY <1>0, <1>4 DEF EditRead, TypeOK
  <2>3. mem'[e] \in Locals /\ mem'[e].settings = settings
    BY <1>2, <2>2 DEF Locals, TypeOK
  <2>4. Shares
    BY <1>4, BoundsAssumption DEF EditRead, Shares, TypeOK, files, served
  <2> QED
    BY <2>1, <2>2, <2>3, <2>4, <1>0, <1>3, <1>4
    DEF EditRead, Moves, Approves, Control, EditorAt, Installing
<1>5. CASE EditPut(e)
  <2>1. /\ pc'[e] = "idle" /\ pc' = [pc EXCEPT ![e] = pc'[e]]
        /\ mem'[e] = NoLocals /\ mem' = [mem EXCEPT ![e] = mem'[e]]
        /\ NoLocals \in Locals /\ ~ NoLocals.settings.approved
        /\ NoLocals.settings.source = None
    BY <1>0, <1>5, ReturnMoves DEF EditPut
  <2>2. settings' \in Settings /\ (settings'.approved => mem[e].settings.approved)
    <3>1. mem[e].settings \in Settings
      BY <1>2 DEF Locals
    <3>2. PICK source \in Sources \cup {Dns01}, auto \in BOOLEAN :
              settings' = Edited(mem[e].settings, source, auto)
      BY <1>5 DEF EditPut
    <3> QED
      BY <3>1, <3>2 DEF Edited, Settings
  <2>3. Shares
    BY <1>5, <2>2 DEF EditPut, Shares, TypeOK, files, served, bounds
  <2> QED
    BY <2>1, <2>2, <2>3, <1>0, <1>3, <1>5
    DEF EditPut, Moves, Approves, Control, EditorAt, Installing
<1> QED
  BY <1>4, <1>5

LEMMA FetchIInv ==
    ASSUME IInv, NEW t \in Dialogs \cup {Renewal}, Fetch(t) \/ FetchFails(t)
    PROVE  IInv'
<1> USE DEF IInv
<1>0. t \in Threads /\ t \notin Editors /\ (t = Renewal => t \notin Dialogs)
  BY NoneAssumption DEF Threads
<1>1. SUFFICES Moves(t) /\ Shares /\ Approves(t) /\ Control(t)'
  BY <1>0, MoveIInv
<1>2. mem[t] \in Locals
  BY <1>0 DEF TypeOK
<1>3. synced = {} => ~ settings.approved /\ ~ mem[t].settings.approved
  BY <1>0 DEF ApprovalInv
<1>4. Shares
  <2>1. faults' \in 0..MaxFaults
    BY BoundsAssumption DEF Fetch, FetchFails, Fault, bounds, TypeOK
  <2> QED
    BY <2>1 DEF Fetch, FetchFails, Shares, TypeOK, files, served, bounds
<1>5. CASE Fetch(t)
  <2> DEFINE bundle == [source |-> mem[t].settings.source,
                        version |-> vps[mem[t].settings.source]]
  <2>1. bundle \in Bundles
    <3>1. mem[t].settings.source \in Sources
      BY <1>0, <1>5 DEF Fetch, Control
    <3>2. vps[mem[t].settings.source] \in 0..MaxVersion
      BY <3>1 DEF TypeOK
    <3> QED
      BY <3>1, <3>2 DEF Bundles
  <2>2. mem'[t] = [mem[t] EXCEPT !.bundle = bundle] /\ mem' = [mem EXCEPT ![t] = mem'[t]]
    BY <1>0, <1>5 DEF Fetch, TypeOK
  <2>3. /\ mem'[t] \in Locals
        /\ mem'[t].bundle \in Bundles
        /\ mem'[t].settings = mem[t].settings
    BY <1>2, <2>1, <2>2 DEF Locals
  <2>4. /\ pc'[t] = (IF t = Renewal THEN "compare" ELSE "previewed")
        /\ pc' = [pc EXCEPT ![t] = pc'[t]]
    BY <1>0, <1>5, GotoMoves DEF Fetch
  <2> HIDE DEF bundle
  <2> QED
    BY <2>2, <2>3, <2>4, <1>0, <1>3, <1>4, <1>5
    DEF Fetch, Moves, Approves, Control, DialogAt, RenewalAt, Installing
<1>6. CASE FetchFails(t)
  <2>1. /\ pc'[t] = (IF t = Renewal THEN "sleep" ELSE "failed")
        /\ pc' = [pc EXCEPT ![t] = pc'[t]]
        /\ mem'[t] = NoLocals /\ mem' = [mem EXCEPT ![t] = mem'[t]]
        /\ NoLocals \in Locals /\ ~ NoLocals.settings.approved
        /\ NoLocals.settings.source = None
    BY <1>0, <1>6, ReturnMoves DEF FetchFails, Failed
  <2> QED
    BY <2>1, <1>0, <1>3, <1>4, <1>6
    DEF FetchFails, Moves, Approves, Control, DialogAt, RenewalAt, Installing
<1> QED
  BY <1>5, <1>6

LEMMA DialogIInv ==
    ASSUME IInv, NEW d \in Dialogs,
           Preview(d) \/ Apply(d) \/ MarkRead(d) \/ MarkPut(d) \/ MarkFails(d)
    PROVE  IInv'
<1> USE DEF IInv
<1>0. d \in Threads /\ d \notin Editors /\ d # Renewal
  BY NoneAssumption DEF Threads
<1>1. SUFFICES Moves(d) /\ Shares /\ Approves(d) /\ Control(d)'
  BY <1>0, MoveIInv
<1>2. mem[d] \in Locals /\ mem[d].settings \in Settings
  BY <1>0 DEF TypeOK, Locals
<1>3. synced = {} => ~ settings.approved /\ ~ mem[d].settings.approved
  BY <1>0 DEF ApprovalInv
<1>4. Shares
  <2>1. faults' \in 0..MaxFaults
    BY BoundsAssumption DEF Preview, Apply, MarkRead, MarkPut, MarkFails, Fault, bounds, TypeOK
  <2>2. settings' \in {settings, [mem[d].settings EXCEPT !.approved = TRUE]}
    BY DEF Preview, Apply, MarkRead, MarkPut, MarkFails
  <2>3. settings' \in Settings
    BY <2>2, <1>2 DEF Settings, TypeOK
  <2> QED
    BY <2>1, <2>3
    DEF Preview, Apply, MarkRead, MarkPut, MarkFails, Shares, TypeOK, files, served, bounds
<1>5. CASE Preview(d) \/ MarkRead(d)
  <2>1. mem'[d] = [mem[d] EXCEPT !.settings = settings] /\ mem' = [mem EXCEPT ![d] = mem'[d]]
    BY <1>0, <1>5 DEF Preview, MarkRead, TypeOK
  <2>2. mem'[d] \in Locals /\ mem'[d].settings = settings
    BY <1>2, <2>1 DEF Locals, TypeOK
  <2>3. /\ pc'[d] = (IF Preview(d) THEN "fetch" ELSE "mark_put")
        /\ pc' = [pc EXCEPT ![d] = pc'[d]]
    BY <1>0, <1>5, GotoMoves DEF Preview, MarkRead
  <2>4. Preview(d) => settings.source \in Sources
    BY DEF Preview, TypeOK, Settings
  <2>5. synced = {} => pc[d] # "mark"
    BY DEF ApprovalInv
  <2> QED
    BY <2>1, <2>2, <2>3, <2>4, <2>5, <1>0, <1>3, <1>4, <1>5
    DEF Preview, MarkRead, Moves, Approves, Control, DialogAt, Installing
<1>6. CASE Apply(d)
  <2>1. pc'[d] = "remember" /\ pc' = [pc EXCEPT ![d] = pc'[d]]
    BY <1>0, <1>6, GotoMoves DEF Apply
  <2>2. mem[d].bundle \in Bundles
    BY <1>0, <1>6 DEF Apply, Control
  <2>3. mem' = [mem EXCEPT ![d] = mem'[d]]
    BY <1>6 DEF Apply, TypeOK
  <2> QED
    BY <2>1, <2>2, <2>3, <1>0, <1>2, <1>3, <1>4, <1>6
    DEF Apply, Moves, Approves, Control, DialogAt, Installing
<1>7. CASE MarkPut(d) \/ MarkFails(d)
  <2>1. /\ pc'[d] \in {"done", "failed"} /\ pc' = [pc EXCEPT ![d] = pc'[d]]
        /\ mem'[d] = NoLocals /\ mem' = [mem EXCEPT ![d] = mem'[d]]
        /\ NoLocals \in Locals /\ ~ NoLocals.settings.approved
        /\ NoLocals.settings.source = None
    BY <1>0, <1>7, ReturnMoves DEF MarkPut, MarkFails, Failed
  <2>2. synced' # {}
    BY <1>7 DEF MarkPut, MarkFails, ApprovalInv
  <2> QED
    BY <2>1, <2>2, <1>0, <1>4
    DEF Moves, Approves, Control, DialogAt, Installing
<1> QED
  BY <1>5, <1>6, <1>7

LEMMA RenewalIInv ==
    ASSUME IInv, Wake \/ WakeFails \/ Check \/ Compare
    PROVE  IInv'
<1> USE DEF IInv
<1>0. Renewal \in Threads /\ Renewal \notin Editors /\ Renewal \notin Dialogs
  BY NoneAssumption DEF Threads
<1>1. SUFFICES Moves(Renewal) /\ Shares /\ Approves(Renewal) /\ Control(Renewal)'
  BY <1>0, MoveIInv
<1>2. mem[Renewal] \in Locals
  BY <1>0 DEF TypeOK
<1>3. synced = {} => ~ settings.approved /\ ~ mem[Renewal].settings.approved
  BY <1>0 DEF ApprovalInv
<1>4. Shares /\ settings' = settings
  <2>1. faults' \in 0..MaxFaults
    BY BoundsAssumption DEF Wake, WakeFails, Check, Compare, Fault, bounds, TypeOK
  <2> QED
    BY <2>1 DEF Wake, WakeFails, Check, Compare, Shares, TypeOK, files, served, bounds
<1>5. CASE Return(Renewal, "sleep")
  <2>1. /\ pc'[Renewal] = "sleep" /\ pc' = [pc EXCEPT ![Renewal] = pc'[Renewal]]
        /\ mem'[Renewal] = NoLocals /\ mem' = [mem EXCEPT ![Renewal] = mem'[Renewal]]
        /\ NoLocals \in Locals /\ ~ NoLocals.settings.approved
        /\ NoLocals.settings.source = None
    BY <1>0, <1>5, ReturnMoves
  <2> QED
    BY <2>1, <1>0, <1>3, <1>4 DEF Moves, Approves, Shares, Control, RenewalAt, Installing
<1>6. CASE UNCHANGED mem /\ \E p \in {"check", "dead", "remember"} :
              /\ Goto(Renewal, p)
              /\ p = "remember" => Compare /\ mem[Renewal].settings.approved
  <2> PICK p \in {"check", "dead", "remember"} :
              /\ Goto(Renewal, p)
              /\ p = "remember" => Compare /\ mem[Renewal].settings.approved
    BY <1>6
  <2>1. pc'[Renewal] = p /\ pc' = [pc EXCEPT ![Renewal] = pc'[Renewal]]
    BY <1>0, GotoMoves
  <2>2. p = "remember" => mem[Renewal].bundle \in Bundles
    BY <1>0 DEF Compare, Control
  <2>3. mem' = [mem EXCEPT ![Renewal] = mem'[Renewal]]
    BY <1>6 DEF TypeOK
  <2> QED
    BY <2>1, <2>2, <2>3, <1>0, <1>2, <1>3, <1>4, <1>6
    DEF Moves, Approves, Shares, Control, RenewalAt, Installing
<1>7. CASE Check /\ settings.source \in Sources
  <2>1. /\ mem'[Renewal] = [mem[Renewal] EXCEPT !.settings = settings]
        /\ mem' = [mem EXCEPT ![Renewal] = mem'[Renewal]]
    BY <1>0, <1>7 DEF Check, TypeOK
  <2>2. mem'[Renewal] \in Locals /\ mem'[Renewal].settings = settings
    BY <1>2, <2>1 DEF Locals, TypeOK
  <2>3. pc'[Renewal] = "fetch" /\ pc' = [pc EXCEPT ![Renewal] = pc'[Renewal]]
    BY <1>0, <1>7, GotoMoves DEF Check
  <2>4. settings.source \in Sources
    BY <1>7 DEF TypeOK, Settings
  <2> QED
    BY <2>1, <2>2, <2>3, <2>4, <1>0, <1>3, <1>4
    DEF Moves, Approves, Shares, Control, RenewalAt, Installing
<1> QED
  BY <1>5, <1>6, <1>7 DEF Wake, WakeFails, Check, Compare, Failed

(* Nobody holds anything after a restart; settings are not touched by it. *)
LEMMA CrashIInv ==
    ASSUME IInv, Crash
    PROVE  IInv'
<1> USE DEF IInv
<1>1. NoLocals \in Locals /\ ~ NoLocals.settings.approved
  BY DEF NoLocals, NoSettings, Locals, Settings
<1>2. \A t \in Threads : pc'[t] = (IF Starts THEN Restarted(t) ELSE "down")
  BY DEF Crash
<1>3. \A t \in Threads : mem'[t] = NoLocals
  BY DEF Crash
<1>4. /\ \A d \in Dialogs : pc'[d] \in {"idle", "done", "failed", "down"}
      /\ \A e \in Editors : pc'[e] \in {"idle", "down"}
      /\ pc'[Renewal] \in {"sleep", "down"}
  BY <1>2, NoneAssumption DEF Restarted, Threads, TypeOK, EditorAt
<1>5. TypeOK'
  <2>1. pc' \in [Threads -> DialogAt \cup EditorAt \cup RenewalAt]
    <3>1. \A t \in Threads : pc'[t] \in DialogAt \cup EditorAt \cup RenewalAt
      BY <1>4 DEF Threads, DialogAt, EditorAt, RenewalAt
    <3>2. pc' = [t \in Threads |-> pc'[t]]
      BY DEF Crash
    <3> QED
      BY <3>1, <3>2
  <2>2. mem' \in [Threads -> Locals]
    BY <1>1 DEF Crash
  <2>3. faults' \in 0..MaxFaults
    BY BoundsAssumption DEF Crash, Fault, TypeOK
  <2>4. halfway' \in BOOLEAN
    BY DEF Crash, TypeOK
  <2>5. /\ vps' \in [Sources -> 1..MaxVersion]
        /\ settings' \in Settings
        /\ crt' \in Bundles \cup {None}
        /\ key' \in Bundles \cup {None}
        /\ caddy' \in Bundles \cup {None}
        /\ config' \in {"running", "other"}
        /\ synced' \subseteq Bundles
        /\ edits' \in 0..MaxEdits
    BY DEF Crash, TypeOK, files
  <2> QED
    BY <2>1, <2>2, <2>3, <2>4, <2>5, <1>4 DEF TypeOK, DialogAt, EditorAt, RenewalAt
<1>6. ApprovalInv'
  BY <1>1, <1>3, <1>4 DEF Crash, ApprovalInv, Installing
<1>7. \A t \in Threads : Control(t)'
  BY <1>4 DEF Control, Installing, Threads
<1> QED
  BY <1>5, <1>6, <1>7

LEMMA NextIInv == IInv /\ [Next]_vars => IInv'
<1> SUFFICES ASSUME IInv, [Next]_vars PROVE IInv'
  OBVIOUS
<1>1. ASSUME NEW s \in Sources, VpsRenews(s) PROVE IInv'
  <2>1. vps' \in [Sources -> 1..MaxVersion]
    BY <1>1, BoundsAssumption DEF VpsRenews, IInv, TypeOK
  <2> QED
    BY <1>1, <2>1 DEF VpsRenews, IInv, TypeOK, ApprovalInv, Control, files, served, bounds
<1>2. ASSUME NEW e \in Editors, EditRead(e) \/ EditPut(e) PROVE IInv'
  BY <1>2, EditorIInv
<1>3. ASSUME NEW d \in Dialogs, Preview(d) \/ Apply(d) \/ DialogStep(d) PROVE IInv'
  BY <1>3, DialogIInv, FetchIInv, InstallIInv DEF DialogStep
<1>4. CASE RenewalStep
  BY <1>4, RenewalIInv, FetchIInv, InstallIInv DEF RenewalStep
<1>5. CASE Crash
  BY <1>5, CrashIInv
<1>6. CASE UNCHANGED vars
  BY <1>6 DEF vars, files, served, bounds, IInv, TypeOK, ApprovalInv, Control
<1>7. CASE WriteConfig \/ LoadConfig
  <2>1. config' \in {"running", "other"} /\ caddy' \in {caddy, crt}
    BY <1>7 DEF WriteConfig, LoadConfig, Reloaded
  <2> QED
    BY <1>7, <2>1
    DEF WriteConfig, LoadConfig, files, bounds, IInv, TypeOK, ApprovalInv, Control
<1> QED
  BY <1>1, <1>2, <1>3, <1>4, <1>5, <1>6, <1>7 DEF Next

(* The settings store, both files, Caddy and every thread stay in their types:
   a position of a thread is one that its code has. *)
THEOREM TypeCorrect == SafeSpec => []TypeOK
<1>1. IInv => TypeOK
  BY DEF IInv
<1> QED
  BY <1>1, InitIInv, NextIInv, PTL DEF SafeSpec

(* Automatic renewal installs nothing before an operator has completed a
   synchronization: certificate_settings keeps an approval but never makes
   one, whatever the threads interleave. *)
THEOREM ApprovalFirst == SafeSpec => []InactiveUntilApproved
<1>1. IInv => InactiveUntilApproved
  BY DEF IInv, ApprovalInv, InactiveUntilApproved
<1> QED
  BY <1>1, InitIInv, NextIInv, PTL DEF SafeSpec

-----------------------------------------------------------------------------
(* One installation at a time. *)

Exclusive ==
    \A s, t \in Threads : pc[s] \in Installing /\ pc[t] \in Installing => s = t

(* What an installation that nothing cut off has in its locals and in both
   files at each of its calls, and that Caddy runs if and only if there was a
   pair to start with. *)
Pair(t) ==
    /\ pc[t] = "remember" => crt = key /\ (caddy = None <=> crt = None)
    /\ pc[t] \in Installing \ {"remember"} =>
          mem[t].crt = mem[t].key /\ (caddy = None <=> mem[t].crt = None)
    /\ pc[t] = "write_crt" => crt = mem[t].crt /\ key = mem[t].key
    /\ pc[t] = "write_key" => crt = mem[t].bundle /\ key = mem[t].key
    /\ pc[t] \in {"validate", "reload"} => crt = mem[t].bundle /\ key = mem[t].bundle
    /\ pc[t] = "restore_key" => crt = mem[t].crt
    /\ pc[t] = "recheck" => crt = mem[t].crt /\ key = crt /\ crt # None

(* What the renewal loop is about to replace has been compared. *)
Compared ==
    pc[Renewal] \in {"remember", "write_crt"} =>
        \/ crt = None
        \/ crt.version < mem[Renewal].bundle.version

PairInv ==
    /\ Exclusive
    /\ OnePairInstalled
    /\ ~ halfway => \A t \in Threads : Pair(t)
    /\ Compared

LEMMA InitPairInv == Init => PairInv
<1> SUFFICES ASSUME Init PROVE PairInv
  OBVIOUS
<1>1. \A t \in Threads : pc[t] \in {"idle", "sleep"}
  BY DEF Init
<1>2. Renewal \in Threads
  BY DEF Threads
<1> QED
  BY <1>1, <1>2
  DEF Init, PairInv, Exclusive, OnePairInstalled, Pair, Compared, Installing

(* Under the bound of one installation, one that starts finds no other. *)
LEMMA NoneInstalls ==
    ASSUME MaxInstalls = 1, MayInstall
    PROVE  \A t \in Threads : pc[t] \notin Installing
<1> DEFINE S == {t \in Threads : pc[t] \in Installing}
<1>1. IsFiniteSet(Threads)
  <2>1. IsFiniteSet(Dialogs \cup Editors)
    BY FiniteAssumption, FS_Union
  <2>2. IsFiniteSet((Dialogs \cup Editors) \cup {Renewal})
    BY <2>1, FS_AddElement
  <2> QED
    BY <2>2 DEF Threads
<1>2. IsFiniteSet(S)
  BY <1>1, FS_Subset
<1>3. Cardinality(S) \in Nat /\ Cardinality(S) < 1
  BY <1>2, FS_CardinalityType DEF MayInstall
<1>4. S = {}
  BY <1>2, <1>3, FS_EmptySet
<1> QED
  BY <1>4

(* A step of a thread that is outside its installation before and after. *)
LEMMA QuietPairInv ==
    ASSUME PairInv, TypeOK, NEW t \in Threads,
           pc' = [pc EXCEPT ![t] = pc'[t]], mem' = [mem EXCEPT ![t] = mem'[t]],
           pc[t] \notin Installing, pc'[t] \notin Installing,
           UNCHANGED <<crt, key, caddy, halfway>>
    PROVE  PairInv'
<1>1. /\ \A s \in Threads \ {t} : pc'[s] = pc[s] /\ mem'[s] = mem[s]
      /\ Renewal \in Threads
  BY DEF TypeOK, Threads
<1>2. Exclusive'
  BY <1>1 DEF PairInv, Exclusive
<1>3. OnePairInstalled'
  BY <1>1 DEF PairInv, OnePairInstalled
<1>4. ASSUME ~ halfway', NEW s \in Threads PROVE Pair(s)'
  BY <1>1, <1>4 DEF PairInv, Pair, Installing
<1>5. Compared'
  BY <1>1 DEF PairInv, Compared, Installing
<1> QED
  BY <1>2, <1>3, <1>4, <1>5 DEF PairInv

(* An installation starts, at an old certificate when the loop starts it. *)
LEMMA StartPairInv ==
    ASSUME PairInv, TypeOK, MaxInstalls = 1, MayInstall, NEW t \in Threads,
           Goto(t, "remember"), UNCHANGED <<crt, key, caddy, mem, halfway>>,
           t = Renewal => UpdateAvailable(crt, mem[t].bundle)
    PROVE  PairInv'
<1>1. \A s \in Threads : pc[s] \notin Installing
  BY NoneInstalls
<1>2. /\ pc'[t] = "remember"
      /\ \A s \in Threads \ {t} : pc'[s] = pc[s]
      /\ Renewal \in Threads
  BY DEF Goto, TypeOK, Threads
<1>3. Exclusive'
  BY <1>1, <1>2 DEF Exclusive
<1>4. OnePairInstalled'
  BY <1>2 DEF OnePairInstalled, Installing
<1>5. ASSUME ~ halfway', NEW s \in Threads PROVE Pair(s)'
  BY <1>1, <1>2, <1>5 DEF PairInv, OnePairInstalled, Pair, Installing
<1>6. Compared'
  BY <1>1, <1>2 DEF Compared, UpdateAvailable, Installing
<1> QED
  BY <1>3, <1>4, <1>5, <1>6 DEF PairInv

(* A call of the installation in progress. *)
LEMMA InstallPairInv ==
    ASSUME IInv, PairInv, NEW t \in Dialogs \cup {Renewal}, InstallStep(t)
    PROVE  PairInv'
<1>0. t \in Threads /\ TypeOK /\ Renewal \in Threads
  BY DEF Threads, IInv
<1>1. pc[t] \in Installing
  BY DEF InstallStep, Installing, Remember, WriteCrt, WriteKey, Validate, Reload,
       ReloadRefused, InstallFails, RestoreCrt, RestoreKey, RestoreFails, Recheck,
       RecheckFails
<1>2. mem[t].bundle \in Bundles /\ mem[t].bundle # None
  BY <1>0, <1>1, NoneAssumption DEF IInv, Control
<1>3. \A s \in Threads \ {t} : pc[s] \notin Installing
  BY <1>0, <1>1 DEF PairInv, Exclusive
<1>4. \A s \in Threads \ {t} : pc'[s] = pc[s] /\ mem'[s] = mem[s]
  BY <1>0 DEF InstallStep, Goto, Return, Failed, TypeOK, Remember, WriteCrt, WriteKey, Validate, Reload,
       ReloadRefused, InstallFails, RestoreCrt, RestoreKey, RestoreFails, Recheck,
       RecheckFails
<1>5. Exclusive'
  BY <1>3, <1>4 DEF Exclusive
<1>6. halfway' = FALSE => ~ halfway
  BY <1>0 DEF InstallStep, TypeOK, Remember, WriteCrt, WriteKey, Validate, Reload,
       ReloadRefused, InstallFails, RestoreCrt, RestoreKey, RestoreFails, Recheck,
       RecheckFails
<1>7. ~ halfway' => Pair(t)' /\ (pc'[t] \notin Installing => crt' = key' /\ (caddy' = None <=> crt' = None))
  <2> SUFFICES ASSUME ~ halfway'
               PROVE  Pair(t)' /\ (pc'[t] \notin Installing => crt' = key' /\ (caddy' = None <=> crt' = None))
    OBVIOUS
  <2>0. Pair(t) /\ ~ halfway
    BY <1>0, <1>6 DEF PairInv, InstallStep, TypeOK, Remember, WriteCrt, WriteKey, Validate, Reload,
       ReloadRefused, InstallFails, RestoreCrt, RestoreKey, RestoreFails, Recheck,
       RecheckFails
  <2>11. CanReload /\ Reloaded => caddy # None /\ caddy' # None
    BY DEF Reloaded, CanReload, Accepted
  <2>1. CASE Remember(t)
    <3>1. mem'[t] = [mem[t] EXCEPT !.crt = crt, !.key = key]
      BY <1>0, <2>1 DEF Remember, TypeOK
    <3>2. mem[t] \in Locals
      BY <1>0 DEF TypeOK
    <3>3. mem'[t].crt = crt /\ mem'[t].key = key /\ mem'[t].bundle = mem[t].bundle
      BY <3>1, <3>2 DEF Locals
    <3>4. pc'[t] = "write_crt"
      BY <1>0, <2>1, GotoMoves DEF Remember
    <3> QED
      BY <2>0, <2>1, <3>3, <3>4 DEF Remember, Pair, Installing, files, served
  <2>2. CASE WriteCrt(t)
    <3>1. pc'[t] = "write_key"
      BY <1>0, <2>2, GotoMoves DEF WriteCrt
    <3> QED
      BY <2>0, <2>2, <3>1 DEF WriteCrt, Pair, Installing, served
  <2>3. CASE WriteKey(t)
    <3>1. pc'[t] = "validate"
      BY <1>0, <2>3, GotoMoves DEF WriteKey
    <3> QED
      BY <2>0, <2>3, <3>1 DEF WriteKey, Pair, Installing, served
  <2>4. CASE Validate(t)
    <3>1. pc'[t] \in {"reload", "restore_crt"}
      BY <1>0, <2>4, GotoMoves DEF Validate
    <3> QED
      BY <2>0, <2>4, <3>1 DEF Validate, Pair, Installing, files, served
  <2>5. CASE Reload(t)
    <3>1. pc'[t] \in {"sleep", "mark"}
      BY <1>0, <2>5, ReturnMoves DEF Reload
    <3> QED
      BY <1>2, <2>0, <2>11, <2>5, <3>1 DEF Reload, Pair, Installing, files
  <2>6. CASE ReloadRefused(t)
    <3>1. pc'[t] = "restore_crt"
      BY <1>0, <2>6, GotoMoves DEF ReloadRefused
    <3> QED
      BY <2>0, <2>6, <3>1 DEF ReloadRefused, Pair, Installing, files, served
  <2>7. CASE InstallFails(t)
    <3>1. pc'[t] = "restore_crt"
      BY <1>0, <2>7, GotoMoves DEF InstallFails
    <3> QED
      BY <1>2, <2>0, <2>11, <2>7, <3>1 DEF InstallFails, Pair, Installing, files, served
  <2>8. CASE RestoreCrt(t)
    <3>1. pc'[t] = "restore_key"
      BY <1>0, <2>8, GotoMoves DEF RestoreCrt
    <3> QED
      BY <2>0, <2>8, <3>1 DEF RestoreCrt, Pair, Installing, served
  <2>9. CASE RestoreKey(t)
    <3>1. CASE mem[t].crt # None
      <4>1. pc'[t] = "recheck" /\ mem' = mem
        BY <1>0, <2>0, <2>9, <3>1, GotoMoves DEF RestoreKey, Pair, Installing, served
      <4> QED
        BY <2>0, <2>9, <3>1, <4>1 DEF RestoreKey, Pair, Installing, served
    <3>2. CASE mem[t].crt = None
      <4>1. pc'[t] \in {"sleep", "failed"}
        BY <1>0, <2>9, <3>2, ReturnMoves DEF RestoreKey, Failed
      <4> QED
        BY <2>0, <2>9, <3>2, <4>1 DEF RestoreKey, Pair, Installing, served
    <3> QED
      BY <3>1, <3>2
  <2>10. CASE Recheck(t)
    <3>1. pc'[t] \in {"sleep", "failed"}
      BY <1>0, <2>10, ReturnMoves DEF Recheck, Failed
    <3> QED
      BY <2>0, <2>11, <2>10, <3>1 DEF Recheck, Pair, Installing, files, served
  <2> QED
    BY <2>1, <2>2, <2>3, <2>4, <2>5, <2>6, <2>7, <2>8, <2>9, <2>10
    DEF InstallStep, RestoreFails, RecheckFails
<1>8. OnePairInstalled'
  BY <1>0, <1>7 DEF OnePairInstalled
<1>9. ASSUME ~ halfway', NEW s \in Threads PROVE Pair(s)'
  <2>1. CASE s = t
    BY <1>7, <1>9, <2>1
  <2>2. CASE s # t
    BY <1>3, <1>4, <2>2 DEF Pair, Installing
  <2> QED
    BY <2>1, <2>2
<1>10. Compared'
  <2>1. CASE t = Renewal /\ Remember(t)
    <3>1. mem'[t].bundle = mem[t].bundle
      <4>1. mem'[t] = [mem[t] EXCEPT !.crt = crt, !.key = key] /\ mem[t] \in Locals
        BY <1>0, <2>1 DEF Remember, TypeOK
      <4> QED
        BY <4>1 DEF Locals
    <3> QED
      BY <2>1, <3>1 DEF Remember, PairInv, Compared, files
  <2>2. CASE t = Renewal /\ ~ Remember(t)
    <3>1. pc'[t] \notin {"remember", "write_crt"}
      BY <1>0, <2>2 DEF InstallStep, Goto, Return, Failed, TypeOK, Remember, WriteCrt, WriteKey, Validate, Reload,
       ReloadRefused, InstallFails, RestoreCrt, RestoreKey, RestoreFails, Recheck,
       RecheckFails
    <3> QED
      BY <2>2, <3>1 DEF Compared
  <2>3. CASE t # Renewal
    BY <1>0, <1>3, <1>4, <2>3 DEF Compared, Installing
  <2> QED
    BY <2>1, <2>2, <2>3
<1> QED
  BY <1>5, <1>8, <1>9, <1>10 DEF PairInv

(* A restart that cuts off no installation starts Caddy on the pair. *)
LEMMA CrashPairInv ==
    ASSUME IInv, PairInv, Crash
    PROVE  PairInv'
<1>1. /\ \A t \in Threads : pc'[t] \notin Installing
      /\ Renewal \in Threads
  BY DEF Crash, Restarted, Installing, Threads
<1>2. OnePairInstalled'
  <2> SUFFICES ASSUME ~ halfway' PROVE crt' = key' /\ (caddy' = None <=> crt' = None)
    BY DEF OnePairInstalled
  <2>1. ~ halfway /\ \A t \in Threads : pc[t] \notin Installing
    BY DEF Crash
  <2> QED
    BY <2>1 DEF PairInv, OnePairInstalled, Crash, files, Accepted
<1> QED
  BY <1>1, <1>2 DEF PairInv, Exclusive, Pair, Compared, Installing

LEMMA NextPairInv ==
    ASSUME MaxInstalls = 1
    PROVE  IInv /\ PairInv /\ [Next]_vars => PairInv'
<1> SUFFICES ASSUME IInv, PairInv, [Next]_vars PROVE PairInv'
  OBVIOUS
<1>0. TypeOK
  BY DEF IInv
<1>1. CASE UNCHANGED <<files, caddy, pc, mem, halfway>>
  BY <1>1 DEF PairInv, Exclusive, OnePairInstalled, Pair, Compared, files
<1>2. ASSUME NEW e \in Editors, EditRead(e) \/ EditPut(e) PROVE PairInv'
  <2>1. /\ e \in Threads
        /\ pc[e] \notin Installing /\ pc'[e] \notin Installing
        /\ pc' = [pc EXCEPT ![e] = pc'[e]] /\ mem' = [mem EXCEPT ![e] = mem'[e]]
    BY <1>0, <1>2 DEF EditRead, EditPut, Goto, Return, TypeOK, Threads, Installing
  <2> QED
    BY <1>0, <1>2, <2>1, QuietPairInv DEF EditRead, EditPut, files, served
<1>3. ASSUME NEW d \in Dialogs, Preview(d) \/ MarkRead(d) \/ MarkPut(d) \/ MarkFails(d)
      PROVE  PairInv'
  <2>1. /\ d \in Threads /\ d # Renewal
        /\ pc[d] \notin Installing /\ pc'[d] \notin Installing
        /\ pc' = [pc EXCEPT ![d] = pc'[d]] /\ mem' = [mem EXCEPT ![d] = mem'[d]]
    BY <1>0, <1>3, NoneAssumption DEF Preview, MarkRead, MarkPut, MarkFails, Goto, Return, Failed,
       TypeOK, Threads, Installing
  <2> QED
    BY <1>0, <1>3, <2>1, QuietPairInv DEF Preview, MarkRead, MarkPut, MarkFails, files, served
<1>4. ASSUME NEW d \in Dialogs, Apply(d) PROVE PairInv'
  <2>1. d \in Threads /\ d # Renewal
    BY NoneAssumption DEF Threads
  <2> QED
    BY <1>0, <1>4, <2>1, StartPairInv DEF Apply, files, served
<1>5. ASSUME NEW t \in Dialogs \cup {Renewal}, Fetch(t) \/ FetchFails(t) PROVE PairInv'
  <2>1. /\ t \in Threads
        /\ pc[t] \notin Installing /\ pc'[t] \notin Installing
        /\ pc' = [pc EXCEPT ![t] = pc'[t]] /\ mem' = [mem EXCEPT ![t] = mem'[t]]
    BY <1>0, <1>5 DEF Fetch, FetchFails, Goto, Return, Failed, TypeOK, Threads, Installing
  <2> QED
    BY <1>0, <1>5, <2>1, QuietPairInv DEF Fetch, FetchFails, files, served
<1>6. CASE Wake \/ WakeFails \/ Check \/ (Compare /\ Return(Renewal, "sleep"))
  <2>1. /\ Renewal \in Threads
        /\ pc[Renewal] \notin Installing /\ pc'[Renewal] \notin Installing
        /\ pc' = [pc EXCEPT ![Renewal] = pc'[Renewal]]
        /\ mem' = [mem EXCEPT ![Renewal] = mem'[Renewal]]
    BY <1>0, <1>6 DEF Wake, WakeFails, Check, Compare, Goto, Return, Failed, TypeOK, Threads,
       Installing
  <2> QED
    BY <1>0, <1>6, <2>1, QuietPairInv DEF Wake, WakeFails, Check, Compare, files, served
<1>7. CASE Compare /\ ~ Return(Renewal, "sleep")
  <2>1. Renewal \in Threads
    BY DEF Threads
  <2> QED
    BY <1>0, <1>7, <2>1, StartPairInv DEF Compare, files, served
<1>8. ASSUME NEW t \in Dialogs \cup {Renewal}, InstallStep(t) PROVE PairInv'
  BY <1>8, InstallPairInv
<1>9. CASE Crash
  BY <1>9, CrashPairInv
<1>10. ASSUME NEW s \in Sources, VpsRenews(s) PROVE PairInv'
  BY <1>1, <1>10 DEF VpsRenews, served
<1>11. CASE UNCHANGED vars
  BY <1>1, <1>11 DEF vars, served
<1>12. CASE WriteConfig
  BY <1>1, <1>12 DEF WriteConfig
<1>13. CASE LoadConfig
  <2>1. UNCHANGED <<files, pc, mem, halfway>> /\ (caddy' = None <=> caddy = None)
    BY <1>13 DEF LoadConfig, CanReload, Reloaded, Accepted
  <2> QED
    BY <2>1 DEF PairInv, Exclusive, OnePairInstalled, Pair, Compared, files
<1> QED
  BY <1>2, <1>3, <1>4, <1>5, <1>6, <1>7, <1>8, <1>9, <1>10, <1>11, <1>12, <1>13
  DEF Next, DialogStep, RenewalStep

(* While installations do not overlap, whatever fails leaves one pair in the
   two files, and a Caddy that runs has one, unless install() was cut off or
   could not restore. *)
THEOREM PairCorrectness ==
    ASSUME MaxInstalls = 1
    PROVE  SafeSpec => []OnePairInstalled
<1>1. Init => IInv /\ PairInv
  BY InitIInv, InitPairInv
<1>2. (IInv /\ PairInv) /\ [Next]_vars => (IInv /\ PairInv)'
  BY NextIInv, NextPairInv
<1>3. IInv /\ PairInv => OnePairInstalled
  BY DEF PairInv
<1> QED
  BY <1>1, <1>2, <1>3, PTL DEF SafeSpec

(* The comparison of renewal_comparison still holds when the file is replaced:
   the loop never replaces a certificate by one that does not expire later. *)
THEOREM RenewalCorrectness ==
    ASSUME MaxInstalls = 1
    PROVE  SafeSpec => RenewalAdvances
<1>1. Init => IInv /\ PairInv
  BY InitIInv, InitPairInv
<1>2. (IInv /\ PairInv) /\ [Next]_vars => (IInv /\ PairInv)'
  BY NextIInv, NextPairInv
<1>3. (IInv /\ PairInv) /\ [Next]_vars => [LaterThanInstalled]_vars
  <2> SUFFICES ASSUME IInv, PairInv, Next, pc[Renewal] = "write_crt", crt' # crt
               PROVE  crt = None \/ crt.version < crt'.version
    BY DEF LaterThanInstalled, vars, files
  <2>1. Renewal \in Threads /\ pc[Renewal] \in Installing
    BY DEF Threads, Installing
  <2>2. PICK t \in Dialogs \cup {Renewal} : InstallStep(t)
    BY DEF Next, DialogStep, RenewalStep, VpsRenews, EditRead, EditPut, Preview, Apply, Fetch,
       FetchFails, MarkRead, MarkPut, MarkFails, Wake, WakeFails, Check, Compare, Crash, WriteConfig, LoadConfig,
       files
  <2>3. t = Renewal
    <3>1. t \in Threads /\ pc[t] \in Installing
      BY <2>2 DEF Threads, InstallStep, Installing, Remember, WriteCrt, WriteKey, Validate, Reload,
       ReloadRefused, InstallFails, RestoreCrt, RestoreKey, RestoreFails, Recheck,
       RecheckFails
    <3> QED
      BY <2>1, <3>1 DEF PairInv, Exclusive
  <2>4. crt' = mem[Renewal].bundle
    BY <2>2, <2>3 DEF InstallStep, files, Remember, WriteCrt, WriteKey, Validate, Reload,
       ReloadRefused, InstallFails, RestoreCrt, RestoreKey, RestoreFails, Recheck,
       RecheckFails
  <2> QED
    BY <2>4 DEF PairInv, Compared
<1> QED
  BY <1>1, <1>2, <1>3, PTL DEF SafeSpec, RenewalAdvances
=============================================================================
