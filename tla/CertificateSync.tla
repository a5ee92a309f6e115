--------------------------- MODULE CertificateSync ---------------------------
(***************************************************************************)
(* Certificate synchronization: the settings, preview-sync and apply-sync  *)
(* handlers and the renewal loop of app/server.py, CertificateInstaller    *)
(* and renewal_comparison of app/certificate_sync.py, the settings in the  *)
(* secret store, and the TLS files when the container starts.              *)
(*                                                                         *)
(* Two files hold the certificate and its key.  An installation remembers  *)
(* both, replaces one and then the other, has Caddy validate them and      *)
(* reload config.json, and puts both back when that fails.  Its lock       *)
(* belongs to its own CertificateInstaller, so it excludes nobody.  Caddy  *)
(* ignores a reload of the config.json that it runs already.               *)
(***************************************************************************)
EXTENDS Integers, FiniteSets

CONSTANTS
    Sources,      \* what is synchronized: an endpoint and an expected name
    Dns01,        \* no endpoint: certificates are issued independently
    Dialogs,      \* an operator's preview-sync and the apply-sync that follows
    Editors,      \* the threads that save certificate settings
    Renewal,      \* the renewal thread
    None,         \* no file, no source, no running Caddy
    InitialFiles, \* the user-supplied certificates, or None
    MaxVersion,   \* bound: certificates that one source issues
    MaxEdits,     \* bound: settings saved
    MaxFaults,    \* bound: calls that raise, and container restarts
    MaxInstalls   \* bound: installations in progress together

(* A certificate with its key: who issued it, and the how many-th it is, which
   orders the expiration dates. *)
Bundles == [source : Sources \cup {None}, version : 0..MaxVersion]

ASSUME NoneAssumption ==
    /\ None \notin Sources \cup Bundles
    /\ Dns01 \notin Sources \cup {None}
    /\ Renewal \notin Dialogs \cup Editors
    /\ Dialogs \cap Editors = {}
ASSUME FiniteAssumption == IsFiniteSet(Dialogs) /\ IsFiniteSet(Editors)
ASSUME FilesAssumption == InitialFiles \subseteq Bundles \cup {None}
ASSUME BoundsAssumption ==
    /\ MaxVersion \in Nat \ {0}
    /\ MaxEdits \in Nat
    /\ MaxFaults \in Nat
    /\ MaxInstalls \in Nat \ {0}

VARIABLES
    vps,       \* the latest certificate of every source
    settings,  \* integration certificate-primary of the secret store
    crt, key,  \* tls.crt and tls.key: the bundle each was taken from
    caddy,     \* the bundle the running Caddy serves
    config,    \* is caddy/config.json what Caddy is running, or another
    pc,        \* where each thread is
    mem,       \* its locals
    synced,    \* the bundles that approved dialogs installed
    halfway,   \* an installation was cut off, or could not restore everything
    edits,     \* settings that may still be saved
    faults     \* calls that may still raise

files == <<crt, key>>
bounds == <<edits, faults>>
served == <<caddy, config>>
vars == <<vps, settings, files, served, pc, mem, synced, halfway, bounds>>

Threads == Dialogs \cup Editors \cup {Renewal}

(* Source None: nothing was configured yet. *)
Settings ==
    [source : Sources \cup {Dns01, None}, auto : BOOLEAN, approved : BOOLEAN]

NoSettings == [source |-> None, auto |-> FALSE, approved |-> FALSE]

Locals ==
    [settings : Settings, bundle : Bundles \cup {None},
     crt : Bundles \cup {None}, key : Bundles \cup {None}]

NoLocals == [settings |-> NoSettings, bundle |-> None, crt |-> None, key |-> None]

(* Where install() is. *)
Installing ==
    {"remember", "write_crt", "write_key", "validate", "reload",
     "restore_crt", "restore_key", "recheck"}

(* Where a thread of each kind may be. *)
DialogAt == Installing \cup {"idle", "fetch", "previewed", "mark", "mark_put",
                             "done", "failed", "down"}
EditorAt == {"idle", "put", "down"}
RenewalAt == Installing \cup {"sleep", "check", "fetch", "compare", "dead", "down"}

TypeOK ==
    /\ vps \in [Sources -> 1..MaxVersion]
    /\ settings \in Settings
    /\ crt \in Bundles \cup {None}
    /\ key \in Bundles \cup {None}
    /\ caddy \in Bundles \cup {None}
    /\ config \in {"running", "other"}
    /\ pc \in [Threads -> DialogAt \cup EditorAt \cup RenewalAt]
    /\ \A d \in Dialogs : pc[d] \in DialogAt
    /\ \A e \in Editors : pc[e] \in EditorAt
    /\ pc[Renewal] \in RenewalAt
    /\ mem \in [Threads -> Locals]
    /\ synced \subseteq Bundles
    /\ halfway \in BOOLEAN
    /\ edits \in 0..MaxEdits
    /\ faults \in 0..MaxFaults

(* A Caddy that was not given its files is not started (Lite edition). *)
Init ==
    /\ vps = [s \in Sources |-> 1]
    /\ settings = NoSettings
    /\ crt \in InitialFiles
    /\ key = crt
    /\ caddy = crt
    /\ config = "running"
    /\ pc = [t \in Threads |-> IF t = Renewal THEN "sleep" ELSE "idle"]
    /\ mem = [t \in Threads |-> NoLocals]
    /\ synced = {}
    /\ halfway = FALSE
    /\ edits = MaxEdits
    /\ faults = MaxFaults

-----------------------------------------------------------------------------
Goto(t, position) == pc' = [pc EXCEPT ![t] = position]

(* A call that raises. *)
Fault == faults > 0 /\ faults' = faults - 1

(* The function returns: its locals are gone. *)
Return(t, position) == Goto(t, position) /\ mem' = [mem EXCEPT ![t] = NoLocals]

(* The request is answered with an error; the renewal loop catches it. *)
Failed(t) == Return(t, IF t = Renewal THEN "sleep" ELSE "failed")

MayInstall == Cardinality({t \in Threads : pc[t] \in Installing}) < MaxInstalls

-----------------------------------------------------------------------------
(* The VPS renews a certificate. *)
VpsRenews(s) ==
    /\ vps[s] < MaxVersion
    /\ vps' = [vps EXCEPT ![s] = @ + 1]
    /\ UNCHANGED <<settings, files, served, pc, mem, synced, halfway, bounds>>

(* POST certificates/settings reads the settings it replaces, for the saved
   credential and for the approval. *)
EditRead(e) ==
    /\ pc[e] = "idle"
    /\ edits > 0
    /\ edits' = edits - 1
    /\ mem' = [mem EXCEPT ![e].settings = settings]
    /\ Goto(e, "put")
    /\ UNCHANGED <<vps, settings, files, served, synced, halfway, faults>>

(* Slip: new settings are approved from the start. *)
EditedApproved(existing, source, auto) ==
    [source |-> source, auto |-> auto /\ source \in Sources,
     approved |-> source \in Sources]

(* certificate_settings; the approval outlives an edit of the same source, and
   settings without one are of the same. *)
Edited(existing, source, auto) ==
    [source |-> source, auto |-> auto /\ source \in Sources,
     approved |-> existing.approved /\ existing.source = source]

EditPut(e) ==
    /\ pc[e] = "put"
    /\ \E source \in Sources \cup {Dns01}, auto \in BOOLEAN :
          settings' = Edited(mem[e].settings, source, auto)
    /\ Return(e, "idle")
    /\ UNCHANGED <<vps, files, served, synced, halfway, bounds>>

-----------------------------------------------------------------------------
(* preview-sync reads the settings; without a source it answers 400. *)
Preview(d) ==
    /\ pc[d] = "idle"
    /\ settings.source \in Sources
    /\ mem' = [mem EXCEPT ![d].settings = settings]
    /\ Goto(d, "fetch")
    /\ UNCHANGED <<vps, settings, files, served, synced, halfway, bounds>>

(* CertificateSyncClient.fetch: what the source issued last. *)
Fetch(t) ==
    /\ pc[t] = "fetch"
    /\ mem' = [mem EXCEPT ![t].bundle =
                  [source |-> mem[t].settings.source,
                   version |-> vps[mem[t].settings.source]]]
    /\ Goto(t, IF t = Renewal THEN "compare" ELSE "previewed")
    /\ UNCHANGED <<vps, settings, files, served, synced, halfway, bounds>>

(* Slip: the exception ends the loop. *)
FetchFailsForGood(t) ==
    /\ pc[t] = "fetch"
    /\ Fault
    /\ Goto(t, "failed")
    /\ UNCHANGED <<vps, settings, files, served, mem, synced, halfway, edits>>

(* It cannot be reached, or validate_bundle refuses what it sent. *)
FetchFails(t) ==
    /\ pc[t] = "fetch"
    /\ Fault
    /\ Failed(t)
    /\ UNCHANGED <<vps, settings, files, served, synced, halfway, edits>>

(* apply-sync consumes the plan with the previewed bundle. *)
Apply(d) ==
    /\ pc[d] = "previewed"
    /\ MayInstall
    /\ Goto(d, "remember")
    /\ UNCHANGED <<vps, settings, files, served, mem, synced, halfway, bounds>>

-----------------------------------------------------------------------------
(* The renewal loop wakes up and looks whether it is to do anything; an error
   of this read is not caught and ends the thread. *)
Wake ==
    /\ pc[Renewal] = "sleep"
    /\ settings.auto /\ settings.approved
    /\ Goto(Renewal, "check")
    /\ UNCHANGED <<vps, settings, files, served, mem, synced, halfway, bounds>>

WakeFails ==
    /\ pc[Renewal] = "sleep"
    /\ Fault
    /\ Goto(Renewal, "dead")
    /\ UNCHANGED <<vps, settings, files, served, mem, synced, halfway, edits>>

(* check_certificate_renewal reads the settings again. *)
Check ==
    /\ pc[Renewal] = "check"
    /\ IF settings.source \in Sources
       THEN /\ mem' = [mem EXCEPT ![Renewal].settings = settings]
            /\ Goto(Renewal, "fetch")
       ELSE Failed(Renewal)
    /\ UNCHANGED <<vps, settings, files, served, synced, halfway, bounds>>

(* Slip: any other certificate will do. *)
DiffersFrom(installed, candidate) == installed # candidate

(* renewal_comparison: nothing is installed, or the candidate is another
   certificate that expires later. *)
UpdateAvailable(installed, candidate) ==
    \/ installed = None
    \/ installed # candidate /\ installed.version < candidate.version

Compare ==
    /\ pc[Renewal] = "compare"
    /\ MayInstall
    /\ IF /\ UpdateAvailable(crt, mem[Renewal].bundle)
          /\ mem[Renewal].settings.auto
          /\ mem[Renewal].settings.approved
       THEN Goto(Renewal, "remember") /\ UNCHANGED mem
       ELSE Return(Renewal, "sleep")
    /\ UNCHANGED <<vps, settings, files, served, synced, halfway, bounds>>

-----------------------------------------------------------------------------
(* What Caddy accepts: a certificate and the key it belongs to. *)
Accepted == crt # None /\ crt = key

(* `caddy reload` has no --force: config.json is posted to the running Caddy,
   which loads it, and with it the files, unless it runs that already. *)
CanReload == caddy # None /\ (config = "other" => Accepted)

Reloaded ==
    /\ caddy' = IF config = "other" THEN crt ELSE caddy
    /\ config' = "running"

(* CaddyConfigManager, for the proxy route of some hostname: it replaces
   config.json, has it loaded, writes the former one back. *)
WriteConfig ==
    /\ caddy # None
    /\ config' \in {"running", "other"}
    /\ UNCHANGED <<vps, settings, files, caddy, pc, mem, synced, halfway, bounds>>

LoadConfig ==
    /\ CanReload
    /\ Reloaded
    /\ UNCHANGED <<vps, settings, files, pc, mem, synced, halfway, bounds>>

-----------------------------------------------------------------------------
(* CertificateInstaller.install *)

Remember(t) ==
    /\ pc[t] = "remember"
    /\ mem' = [mem EXCEPT ![t].crt = crt, ![t].key = key]
    /\ Goto(t, "write_crt")
    /\ UNCHANGED <<vps, settings, files, served, synced, halfway, bounds>>

WriteCrt(t) ==
    /\ pc[t] = "write_crt"
    /\ crt' = mem[t].bundle
    /\ Goto(t, "write_key")
    /\ UNCHANGED <<vps, settings, key, served, mem, synced, halfway, bounds>>

WriteKey(t) ==
    /\ pc[t] = "write_key"
    /\ key' = mem[t].bundle
    /\ Goto(t, "validate")
    /\ UNCHANGED <<vps, settings, crt, served, mem, synced, halfway, bounds>>

Validate(t) ==
    /\ pc[t] = "validate"
    /\ Goto(t, IF Accepted THEN "reload" ELSE "restore_crt")
    /\ UNCHANGED <<vps, settings, files, served, mem, synced, halfway, bounds>>

(* The reload succeeds, mostly because Caddy runs this config.json and ignores
   it: it goes on serving what it served.  The loop sleeps again, the dialog is
   yet to mark the settings as approved. *)
Reload(t) ==
    /\ pc[t] = "reload"
    /\ CanReload
    /\ Reloaded
    /\ IF t = Renewal
       THEN Return(t, "sleep") /\ UNCHANGED synced
       ELSE Return(t, "mark") /\ synced' = synced \cup {mem[t].bundle}
    /\ UNCHANGED <<vps, settings, files, halfway, bounds>>

(* Caddy does not run, or is to load files that are no pair any more. *)
ReloadRefused(t) ==
    /\ pc[t] = "reload"
    /\ ~ CanReload
    /\ Goto(t, "restore_crt")
    /\ UNCHANGED <<vps, settings, files, served, mem, synced, halfway, bounds>>

(* A write, the validation or the reload raises; a reload that times out may
   have taken effect. *)
InstallFails(t) ==
    /\ pc[t] \in {"write_crt", "write_key", "validate", "reload"}
    /\ Fault
    /\ \/ UNCHANGED served
       \/ pc[t] = "reload" /\ CanReload /\ Reloaded
    /\ Goto(t, "restore_crt")
    /\ UNCHANGED <<vps, settings, files, mem, synced, halfway, edits>>

(* The except clause: a file that was not there is removed again. *)
RestoreCrt(t) ==
    /\ pc[t] = "restore_crt"
    /\ crt' = mem[t].crt
    /\ Goto(t, "restore_key")
    /\ UNCHANGED <<vps, settings, key, served, mem, synced, halfway, bounds>>

(* Slip: forgets the key. *)
RestoreNoKey(t) ==
    /\ pc[t] = "restore_key"
    /\ Goto(t, "recheck")
    /\ UNCHANGED <<vps, settings, files, served, mem, synced, halfway, bounds>>

RestoreKey(t) ==
    /\ pc[t] = "restore_key"
    /\ key' = mem[t].key
    /\ IF mem[t].crt # None /\ mem[t].key # None
       THEN Goto(t, "recheck") /\ UNCHANGED mem
       ELSE Failed(t)
    /\ UNCHANGED <<vps, settings, crt, served, synced, halfway, bounds>>

RestoreFails(t) ==
    /\ pc[t] \in {"restore_crt", "restore_key"}
    /\ Fault
    /\ halfway' = TRUE
    /\ Failed(t)
    /\ UNCHANGED <<vps, settings, files, served, synced, edits>>

(* Caddy is to validate and reload once more; an error of it is passed over. *)
Recheck(t) ==
    /\ pc[t] = "recheck"
    /\ IF Accepted /\ CanReload THEN Reloaded ELSE UNCHANGED served
    /\ Failed(t)
    /\ UNCHANGED <<vps, settings, files, synced, halfway, bounds>>

RecheckFails(t) ==
    /\ pc[t] = "recheck"
    /\ Fault
    /\ halfway' = TRUE
    /\ Failed(t)
    /\ UNCHANGED <<vps, settings, files, served, synced, edits>>

-----------------------------------------------------------------------------
(* apply-sync goes on: it reads the settings, and puts them back approved,
   whatever their strategy is by now. *)
MarkRead(d) ==
    /\ pc[d] = "mark"
    /\ mem' = [mem EXCEPT ![d].settings = settings]
    /\ Goto(d, "mark_put")
    /\ UNCHANGED <<vps, settings, files, served, synced, halfway, bounds>>

MarkPut(d) ==
    /\ pc[d] = "mark_put"
    /\ settings' = IF mem[d].settings.source = None THEN settings
                   ELSE [mem[d].settings EXCEPT !.approved = TRUE]
    /\ Return(d, "done")
    /\ UNCHANGED <<vps, files, served, synced, halfway, bounds>>

MarkFails(d) ==
    /\ pc[d] \in {"mark", "mark_put"}
    /\ Fault
    /\ Failed(d)
    /\ UNCHANGED <<vps, settings, files, served, synced, halfway, edits>>

(* The container restarts: plans and locals are gone.  container/entrypoint.sh
   starts Caddy when both files are there and ends when Caddy rejects them;
   only the Lite edition, which may lack files, starts without Caddy. *)
Starts == crt = None \/ key = None \/ Accepted

Restarted(t) ==
    IF t = Renewal THEN "sleep"
    ELSE IF t \in Editors \/ pc[t] = "idle" THEN "idle"
    ELSE IF pc[t] = "done" THEN "done"
    ELSE "failed"

Crash ==
    /\ pc[Renewal] # "down"
    /\ Fault
    /\ caddy' = IF Accepted THEN crt ELSE None
    /\ config' = "running"
    /\ pc' = [t \in Threads |-> IF Starts THEN Restarted(t) ELSE "down"]
    /\ mem' = [t \in Threads |-> NoLocals]
    /\ halfway' = (halfway \/ \E t \in Threads : pc[t] \in Installing)
    /\ UNCHANGED <<vps, settings, files, synced, edits>>

-----------------------------------------------------------------------------
InstallStep(t) ==
    \/ Remember(t) \/ WriteCrt(t) \/ WriteKey(t) \/ Validate(t) \/ Reload(t)
    \/ ReloadRefused(t) \/ InstallFails(t)
    \/ RestoreCrt(t) \/ RestoreKey(t) \/ RestoreFails(t)
    \/ Recheck(t) \/ RecheckFails(t)

RenewalStep ==
    \/ Wake \/ WakeFails \/ Check \/ Compare
    \/ Fetch(Renewal) \/ FetchFails(Renewal) \/ InstallStep(Renewal)

(* The steps the server takes once a request arrived. *)
DialogStep(d) ==
    \/ Fetch(d) \/ FetchFails(d) \/ InstallStep(d)
    \/ MarkRead(d) \/ MarkPut(d) \/ MarkFails(d)

Next ==
    \/ \E s \in Sources : VpsRenews(s)
    \/ \E e \in Editors : EditRead(e) \/ EditPut(e)
    \/ \E d \in Dialogs : Preview(d) \/ Apply(d) \/ DialogStep(d)
    \/ RenewalStep
    \/ WriteConfig \/ LoadConfig
    \/ Crash

SafeSpec == Init /\ [][Next]_vars

(* Threads are scheduled and their calls return or raise; the sleep of the
   renewal loop ends.  Operators and the VPS may do nothing. *)
Spec ==
    /\ SafeSpec
    /\ WF_vars(RenewalStep)
    /\ \A d \in Dialogs : WF_vars(DialogStep(d))
    /\ \A e \in Editors : WF_vars(EditPut(e))

-----------------------------------------------------------------------------
(* When no installation is in progress and none was cut off, certificate and
   key are one pair, whatever failed: the next change of config.json or restart
   finds files that Caddy accepts.  A Caddy that runs has such a pair, and
   where none runs a refused installation left no files behind. *)
OnePairInstalled ==
    (\A t \in Threads : pc[t] \notin Installing) /\ ~ halfway =>
        /\ crt = key
        /\ caddy = None <=> crt = None

(* The renewal loop installs nothing before an operator has completed a
   previewed and approved synchronization, whatever the settings went through
   since. *)
InactiveUntilApproved == pc[Renewal] \in Installing => synced # {}

(* The renewal loop only ever replaces a certificate by one that expires
   later. *)
LaterThanInstalled ==
    pc[Renewal] = "write_crt" /\ crt' # crt =>
        \/ crt = None
        \/ crt.version < crt'.version

RenewalAdvances == [][LaterThanInstalled]_vars

(* Automatic renewal is on and due. *)
Outdated ==
    /\ settings.source \in Sources /\ settings.auto /\ settings.approved
    /\ caddy # None /\ crt # None
    /\ crt.version < vps[settings.source]

(* A due renewal is in the files at last, whatever fails in between, unless
   the loop or the container has ended.  When Caddy serves it is another
   matter: at the next restart, or when config.json changes. *)
RenewsAtLast == Outdated ~> (~ Outdated \/ pc[Renewal] \in {"dead", "down"})
=============================================================================
