------------------------------ MODULE JsonStore ------------------------------
(***************************************************************************)
(* The route table on disk: JsonStore of app/storage.py, as the handlers   *)
(* of app/server.py use it.  A reader loads the table; a writer loads it,  *)
(* adds its route and saves it.                                            *)
(*                                                                         *)
(* save_routes and audit hold the lock of the store.  load_routes and the  *)
(* recovery from a corrupt file do not: several threads may recover the    *)
(* file at once, and while one does there is no file.                      *)
(***************************************************************************)
EXTENDS Naturals, Sequences

CONSTANTS
    Writers,    \* threads that add a route and save
    Readers,    \* threads that only load
    Absent,     \* no routes.json
    Corrupt,    \* a file that is no JSON array
    Nobody,     \* nobody holds the lock
    MaxDamage,  \* bound: times routes.json is damaged from outside
    MaxFaults   \* bound: calls that raise, and container restarts

Threads == Writers \cup Readers

(* A table is named by the writers whose route is in it. *)
Tables == SUBSET Writers
Files == {Corrupt} \cup Tables

ASSUME NamesAssumption ==
    /\ Nobody \notin Threads
    /\ Absent # Corrupt
    /\ \A table \in Tables : Absent # table /\ Corrupt # table
    /\ Readers \cap Writers = {}
ASSUME BoundsAssumption == MaxDamage \in Nat /\ MaxFaults \in Nat

VARIABLES
    file,         \* routes.json
    backups,      \* backups/routes-*.json, in the order of their time stamps
    quarantined,  \* what the routes.corrupt-*.json files hold
    lock,         \* JsonStore._lock
    pc,           \* where each thread is
    loaded,       \* the table load_routes returned to it, Absent before
    saved,        \* the tables that a save put in place
    damaged,      \* the tables that were damaged from outside
    damage,       \* how often the file may still be damaged
    faults        \* calls that may still raise

disk == <<file, backups, quarantined>>
history == <<saved, damaged>>
bounds == <<damage, faults>>
vars == <<disk, lock, pc, loaded, history, bounds>>

Positions ==
    {"idle", "read", "recover", "quarantine", "rewrite", "audit", "audit_locked",
     "loaded", "save_locked", "backup", "write", "done", "failed"}

(* Where a thread is inside `with self._lock`. *)
Locked == {"audit_locked", "save_locked", "backup", "write"}

TypeOK ==
    /\ file \in {Absent} \cup Files
    /\ backups \in Seq(Files)
    /\ quarantined \subseteq Files
    /\ lock \in Threads \cup {Nobody}
    /\ pc \in [Threads -> Positions]
    /\ \A t \in Threads : lock = t <=> pc[t] \in Locked
    /\ loaded \in [Threads -> {Absent} \cup Tables]
    /\ saved \subseteq Tables
    /\ damaged \subseteq Tables
    /\ damage \in 0..MaxDamage
    /\ faults \in 0..MaxFaults

Init ==
    /\ file = Absent
    /\ backups = <<>>
    /\ quarantined = {}
    /\ lock = Nobody
    /\ pc = [t \in Threads |-> "idle"]
    /\ loaded = [t \in Threads |-> Absent]
    /\ saved = {}
    /\ damaged = {}
    /\ damage = MaxDamage
    /\ faults = MaxFaults

-----------------------------------------------------------------------------
Goto(t, position) == pc' = [pc EXCEPT ![t] = position]

(* A call that raises. *)
Fault == faults > 0 /\ faults' = faults - 1

(* load_routes returns: a reader is answered, a writer goes on. *)
Returns(t, table) ==
    /\ loaded' = [loaded EXCEPT ![t] = table]
    /\ Goto(t, IF t \in Writers THEN "loaded" ELSE "done")

(* A thread goes through `with self._lock`. *)
Acquire(t, from, to) ==
    /\ pc[t] = from
    /\ lock = Nobody
    /\ lock' = t
    /\ Goto(t, to)
    /\ UNCHANGED <<disk, loaded, history, bounds>>

-----------------------------------------------------------------------------
(* load_routes: is there a file? *)
LoadExists(t) ==
    /\ pc[t] = "idle"
    /\ IF file = Absent
       THEN Returns(t, {})
       ELSE Goto(t, "read") /\ UNCHANGED loaded
    /\ UNCHANGED <<disk, lock, history, bounds>>

(* It is opened and parsed; a file that is gone by now raises. *)
LoadRead(t) ==
    /\ pc[t] = "read"
    /\ \/ file = Absent /\ Goto(t, "failed") /\ UNCHANGED loaded
       \/ file = Corrupt /\ Goto(t, "recover") /\ UNCHANGED loaded
       \/ file \notin {Absent, Corrupt} /\ Returns(t, file)
    /\ UNCHANGED <<disk, lock, history, bounds>>

(* Slip: the newest backup, whatever it holds. *)
Parsed(i) == TRUE

(* A backup that _recover_routes can parse. *)
Valid(i) == backups[i] # Corrupt

(* _recover_routes: the newest backup that is valid; without one the load
   fails. *)
Recover(t) ==
    /\ pc[t] = "recover"
    /\ \/ /\ \A i \in DOMAIN backups : ~ Valid(i)
          /\ Goto(t, "failed")
          /\ UNCHANGED loaded
       \/ \E i \in DOMAIN backups :
             /\ Valid(i)
             /\ \A j \in DOMAIN backups : j > i => ~ Valid(j)
             /\ loaded' = [loaded EXCEPT ![t] = backups[i]]
             /\ Goto(t, "quarantine")
    /\ UNCHANGED <<disk, lock, history, bounds>>

(* os.replace moves the file away, which another thread may have recovered or
   saved since; one that is gone raises. *)
Quarantine(t) ==
    /\ pc[t] = "quarantine"
    /\ IF file = Absent
       THEN Goto(t, "failed") /\ UNCHANGED disk
       ELSE /\ quarantined' = quarantined \cup {file}
            /\ file' = Absent
            /\ UNCHANGED backups
            /\ Goto(t, "rewrite")
    /\ UNCHANGED <<lock, loaded, history, bounds>>

(* Slip: recovery takes the lock that its audit entry needs. *)
RewriteLocked(t) ==
    /\ pc[t] = "rewrite"
    /\ lock = Nobody
    /\ lock' = t
    /\ file' = loaded[t]
    /\ Goto(t, "audit")
    /\ UNCHANGED <<backups, quarantined, loaded, history, bounds>>

Rewrite(t) ==
    /\ pc[t] = "rewrite"
    /\ file' = loaded[t]
    /\ Goto(t, "audit")
    /\ UNCHANGED <<backups, quarantined, lock, loaded, history, bounds>>

(* The entry routes.recovered. *)
AuditLock(t) == Acquire(t, "audit", "audit_locked")

Audit(t) ==
    /\ pc[t] = "audit_locked"
    /\ lock' = Nobody
    /\ Returns(t, loaded[t])
    /\ UNCHANGED <<disk, history, bounds>>

-----------------------------------------------------------------------------
(* save_routes takes the lock, and looks whether there is a file to copy. *)
SaveLock(t) == Acquire(t, "loaded", "save_locked")

SaveExists(t) ==
    /\ pc[t] = "save_locked"
    /\ Goto(t, IF file = Absent THEN "write" ELSE "backup")
    /\ UNCHANGED <<disk, lock, loaded, history, bounds>>

(* Slip: saves without a copy of what it replaces. *)
NoBackup(t) ==
    /\ pc[t] = "backup"
    /\ Goto(t, "write")
    /\ UNCHANGED <<disk, lock, loaded, history, bounds>>

(* The copy, whatever the file holds; a file that is gone by now raises. *)
Backup(t) ==
    /\ pc[t] = "backup"
    /\ IF file = Absent
       THEN Goto(t, "failed") /\ lock' = Nobody /\ UNCHANGED disk
       ELSE /\ backups' = Append(backups, file)
            /\ Goto(t, "write")
            /\ UNCHANGED <<file, quarantined, lock>>
    /\ UNCHANGED <<loaded, history, bounds>>

(* _atomic_json replaces the file; the lock is released. *)
Write(t) ==
    /\ pc[t] = "write"
    /\ file' = loaded[t] \cup {t}
    /\ saved' = saved \cup {loaded[t] \cup {t}}
    /\ lock' = Nobody
    /\ Goto(t, "done")
    /\ UNCHANGED <<backups, quarantined, loaded, damaged, bounds>>

-----------------------------------------------------------------------------
(* A write raises, of a full disk for instance: the copy may be torn, a file
   that is replaced is not. *)
Torn(t) ==
    IF pc[t] = "backup" /\ file # Absent THEN {backups, Append(backups, Corrupt)}
    ELSE {backups}

WriteFails(t) ==
    /\ pc[t] \in {"backup", "write", "rewrite", "audit_locked"}
    /\ Fault
    /\ backups' \in Torn(t)
    /\ lock' = IF lock = t THEN Nobody ELSE lock
    /\ Goto(t, "failed")
    /\ UNCHANGED <<file, quarantined, loaded, history, damage>>

(* The container restarts. *)
Crash ==
    /\ Fault
    /\ backups' \in UNION {Torn(t) : t \in Threads}
    /\ lock' = Nobody
    /\ pc' = [t \in Threads |-> IF pc[t] \in {"idle", "done"} THEN pc[t] ELSE "failed"]
    /\ UNCHANGED <<file, quarantined, loaded, history, damage>>

(* routes.json is damaged from outside. *)
Damage ==
    /\ file \notin {Absent, Corrupt}
    /\ damage > 0
    /\ damage' = damage - 1
    /\ damaged' = damaged \cup {file}
    /\ file' = Corrupt
    /\ UNCHANGED <<backups, quarantined, lock, pc, loaded, saved, faults>>

-----------------------------------------------------------------------------
LoadStep(t) ==
    \/ LoadExists(t) \/ LoadRead(t) \/ Recover(t) \/ Quarantine(t)
    \/ Rewrite(t) \/ AuditLock(t) \/ Audit(t)

SaveStep(t) == SaveLock(t) \/ SaveExists(t) \/ Backup(t) \/ Write(t)

ThreadStep(t) == LoadStep(t) \/ SaveStep(t) \/ WriteFails(t)

Next ==
    \/ \E t \in Threads : ThreadStep(t)
    \/ Crash
    \/ Damage

SafeSpec == Init /\ [][Next]_vars

(* Threads are scheduled, and their calls return or raise.  Weak fairness is
   enough for the lock: the threads before this one are finitely many. *)
Spec ==
    /\ SafeSpec
    /\ \A t \in Threads : WF_vars(ThreadStep(t))

-----------------------------------------------------------------------------
BackedUp == {backups[i] : i \in DOMAIN backups}

(* What a save is about to replace is in a backup, or was not valid: whoever
   recovers the file or fails to save between the copy and the replacement. *)
ReplacedIsKept ==
    \A t \in Threads : pc[t] = "write" => file \in {Absent, Corrupt} \cup BackedUp

(* A load answers a table that a save had put in place, or an empty one: never
   a part of a file, nor one that is not valid. *)
LoadedWasSaved ==
    \A t \in Threads : loaded[t] # Absent => loaded[t] \in saved \cup {{}}

(* Every load and save returns or raises: recovery and audit do not wait for a
   lock their own thread holds. *)
EveryCallEnds ==
    \A t \in Threads : pc[t] # "idle" ~> pc[t] \in {"done", "failed"}

(* A table that was saved is persistent: it stays on disk, in routes.json, a
   backup or a quarantined file, unless it was damaged from outside. *)
NothingIsErased ==
    \A table \in saved :
        table \in {file} \cup BackedUp \cup quarantined \cup damaged
=============================================================================
