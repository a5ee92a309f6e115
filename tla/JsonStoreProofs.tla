--------------------------- MODULE JsonStoreProofs ---------------------------
(***************************************************************************)
(* Theorems about module JsonStore, for every number of readers, writers,  *)
(* faults and damages.                                                     *)
(***************************************************************************)
EXTENDS JsonStore, TLAPS

(* Where load_routes has a table for the thread. *)
HasTable ==
    {"quarantine", "rewrite", "audit", "audit_locked", "loaded", "save_locked",
     "backup", "write"}

(* A thread that recovers holds a table of a backup; only writers save. *)
Progress(t) ==
    /\ pc[t] \in HasTable => loaded[t] # Absent
    /\ pc[t] \in {"quarantine", "rewrite"} => loaded[t] \in BackedUp
    /\ pc[t] \in {"loaded", "save_locked", "backup", "write"} => t \in Writers

(* Whatever is valid on disk was saved by somebody. *)
DiskWasSaved ==
    /\ file \notin {Absent, Corrupt} => file \in saved
    /\ \A table \in BackedUp : table # Corrupt => table \in saved

IInv ==
    /\ TypeOK
    /\ \A t \in Threads : Progress(t)
    /\ DiskWasSaved
    /\ LoadedWasSaved
    /\ ReplacedIsKept

LEMMA InitIInv == Init => IInv
<1> SUFFICES ASSUME Init PROVE IInv
  OBVIOUS
<1>1. TypeOK
  BY NamesAssumption, BoundsAssumption DEF Init, TypeOK, Files, Tables, Positions, Locked
<1>2. /\ \A t \in Threads : Progress(t)
      /\ LoadedWasSaved
      /\ ReplacedIsKept
  BY DEF Init, Progress, HasTable, LoadedWasSaved, ReplacedIsKept
<1>3. DiskWasSaved
  BY DEF Init, DiskWasSaved, BackedUp
<1> QED
  BY <1>1, <1>2, <1>3 DEF IInv

(* A copy adds a file to the backups and removes none. *)
LEMMA AppendBackup ==
    ASSUME backups \in Seq(Files), NEW f \in Files, backups' = Append(backups, f)
    PROVE  backups' \in Seq(Files) /\ BackedUp' = BackedUp \cup {f}
<1>1. backups' \in Seq(Files)
  OBVIOUS
<1>2. /\ DOMAIN backups = 1..Len(backups)
      /\ DOMAIN backups' = 1..(Len(backups) + 1)
      /\ \A i \in DOMAIN backups : backups'[i] = backups[i]
      /\ backups'[Len(backups) + 1] = f
      /\ Len(backups) \in Nat
  OBVIOUS
<1>3. BackedUp' = {backups'[i] : i \in DOMAIN backups'}
  BY DEF BackedUp
<1> QED
  BY <1>1, <1>2, <1>3 DEF BackedUp

(* A recovered table is one of a backup. *)
LEMMA ValidIsTable ==
    ASSUME TypeOK, NEW i \in DOMAIN backups, Valid(i)
    PROVE  backups[i] \in Tables /\ backups[i] \in BackedUp
  BY DEF TypeOK, Valid, BackedUp, Files

LEMMA AbsentIsNoTable == \A table \in Tables : table # Absent /\ table # Corrupt
  BY NamesAssumption

LEMMA LoadIInv ==
    ASSUME IInv, NEW t \in Threads, LoadExists(t) \/ LoadRead(t) \/ Recover(t)
    PROVE  IInv'
<1> USE DEF IInv
<1>1. BackedUp' = BackedUp
  BY DEF LoadExists, LoadRead, Recover, disk, BackedUp
<1>2. {} \in Tables
  BY DEF Tables
<1>3. CASE LoadExists(t)
  <2>1. TypeOK'
    BY <1>2, <1>3 DEF TypeOK, LoadExists, Returns, Goto, Positions, Locked, disk, history, bounds
  <2>2. \A s \in Threads : Progress(s)'
    BY <1>1, <1>2, <1>3, AbsentIsNoTable
    DEF TypeOK, LoadExists, Returns, Goto, Progress, HasTable, Threads
  <2>3. DiskWasSaved' /\ LoadedWasSaved'
    BY <1>1, <1>3
    DEF TypeOK, LoadExists, Returns, DiskWasSaved, LoadedWasSaved, disk, history
  <2>4. ReplacedIsKept'
    BY <1>1, <1>3 DEF TypeOK, LoadExists, Returns, Goto, ReplacedIsKept, disk
  <2> QED
    BY <2>1, <2>2, <2>3, <2>4
<1>4. CASE LoadRead(t)
  <2>1. file \in Tables \/ file \in {Absent, Corrupt}
    BY DEF TypeOK, Files
  <2>2. TypeOK'
    BY <1>4, <2>1, AbsentIsNoTable
    DEF TypeOK, LoadRead, Returns, Goto, Positions, Locked, disk, history, bounds
  <2>3. \A s \in Threads : Progress(s)'
    BY <1>1, <1>4, <2>1, AbsentIsNoTable
    DEF TypeOK, LoadRead, Returns, Goto, Progress, HasTable, Threads
  <2>4. DiskWasSaved' /\ LoadedWasSaved'
    BY <1>1, <1>4, <2>1, AbsentIsNoTable
    DEF TypeOK, LoadRead, Returns, DiskWasSaved, LoadedWasSaved, disk, history
  <2>5. ReplacedIsKept'
    BY <1>1, <1>4, <2>1, AbsentIsNoTable
    DEF TypeOK, LoadRead, Returns, Goto, ReplacedIsKept, disk
  <2> QED
    BY <2>2, <2>3, <2>4, <2>5
<1>5. CASE Recover(t)
  <2>1. /\ loaded' = loaded \/ \E i \in DOMAIN backups :
                                   Valid(i) /\ loaded' = [loaded EXCEPT ![t] = backups[i]]
        /\ \/ loaded' = loaded /\ pc' = [pc EXCEPT ![t] = "failed"]
           \/ loaded'[t] \in BackedUp /\ loaded'[t] # Absent
              /\ pc' = [pc EXCEPT ![t] = "quarantine"]
    BY <1>5, ValidIsTable, AbsentIsNoTable DEF Recover, Goto, TypeOK
  <2>2. /\ loaded' \in [Threads -> {Absent} \cup Tables]
        /\ \A s \in Threads : loaded'[s] # loaded[s] => s = t /\ loaded'[s] \in BackedUp \cap Tables
    BY <2>1, ValidIsTable DEF TypeOK
  <2>3. TypeOK'
    BY <1>5, <2>1, <2>2 DEF TypeOK, Recover, Positions, Locked, disk, history, bounds
  <2>4. \A s \in Threads : Progress(s)'
    BY <1>1, <1>5, <2>1, <2>2 DEF TypeOK, Recover, Progress, HasTable
  <2>5. DiskWasSaved' /\ LoadedWasSaved'
    BY <1>1, <1>5, <2>2, AbsentIsNoTable
    DEF TypeOK, Recover, DiskWasSaved, LoadedWasSaved, disk, history
  <2>6. ReplacedIsKept'
    BY <1>1, <1>5, <2>1 DEF TypeOK, Recover, ReplacedIsKept, disk
  <2> QED
    BY <2>3, <2>4, <2>5, <2>6
<1> QED
  BY <1>3, <1>4, <1>5

LEMMA RecoveryIInv ==
    ASSUME IInv, NEW t \in Threads, Quarantine(t) \/ Rewrite(t) \/ AuditLock(t) \/ Audit(t)
    PROVE  IInv'
<1> USE DEF IInv
<1>1. BackedUp' = BackedUp
  BY DEF Quarantine, Rewrite, AuditLock, Acquire, Audit, disk, BackedUp
<1>2. CASE Quarantine(t)
  <2>1. file' \in {file, Absent} /\ file' \in {Absent} \cup Files
    BY <1>2 DEF Quarantine, disk, TypeOK
  <2>2. TypeOK'
    BY <1>2 DEF TypeOK, Quarantine, Goto, Positions, Locked, disk, history, bounds
  <2>3. \A s \in Threads : Progress(s)'
    BY <1>1, <1>2 DEF TypeOK, Quarantine, Goto, Progress, HasTable
  <2>4. DiskWasSaved' /\ LoadedWasSaved' /\ ReplacedIsKept'
    BY <1>1, <1>2, <2>1
    DEF TypeOK, Quarantine, Goto, DiskWasSaved, LoadedWasSaved, ReplacedIsKept, history
  <2> QED
    BY <2>2, <2>3, <2>4
<1>3. CASE Rewrite(t)
  <2>1. loaded[t] \in Tables /\ loaded[t] \in BackedUp
    BY <1>3 DEF Rewrite, Progress, HasTable, TypeOK
  <2>2. TypeOK'
    BY <1>3, <2>1 DEF TypeOK, Rewrite, Goto, Files, Positions, Locked, history, bounds
  <2>3. \A s \in Threads : Progress(s)'
    BY <1>1, <1>3 DEF TypeOK, Rewrite, Goto, Progress, HasTable
  <2>4. DiskWasSaved' /\ LoadedWasSaved' /\ ReplacedIsKept'
    BY <1>1, <1>3, <2>1, AbsentIsNoTable
    DEF TypeOK, Rewrite, Goto, DiskWasSaved, LoadedWasSaved, ReplacedIsKept, history
  <2> QED
    BY <2>2, <2>3, <2>4
<1>4. CASE AuditLock(t)
  <2>1. TypeOK'
    BY <1>4, NamesAssumption
    DEF TypeOK, AuditLock, Acquire, Goto, Positions, Locked, disk, history, bounds
  <2>2. \A s \in Threads : Progress(s)'
    BY <1>1, <1>4 DEF TypeOK, AuditLock, Acquire, Goto, Progress, HasTable
  <2>3. DiskWasSaved' /\ LoadedWasSaved' /\ ReplacedIsKept'
    BY <1>1, <1>4
    DEF TypeOK, AuditLock, Acquire, Goto, DiskWasSaved, LoadedWasSaved, ReplacedIsKept,
        disk, history
  <2> QED
    BY <2>1, <2>2, <2>3
<1>5. CASE Audit(t)
  <2>1. lock = t /\ loaded' = loaded /\ loaded[t] # Absent
    BY <1>5 DEF Audit, Returns, TypeOK, Locked, Progress, HasTable
  <2>2. pc' = [pc EXCEPT ![t] = IF t \in Writers THEN "loaded" ELSE "done"]
    BY <1>5 DEF Audit, Returns, Goto
  <2>3. TypeOK'
    BY <1>5, <2>1, <2>2, NamesAssumption
    DEF TypeOK, Audit, Positions, Locked, disk, history, bounds
  <2>4. \A s \in Threads : Progress(s)'
    BY <1>1, <2>1, <2>2 DEF TypeOK, Progress, HasTable
  <2>5. DiskWasSaved' /\ LoadedWasSaved' /\ ReplacedIsKept'
    BY <1>1, <1>5, <2>1, <2>2
    DEF TypeOK, Audit, DiskWasSaved, LoadedWasSaved, ReplacedIsKept, disk, history
  <2> QED
    BY <2>3, <2>4, <2>5
<1> QED
  BY <1>2, <1>3, <1>4, <1>5

LEMMA SaveIInv ==
    ASSUME IInv, NEW t \in Threads, SaveStep(t)
    PROVE  IInv'
<1> USE DEF IInv
<1>1. CASE SaveLock(t) \/ SaveExists(t)
  <2>1. BackedUp' = BackedUp
    BY <1>1 DEF SaveLock, Acquire, SaveExists, disk, BackedUp
  <2>2. TypeOK'
    BY <1>1, NamesAssumption
    DEF TypeOK, SaveLock, Acquire, SaveExists, Goto, Positions, Locked, disk, history, bounds
  <2>3. \A s \in Threads : Progress(s)'
    BY <1>1, <2>1 DEF TypeOK, SaveLock, Acquire, SaveExists, Goto, Progress, HasTable
  <2>4. DiskWasSaved' /\ LoadedWasSaved' /\ ReplacedIsKept'
    BY <1>1, <2>1
    DEF TypeOK, SaveLock, Acquire, SaveExists, Goto, DiskWasSaved, LoadedWasSaved,
        ReplacedIsKept, disk, history
  <2> QED
    BY <2>2, <2>3, <2>4
<1>2. CASE Backup(t) /\ file = Absent
  <2>1. BackedUp' = BackedUp
    BY <1>2 DEF Backup, disk, BackedUp
  <2>2. lock = t
    BY <1>2 DEF Backup, TypeOK, Locked
  <2>3. TypeOK'
    BY <1>2, <2>2, NamesAssumption
    DEF TypeOK, Backup, Goto, Positions, Locked, disk, history, bounds
  <2>4. \A s \in Threads : Progress(s)'
    BY <1>2, <2>1 DEF TypeOK, Backup, Goto, Progress, HasTable
  <2>5. DiskWasSaved' /\ LoadedWasSaved' /\ ReplacedIsKept'
    BY <1>2, <2>1
    DEF TypeOK, Backup, Goto, DiskWasSaved, LoadedWasSaved, ReplacedIsKept, disk, history
  <2> QED
    BY <2>3, <2>4, <2>5
<1>3. CASE Backup(t) /\ file # Absent
  <2>1. file \in Files /\ backups' = Append(backups, file)
    BY <1>3 DEF Backup, TypeOK
  <2>2. backups' \in Seq(Files) /\ BackedUp' = BackedUp \cup {file}
    BY <2>1, AppendBackup DEF TypeOK
  <2>3. TypeOK'
    BY <1>3, <2>2 DEF TypeOK, Backup, Goto, Positions, Locked, history, bounds
  <2>4. \A s \in Threads : Progress(s)'
    BY <1>3, <2>2 DEF TypeOK, Backup, Goto, Progress, HasTable
  <2>5. DiskWasSaved' /\ LoadedWasSaved' /\ ReplacedIsKept'
    BY <1>3, <2>2
    DEF TypeOK, Backup, Goto, DiskWasSaved, LoadedWasSaved, ReplacedIsKept, history
  <2> QED
    BY <2>3, <2>4, <2>5
<1>4. CASE Write(t)
  <2>1. BackedUp' = BackedUp
    BY <1>4 DEF Write, BackedUp
  <2>2. /\ lock = t
        /\ \A s \in Threads \ {t} : pc[s] # "write"
    BY <1>4 DEF Write, TypeOK, Locked
  <2>3. loaded[t] \cup {t} \in Tables
    BY <1>4 DEF Write, Progress, HasTable, TypeOK, Tables
  <2>4. TypeOK'
    BY <1>4, <2>2, <2>3, NamesAssumption
    DEF TypeOK, Write, Goto, Files, Positions, Locked, bounds
  <2>5. \A s \in Threads : Progress(s)'
    BY <1>4, <2>1 DEF TypeOK, Write, Goto, Progress, HasTable
  <2>6. DiskWasSaved' /\ LoadedWasSaved'
    BY <1>4, <2>1 DEF Write, DiskWasSaved, LoadedWasSaved
  <2>7. ReplacedIsKept'
    BY <1>4, <2>2 DEF TypeOK, Write, Goto, ReplacedIsKept
  <2> QED
    BY <2>4, <2>5, <2>6, <2>7
<1> QED
  BY <1>1, <1>2, <1>3, <1>4 DEF SaveStep

(* A torn copy is not valid. *)
LEMMA TornBackups ==
    ASSUME TypeOK, NEW t \in Threads, backups' \in Torn(t)
    PROVE  /\ backups' \in Seq(Files)
           /\ BackedUp \subseteq BackedUp'
           /\ BackedUp' \subseteq BackedUp \cup {Corrupt}
<1>1. CASE backups' = backups
  BY <1>1 DEF TypeOK, BackedUp
<1>2. CASE backups' = Append(backups, Corrupt)
  BY <1>2, AppendBackup DEF TypeOK, Files
<1> QED
  BY <1>1, <1>2 DEF Torn

(* The threads that are cut off fail, the others stay where they are; the files
   stay, and the backups may have a torn one more. *)
LEMMA CutOffIInv ==
    ASSUME IInv, faults' \in 0..MaxFaults,
           backups' \in Seq(Files), BackedUp \subseteq BackedUp',
           BackedUp' \subseteq BackedUp \cup {Corrupt},
           pc' \in [Threads -> Positions],
           \A s \in Threads : pc'[s] = pc[s] \/ pc'[s] = "failed",
           lock' \in Threads \cup {Nobody},
           \A s \in Threads : lock' = s <=> pc'[s] \in Locked,
           UNCHANGED <<file, quarantined, loaded, history, damage>>
    PROVE  IInv'
<1> USE DEF IInv
<1>1. TypeOK'
  BY DEF TypeOK, history
<1>2. \A s \in Threads : Progress(s)'
  BY DEF Progress, HasTable
<1>3. DiskWasSaved' /\ LoadedWasSaved' /\ ReplacedIsKept'
  BY DEF DiskWasSaved, LoadedWasSaved, ReplacedIsKept, history
<1> QED
  BY <1>1, <1>2, <1>3

LEMMA FaultIInv ==
    ASSUME IInv, (\E t \in Threads : WriteFails(t)) \/ Crash
    PROVE  IInv'
<1>1. faults' \in 0..MaxFaults
  BY BoundsAssumption DEF IInv, TypeOK, WriteFails, Crash, Fault
<1>2. ASSUME NEW t \in Threads, WriteFails(t) PROVE IInv'
  <2>1. /\ backups' \in Seq(Files)
        /\ BackedUp \subseteq BackedUp'
        /\ BackedUp' \subseteq BackedUp \cup {Corrupt}
    BY <1>2, TornBackups DEF IInv, WriteFails
  <2>2. /\ pc' = [pc EXCEPT ![t] = "failed"]
        /\ lock' = IF lock = t THEN Nobody ELSE lock
    BY <1>2 DEF WriteFails, Goto
  <2>3. /\ pc' \in [Threads -> Positions]
        /\ \A s \in Threads : pc'[s] = pc[s] \/ pc'[s] = "failed"
        /\ lock' \in Threads \cup {Nobody}
        /\ \A s \in Threads : lock' = s <=> pc'[s] \in Locked
    BY <2>2, NamesAssumption DEF IInv, TypeOK, Positions, Locked
  <2> QED
    BY <1>1, <1>2, <2>1, <2>3, CutOffIInv DEF WriteFails
<1>3. CASE Crash
  <2>1. PICK t \in Threads : backups' \in Torn(t)
    BY <1>3 DEF Crash
  <2>2. /\ backups' \in Seq(Files)
        /\ BackedUp \subseteq BackedUp'
        /\ BackedUp' \subseteq BackedUp \cup {Corrupt}
    BY <2>1, TornBackups DEF IInv
  <2>3. /\ pc' \in [Threads -> Positions]
        /\ \A s \in Threads : pc'[s] = pc[s] \/ pc'[s] = "failed"
        /\ lock' \in Threads \cup {Nobody}
        /\ \A s \in Threads : lock' = s <=> pc'[s] \in Locked
    BY <1>3, NamesAssumption DEF Crash, IInv, TypeOK, Positions, Locked
  <2> QED
    BY <1>1, <1>3, <2>2, <2>3, CutOffIInv DEF Crash
<1> QED
  BY <1>2, <1>3

LEMMA DamageIInv == IInv /\ Damage => IInv'
<1> SUFFICES ASSUME IInv, Damage PROVE IInv'
  OBVIOUS
<1> USE DEF IInv
<1>1. BackedUp' = BackedUp
  BY DEF Damage, BackedUp
<1>2. TypeOK'
  BY BoundsAssumption DEF TypeOK, Damage, Files
<1>3. \A s \in Threads : Progress(s)'
  BY <1>1 DEF Damage, Progress
<1>4. DiskWasSaved' /\ LoadedWasSaved' /\ ReplacedIsKept'
  BY <1>1 DEF Damage, DiskWasSaved, LoadedWasSaved, ReplacedIsKept
<1> QED
  BY <1>2, <1>3, <1>4

LEMMA StutterIInv == IInv /\ UNCHANGED vars => IInv'
  BY DEF IInv, vars, disk, history, bounds, TypeOK, Progress, DiskWasSaved,
         LoadedWasSaved, ReplacedIsKept, BackedUp

LEMMA NextIInv == IInv /\ [Next]_vars => IInv'
<1> SUFFICES ASSUME IInv, [Next]_vars PROVE IInv'
  OBVIOUS
<1>1. ASSUME NEW t \in Threads, ThreadStep(t) PROVE IInv'
  BY <1>1, LoadIInv, RecoveryIInv, SaveIInv, FaultIInv DEF ThreadStep, LoadStep
<1>2. CASE Crash
  BY <1>2, FaultIInv
<1>3. CASE Damage
  BY <1>3, DamageIInv
<1>4. CASE UNCHANGED vars
  BY <1>4, StutterIInv
<1> QED
  BY <1>1, <1>2, <1>3, <1>4 DEF Next

THEOREM Invariance == SafeSpec => []IInv
  BY InitIInv, NextIInv, PTL DEF SafeSpec

(* The files, the lock and the threads keep their types, and the lock is held
   exactly by the thread inside its critical section. *)
THEOREM TypeCorrect == SafeSpec => []TypeOK
<1>1. IInv => TypeOK
  BY DEF IInv
<1> QED
  BY <1>1, Invariance, PTL

(* What a save is about to replace is in a backup, whatever recoveries, damages
   and failures come in between. *)
THEOREM CopyCorrectness == SafeSpec => []ReplacedIsKept
<1>1. IInv => ReplacedIsKept
  BY DEF IInv
<1> QED
  BY <1>1, Invariance, PTL

(* Loads answer tables that were saved, or an empty one. *)
THEOREM LoadCorrectness == SafeSpec => []LoadedWasSaved
<1>1. IInv => LoadedWasSaved
  BY DEF IInv
<1> QED
  BY <1>1, Invariance, PTL
=============================================================================
