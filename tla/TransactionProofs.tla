-------------------------- MODULE TransactionProofs --------------------------
(***************************************************************************)
(* Theorems about module Transaction, for every number of steps N and      *)
(* every set Unclean of steps whose apply may fail uncleanly.              *)
(***************************************************************************)
EXTENDS Transaction, TLAPS

USE DEF Steps

(* The shape of a run: before the first failure exactly the completed steps
   took effect; afterwards the steps 1..todo still have theirs, the ones
   above it were visited, and only the failing step, done + 1, may have
   left something that nobody will undo. *)
Running ==
    /\ todo = 0
    /\ \A s \in Steps : effect[s] <=> s <= done
    /\ \A s \in Steps : rollback[s] = "none"

Compensated(s) ==
    /\ rollback[s] \in {"rolled_back", "rollback_failed"}
    /\ rollback[s] = "rolled_back" => ~ effect[s]

Undoing ==
    /\ done < N
    /\ todo <= done
    /\ \A s \in 1..todo : effect[s] /\ rollback[s] = "none"
    /\ \A s \in todo + 1 .. done : Compensated(s)
    /\ effect[done + 1] => done + 1 \in Unclean
    /\ \A s \in done + 1 .. N : rollback[s] = "none"
    /\ \A s \in done + 2 .. N : ~ effect[s]

ReportedStatus ==
    status = "rollback_failed" <=> \E s \in 1..done : rollback[s] = "rollback_failed"

IInv ==
    /\ TypeOK
    /\ status = "running" => Running
    /\ status = "compensating" => Undoing
    /\ status = "applied" => done = N /\ Running
    /\ status \in {"rolled_back", "rollback_failed"} =>
          Undoing /\ todo = 0 /\ ReportedStatus

(* The variables of run() keep their types, for every N. *)
THEOREM TypeCorrect == Spec => []TypeOK
<1>1. Init => TypeOK
  BY NAssumption DEF Init, TypeOK, Terminal
<1>2. TypeOK /\ [Next]_vars => TypeOK'
  <2> SUFFICES ASSUME TypeOK, [Next]_vars PROVE TypeOK'
    OBVIOUS
  <2> USE NAssumption DEF TypeOK, Terminal
  <2>1. CASE ApplySucceeds
    BY <2>1 DEF ApplySucceeds
  <2>2. CASE ApplyFails
    BY <2>2 DEF ApplyFails, FailAndUndo
  <2>3. CASE ReturnApplied
    BY <2>3 DEF ReturnApplied, Return
  <2>4. CASE RollbackSucceeds
    BY <2>4 DEF RollbackSucceeds, Undo
  <2>5. CASE RollbackFails
    BY <2>5 DEF RollbackFails, Undo
  <2>6. CASE ReturnRolledBack
    BY <2>6 DEF ReturnRolledBack, Return
  <2>7. CASE UNCHANGED vars
    BY <2>7 DEF vars
  <2> QED
    BY <2>1, <2>2, <2>3, <2>4, <2>5, <2>6, <2>7 DEF Next
<1> QED
  BY <1>1, <1>2, PTL DEF Spec, SafeSpec

LEMMA InitIInv == Init => IInv
  BY NAssumption DEF Init, IInv, TypeOK, Running, Terminal

(* Every step of the executor keeps the shape of the run. *)
LEMMA NextIInv == IInv /\ [Next]_vars => IInv'
<1> SUFFICES ASSUME IInv, [Next]_vars PROVE IInv'
  OBVIOUS
<1> USE NAssumption DEF IInv, TypeOK, Terminal
<1>1. CASE ApplySucceeds
  BY <1>1 DEF ApplySucceeds, Running
<1>2. CASE ApplyFails
  <2>1. TypeOK' /\ status' = "compensating"
    BY <1>2 DEF ApplyFails, FailAndUndo
  <2>2. Undoing'
    BY <1>2, UncleanAssumption DEF ApplyFails, FailAndUndo, Running, Undoing, Compensated
  <2> QED
    BY <2>1, <2>2
<1>3. CASE ReturnApplied
  BY <1>3 DEF ReturnApplied, Return, Running
<1>4. CASE RollbackSucceeds
  <2>1. TypeOK' /\ status' = "compensating"
    BY <1>4 DEF RollbackSucceeds, Undo
  <2>2. Undoing'
    BY <1>4 DEF RollbackSucceeds, Undo, Undoing, Compensated
  <2> QED
    BY <2>1, <2>2
<1>5. CASE RollbackFails
  <2>1. TypeOK' /\ status' = "compensating"
    BY <1>5 DEF RollbackFails, Undo
  <2>2. Undoing'
    BY <1>5 DEF RollbackFails, Undo, Undoing, Compensated
  <2> QED
    BY <2>1, <2>2
<1>6. CASE ReturnRolledBack
  <2>1. Undoing /\ todo = 0
    BY <1>6 DEF ReturnRolledBack, Return
  <2>2. \A s \in Steps : rollback[s] = "rollback_failed" => s \in 1..done
    BY <2>1 DEF Undoing
  <2>3. TypeOK' /\ Undoing' /\ todo' = 0 /\ status' \in {"rolled_back", "rollback_failed"}
    BY <1>6, <2>1 DEF ReturnRolledBack, Return, Undoing, Compensated
  <2>4. ReportedStatus'
    BY <1>6, <2>1, <2>2 DEF ReturnRolledBack, Return, ReportedStatus, Undoing
  <2> QED
    BY <2>3, <2>4
<1>7. CASE UNCHANGED vars
  BY <1>7 DEF vars, Running, Undoing, Compensated, ReportedStatus
<1> QED
  BY <1>1, <1>2, <1>3, <1>4, <1>5, <1>6, <1>7 DEF Next

THEOREM Invariance == Spec => []IInv
  BY InitIInv, NextIInv, PTL DEF Spec, SafeSpec

(* "applied" means that every provider carries its change. *)
THEOREM AppliedCompleteness == Spec => []AppliedIsComplete
<1>1. IInv => AppliedIsComplete
  BY NAssumption DEF IInv, AppliedIsComplete, Running
<1> QED
  BY <1>1, Invariance, PTL

LEMMA IInvIsClean == IInv => RolledBackIsClean
<1> SUFFICES ASSUME IInv, status = "rolled_back", NEW s \in Steps, effect[s]
             PROVE  s = done + 1 /\ s \in Unclean
  BY DEF RolledBackIsClean
<1>1. Undoing /\ todo = 0 /\ ReportedStatus /\ TypeOK
  BY DEF IInv
<1>2. ~ (s \in 1..done)
  BY <1>1 DEF Undoing, Compensated, ReportedStatus, TypeOK
<1>3. ~ (s \in done + 2 .. N)
  BY <1>1 DEF Undoing
<1> QED
  BY <1>1, <1>2, <1>3, NAssumption DEF Undoing, TypeOK

(* "rolled_back" means that nothing is left but what the failing step itself
   left behind. *)
THEOREM RollbackCleanness == Spec => []RolledBackIsClean
  BY IInvIsClean, Invariance, PTL

(* Every completed step is visited by the compensation, and the status says
   whether all of them could be undone. *)
THEOREM CompensationCompleteness == Spec => []EveryCompletedCompensated
<1>1. IInv => EveryCompletedCompensated
  BY NAssumption DEF IInv, EveryCompletedCompensated, Undoing, Compensated, ReportedStatus, TypeOK
<1> QED
  BY <1>1, Invariance, PTL

(* Compensation goes from the last completed step to the first. *)
THEOREM CompensationOrder == Spec => ReverseOrder
<1>1. IInv /\ [Next]_vars => [UndoesInReverse]_vars
  <2> SUFFICES ASSUME IInv, Next, NEW s \in Steps, rollback'[s] # rollback[s],
                      NEW later \in s + 1 .. done
               PROVE  rollback[later] # "none"
    BY DEF UndoesInReverse
  <2>1. CASE RollbackSucceeds \/ RollbackFails
    <3>1. status = "compensating" /\ s = todo
      BY <2>1 DEF RollbackSucceeds, RollbackFails, Undo, IInv, TypeOK
    <3>2. later \in todo + 1 .. done
      BY <3>1
    <3> QED
      BY <3>1, <3>2 DEF IInv, Undoing, Compensated
  <2>2. CASE ApplySucceeds \/ ApplyFails \/ ReturnApplied \/ ReturnRolledBack
    BY <2>2 DEF ApplySucceeds, ApplyFails, FailAndUndo, ReturnApplied, ReturnRolledBack, Return
  <2> QED
    BY <2>1, <2>2 DEF Next
<1> QED
  BY <1>1, Invariance, PTL DEF Spec, SafeSpec, ReverseOrder

(* The executor implements one atomic change with three outcomes: its inner
   steps are invisible to the caller and what it reports on return is what
   AtomicTransaction allows. *)
THEOREM Refinement == Spec => ImplementsAtomicTransaction
<1> USE NAssumption DEF Terminal
<1>1. Init => Atomic!Init
  BY DEF Init, Atomic!Init
<1>2. IInv /\ IInv' /\ [Next]_vars => [Atomic!Next]_(Atomic!atomicVars)
  <2> SUFFICES ASSUME IInv, IInv', [Next]_vars
               PROVE  [Atomic!Next]_(Atomic!atomicVars)
    OBVIOUS
  <2>1. CASE ApplySucceeds \/ ApplyFails \/ RollbackSucceeds \/ RollbackFails
    <3>1. status \notin Terminal /\ status' \notin Terminal
      BY <2>1 DEF ApplySucceeds, ApplyFails, FailAndUndo, RollbackSucceeds, RollbackFails, Undo
    <3> QED
      BY <3>1 DEF Atomic!atomicVars
  <2>2. CASE ReturnApplied
    <3>1. status = "running" /\ status' = "applied" /\ AppliedIsComplete'
      BY <2>2 DEF ReturnApplied, Return, IInv, Running, TypeOK, AppliedIsComplete
    <3>2. {s \in Steps : effect[s]}' = Steps
      BY <3>1 DEF AppliedIsComplete
    <3>3. Atomic!Commit
      BY <3>1, <3>2 DEF Atomic!Commit
    <3> QED
      BY <3>3 DEF Atomic!Next
  <2>3. CASE ReturnRolledBack
    <3>1. status = "compensating" /\ status' \in {"rolled_back", "rollback_failed"}
      BY <2>3 DEF ReturnRolledBack, Return
    <3>2. CASE status' = "rolled_back"
      <4>1. RolledBackIsClean' /\ (done + 1)' \in Steps
        <5>1. RolledBackIsClean'
          BY IInvIsClean, PTL
        <5>2. done' = done /\ done < N /\ done \in 0..N
          BY <2>3, <3>1 DEF ReturnRolledBack, Return, IInv, Undoing, TypeOK
        <5> QED
          BY <5>1, <5>2
      <4>2. {s \in Steps : effect[s]}' \subseteq {(done + 1)'} \cap Unclean
        BY <3>2, <4>1 DEF RolledBackIsClean
      <4>3. Atomic!Abort
        BY <3>1, <3>2, <4>1, <4>2 DEF Atomic!Abort
      <4> QED
        BY <4>3 DEF Atomic!Next
    <3>3. CASE status' = "rollback_failed"
      <4>1. {s \in Steps : effect[s]}' \in SUBSET Steps
        OBVIOUS
      <4>2. Atomic!AbortIncomplete
        BY <3>1, <3>3, <4>1 DEF Atomic!AbortIncomplete
      <4> QED
        BY <4>2 DEF Atomic!Next
    <3> QED
      BY <3>1, <3>2, <3>3
  <2>4. CASE UNCHANGED vars
    BY <2>4 DEF vars, Atomic!atomicVars
  <2> QED
    BY <2>1, <2>2, <2>3, <2>4 DEF Next
<1> QED
  BY <1>1, <1>2, Invariance, PTL DEF Spec, SafeSpec, ImplementsAtomicTransaction, Atomic!Spec
=============================================================================
