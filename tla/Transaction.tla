----------------------------- MODULE Transaction -----------------------------
(***************************************************************************)
(* TransactionExecutor.run of app/transaction.py: apply the steps in       *)
(* order; when one raises (or returns no rollback state) undo the          *)
(* completed ones in reverse order, recording every rollback that raises,  *)
(* and report "applied", "rolled_back" or "rollback_failed".               *)
(*                                                                         *)
(* A step is a pair of callbacks into a provider.  effect[s] says whether  *)
(* the provider carries the change of step s.  A callback that raises may  *)
(* still have changed the provider: always for a rollback, and for an      *)
(* apply when s \in Unclean (a request that timed out after the server had *)
(* acted, a manager whose own compensation failed, an apply that returned  *)
(* something else than a dict).                                            *)
(***************************************************************************)
EXTENDS Integers

CONSTANTS
    N,         \* the number of steps of the transaction
    Unclean    \* the steps whose failing apply may leave its effect behind

ASSUME NAssumption == N \in Nat
ASSUME UncleanAssumption == Unclean \subseteq 1..N

Steps == 1..N

VARIABLES
    status,    \* where run() is: applying, undoing, or the status it returned
    done,      \* Len(completed): steps 1..done were applied
    todo,      \* while compensating: steps 1..todo have not been undone yet
    rollback,  \* the rollback_status of each step's StepResult
    effect     \* whether the provider of the step carries its change

vars == <<status, done, todo, rollback, effect>>

Terminal == {"applied", "rolled_back", "rollback_failed"}

TypeOK ==
    /\ status \in {"running", "compensating"} \cup Terminal
    /\ done \in 0..N
    /\ todo \in 0..N
    /\ rollback \in [Steps -> {"none", "rolled_back", "rollback_failed"}]
    /\ effect \in [Steps -> BOOLEAN]

Init ==
    /\ status = "running"
    /\ done = 0
    /\ todo = 0
    /\ rollback = [s \in Steps |-> "none"]
    /\ effect = [s \in Steps |-> FALSE]

-----------------------------------------------------------------------------
(* Step done + 1 fails, leaving its effect or not, and the completed steps
   1..from are to be undone. *)
FailAndUndo(from) ==
    /\ status = "running"
    /\ done < N
    /\ \E left \in BOOLEAN :
          /\ left => done + 1 \in Unclean
          /\ effect' = [effect EXCEPT ![done + 1] = left]
    /\ status' = "compensating"
    /\ todo' = from
    /\ UNCHANGED <<done, rollback>>

(* The rollback of step s returns with the given rollback_status and leaves
   the effect in place or not; the steps 1..rest are undone next. *)
Undo(s, result, left, rest) ==
    /\ status = "compensating"
    /\ todo > 0
    /\ effect' = [effect EXCEPT ![s] = left]
    /\ rollback' = [rollback EXCEPT ![s] = result]
    /\ todo' = rest
    /\ UNCHANGED <<status, done>>

(* run() leaves the loop at `from` and returns the status `result`. *)
Return(from, result) ==
    /\ status = from
    /\ status' = result
    /\ UNCHANGED <<done, todo, rollback, effect>>

(***************************************************************************)
(* Slips of the executor that the properties below must notice.            *)
(***************************************************************************)
AppliesPastTheEnd ==
    /\ status = "running"
    /\ done <= N
    /\ effect' = [effect EXCEPT ![done + 1] = TRUE]
    /\ done' = done + 1
    /\ UNCHANGED <<status, todo, rollback>>
FailsForgettingLastCompleted == FailAndUndo(IF done = 0 THEN 0 ELSE done - 1)
ReturnsOneStepEarly == done + 1 >= N /\ Return("running", "applied")
UndoesInCompletionOrder == Undo(done - todo + 1, "rolled_back", FALSE, todo - 1)
StopsAtFirstRollbackError ==
    \E left \in BOOLEAN : Undo(todo, "rollback_failed", left, 0)
RetriesTheRollback ==
    \E left \in BOOLEAN : Undo(todo, "rollback_failed", left, todo)
ForgetsRollbackErrors == todo = 0 /\ Return("compensating", "rolled_back")

-----------------------------------------------------------------------------
(* step.apply() returned its rollback state: the step is completed. *)
ApplySucceeds ==
    /\ status = "running"
    /\ done < N
    /\ effect' = [effect EXCEPT ![done + 1] = TRUE]
    /\ done' = done + 1
    /\ UNCHANGED <<status, todo, rollback>>

(* step.apply() raised or returned no dict: the failing step is not in
   `completed`, so nothing will undo what it left. *)
ApplyFails == FailAndUndo(done)

(* The for loop ran out of steps. *)
ReturnApplied == done = N /\ Return("running", "applied")

(* completed_step.rollback(state) returned. *)
RollbackSucceeds == Undo(todo, "rolled_back", FALSE, todo - 1)

(* completed_step.rollback(state) raised: the error is recorded and the loop
   goes on to the next step. *)
RollbackFails ==
    \E left \in BOOLEAN : Undo(todo, "rollback_failed", left, todo - 1)

(* status="rollback_failed" if rollback_errors else "rolled_back" *)
ReturnRolledBack ==
    /\ todo = 0
    /\ Return("compensating",
              IF \E s \in Steps : rollback[s] = "rollback_failed"
                THEN "rollback_failed" ELSE "rolled_back")

-----------------------------------------------------------------------------
Next ==
    \/ ApplySucceeds
    \/ ApplyFails
    \/ ReturnApplied
    \/ RollbackSucceeds
    \/ RollbackFails
    \/ ReturnRolledBack

SafeSpec == Init /\ [][Next]_vars

(* Every callback returns or raises: HTTP calls carry a timeout of 15 s
   (app/providers/http.py) and so do the caddy subprocesses. *)
Spec == SafeSpec /\ WF_vars(Next)

-----------------------------------------------------------------------------
(* A transaction reported "applied" has the change of every step in its
   provider: the early return of run() is reached only past the last step. *)
AppliedIsComplete == status = "applied" => \A s \in Steps : effect[s]

(* A transaction reported "rolled_back" leaves nothing behind but, possibly,
   what its failing step did before it raised: only that step, and only when
   its apply can fail uncleanly. *)
RolledBackIsClean ==
    status = "rolled_back" =>
        \A s \in Steps : effect[s] => s = done + 1 /\ s \in Unclean

(* One rollback that raises stops no other, and the reported status tells:
   every completed step was visited, and the result is "rollback_failed"
   exactly when some rollback raised. *)
EveryCompletedCompensated ==
    status \in {"rolled_back", "rollback_failed"} =>
        /\ \A s \in 1..done : rollback[s] # "none"
        /\ status = "rollback_failed"
              <=> \E s \in 1..done : rollback[s] = "rollback_failed"

(* Completed steps are undone last to first: when a step's rollback runs,
   every step completed after it has already been visited. *)
UndoesInReverse ==
    \A s \in Steps :
        rollback'[s] # rollback[s] =>
            \A later \in s + 1 .. done : rollback[later] # "none"

ReverseOrder == [][UndoesInReverse]_vars

(* run() returns, whatever the providers do. *)
Returns == <>(status \in Terminal)

(* The executor implements one atomic transaction: the caller sees nothing
   of it before run() returns. *)
Atomic == INSTANCE AtomicTransaction WITH
    outcome <- IF status \in Terminal THEN status ELSE "pending",
    effects <- IF status \in Terminal THEN {s \in Steps : effect[s]} ELSE {}

ImplementsAtomicTransaction == Atomic!Spec
=============================================================================
