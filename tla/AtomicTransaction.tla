-------------------------- MODULE AtomicTransaction --------------------------
(***************************************************************************)
(* What a caller of TransactionExecutor.run (app/transaction.py) is        *)
(* promised: a multi-provider change happens in one step.  It is applied   *)
(* everywhere, or it is reported rolled back and nothing of it is left but *)
(* what the one failing step could not take back, or it is reported as not *)
(* fully rolled back.  How the executor gets there is module Transaction.  *)
(***************************************************************************)
CONSTANTS
    Steps,     \* the provider steps of one transaction
    Unclean    \* the steps that may raise after their effect happened

VARIABLES
    outcome,   \* "pending" until run() returns, then TransactionResult.status
    effects    \* the steps whose effect is left in the providers on return

atomicVars == <<outcome, effects>>

Outcomes == {"pending", "applied", "rolled_back", "rollback_failed"}

Init == outcome = "pending" /\ effects = {}

(* Every step was applied. *)
Commit ==
    /\ outcome = "pending"
    /\ outcome' = "applied"
    /\ effects' = Steps

(* One step failed and every earlier one was undone. *)
Abort ==
    /\ outcome = "pending"
    /\ outcome' = "rolled_back"
    /\ \E failing \in Steps : effects' \subseteq {failing} \cap Unclean

(* One step failed and undoing the earlier ones failed too: the caller is
   told, and anything may be left. *)
AbortIncomplete ==
    /\ outcome = "pending"
    /\ outcome' = "rollback_failed"
    /\ effects' \in SUBSET Steps

Next == Commit \/ Abort \/ AbortIncomplete

Spec == Init /\ [][Next]_atomicVars
=============================================================================
