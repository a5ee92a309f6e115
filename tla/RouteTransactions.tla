-------------------------- MODULE RouteTransactions --------------------------
(***************************************************************************)
(* The threads of RouteApply run the executor of module Transaction.       *)
(***************************************************************************)
EXTENDS RouteApply

(* Each request runs one transaction of module Transaction: in particular it
   undoes its completed steps last to first and reports what failed.  What
   the executor believes of a step's effect is: applied and not rolled back. *)
Tx(r) == INSTANCE Transaction WITH
    N <- Len(StepsOf(r)),
    Unclean <- {},
    status <- status[r],
    done <- done[r],
    todo <- todo[r],
    rollback <- [i \in 1..Len(StepsOf(r)) |-> rollback[r][StepsOf(r)[i]]],
    effect <- [i \in 1..Len(StepsOf(r)) |->
                 i <= done[r] /\ rollback[r][StepsOf(r)[i]] # "rolled_back"]

RunsTransactions ==
    /\ \A r \in Requests : Tx(r)!Init
    /\ [][\A r \in Requests : [Tx(r)!Next]_(Tx(r)!vars)]_vars
=============================================================================
