--------------------------- MODULE MCRetryBudget ----------------------------
(***************************************************************************)
(* EventQueue with a history of how often each event was in the batch of a *)
(* turn that failed retryably.                                             *)
(***************************************************************************)
EXTENDS MCEventQueue

VARIABLE attempts

budgetVars == <<vars, attempts>>

BudgetInit == Init /\ attempts = [e \in Event |-> 0]

BudgetNext ==
    /\ Next
    /\ attempts' = [e \in Event |->
          IF \E b \in turns : TurnFailed(b) /\ e \in Elems(b.events)
          THEN attempts[e] + 1 ELSE attempts[e]]

BudgetSpec == BudgetInit /\ [][BudgetNext]_budgetVars

(* The comment on requeue: "After MAX_RETRIES attempts the batch is        *)
(* dead-lettered".  So no event fails in more than MAX_RETRIES retries     *)
(* after its first failure, whatever happens between the attempts.         *)
RetryBudgetHolds == \A e \in Event : attempts[e] <= MaxRetries + 1
=============================================================================
