----------------------------- MODULE MCDatabase -----------------------------
(***************************************************************************)
(* What several requests and processes do to the database, side by side:   *)
(* one of the two moves.                                                   *)
(*   admission  three uploads, two of them for the same role, into a       *)
(*              collection that holds two images                           *)
(*   budget     two calls over two days; the process of the second is      *)
(*              configured with a lower limit: charged first it leaves no  *)
(*              place for the other, charged second it finds none          *)
(***************************************************************************)
EXTENDS MediaAdmission, ProviderBudget

CONSTANTS u1, u2, u3, c1, c2

MCRoleOf == [u \in Uploads |-> IF u = u3 THEN "INGREDIENTS" ELSE "FRONT"]
MCLimitOf == [c \in Calls |-> IF c = c1 THEN 2 ELSE 1]

VARIABLE part

Init == AdmissionInit /\ BudgetInit /\ part \in {"admission", "budget"}

Next ==
  /\ \/ part = "admission" /\ AdmissionNext /\ UNCHANGED budgetVars
     \/ part = "budget" /\ BudgetNext /\ UNCHANGED admissionVars
  /\ UNCHANGED part

\* PostgreSQL executes statements, grants waiting locks and looks for deadlocks after
\* deadlock_timeout.
AdmissionFairness ==
  /\ \A u \in Uploads : SF_admissionVars(part = "admission" /\ Advance(u))
  /\ \A u \in Uploads : WF_admissionVars(part = "admission" /\ BreakDeadlock(u))
  /\ SF_admissionVars(part = "admission" /\ ErasureAdvances)

\* The database answers, timers fire, providers return within their timeout.
BudgetFairness ==
  /\ \A c \in Calls : WF_budgetVars(part = "budget" /\ Reserve(c))
  /\ \A c \in Calls : WF_budgetVars(part = "budget" /\ Handle(c))

Spec == Init /\ [][Next]_<<admissionVars, budgetVars, part>> /\ AdmissionFairness /\ BudgetFairness
=============================================================================
