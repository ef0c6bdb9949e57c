----------------------------- MODULE MCWorkflow -----------------------------
(***************************************************************************)
(* The end of the payment plan with two exceptions, each raised under a    *)
(* key of its own and resolved under a third, by one client.               *)
(***************************************************************************)
EXTENDS Workflow

Edge(from, action, to, actor) == [from |-> from, action |-> action, to |-> to, actors |-> {actor}]

PaymentPlan ==
  {Edge("confirming", "provider.failed", "staff_exception", "provider"),
   Edge("staff_exception", "exception.resume_reconciliation", "confirming", "staff"),
   Edge("confirming", "plan.confirm", "active", "system"),
   Edge("active", "plan.reverse", "reversed", "system")}

PlanOutcome == [e \in {"confirmation", "reversal"} |->
                  IF e = "reversal" THEN "reversed" ELSE "active"]
MCRaises == {<<"raise", "first">>, <<"again", "second">>}
=============================================================================
