SPECIFICATION WorkflowSpec
CONSTANTS
  Absent = Absent
  Workflows = {"plan"}
  Clients = {"client"}
  Keys = {"raise", "again", "resume"}
  Dedupes = {"first", "second"}
  Raises <- MCRaises
  Initial = "confirming"
  Edges <- PaymentPlan
  TerminalStates = {"active", "reversed"}
  Events = {"confirmation", "reversal"}
  Outcome <- PlanOutcome
  MaxObserved = 2
INVARIANTS
  EscalatedIsOwned
CHECK_DEADLOCK FALSE
