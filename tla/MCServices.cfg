SPECIFICATION ServicesSpec
CONSTANTS
  a = a
  b = b
  p1 = p1
  p2 = p2
  p3 = p3
  t1 = t1
  t2 = t2
  t3 = t3
  t4 = t4
  None = None
  Absent = Absent
  Nil = Nil
  NoTurn = NoTurn
  Ops = {"create", "remind"}
  Owners = {a, b}
  Tokens = {t1, t2, t3, t4}
  Hashes = {0, 1, 2}
  ClaimTicks = 1
  MaxTime = 2
  LinkTime = 2
  Kills = {"create", "delivery"}
  Creates = {"first", "second"}
  Visits = {a, b}
  Deliveries = {p1, p2}
  Evidence <- MCEvidence
  Turns = {a, b}
  Modes = {"authoritative", "direct"}
  DirectTurns = 1
  Jobs = {"remind"}
  Workers = {p1, p2}
  MaxAttempts = 2
  Faults = {"crash", "interrupt", "throw", "defer"}
  MaxReconnects = 1
  MaxResponses = 2
  MaxEvents = 1
  Workflows = {"plan"}
  Clients = {a, b}
  Keys = {p1, p2, p3}
  Dedupes = {"dedupe"}
  Raises <- MCRaises
  Initial = "confirming"
  Edges <- PaymentPlan
  TerminalStates = {"active", "reversed"}
  Events = {"confirmation", "reversal"}
  Outcome <- PlanOutcome
  MaxObserved = 2
SYMMETRY MCSymmetry
INVARIANTS
  AuthorityFollowsEvidence
  RecordsInvariant
  HandoffIsBacked
  VoiceInvariant
  SpeechIsKept
  DirectTurnsSettle
  WorkflowInvariant
  OperationsInvariant
  ReminderInvariant
  OneWantedMessage
PROPERTIES
  NothingIsDropped
  CompletedIsFinal
  ProvenIsFinal
CHECK_DEADLOCK FALSE
