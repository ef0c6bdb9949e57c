SPECIFICATION LedgersSpec
CONSTANTS
  r1 = r1
  r2 = r2
  a = a
  b = b
  w1 = w1
  w2 = w2
  k1 = k1
  k2 = k2
  k3 = k3
  t1 = t1
  t2 = t2
  t3 = t3
  t4 = t4
  c1 = c1
  c2 = c2
  None = None
  Nil = Nil
  Null = Null
  Absent = Absent
  Jobs = {r1, r2}
  Keys = {k1, k2, k3}
  Types = {"deliver", "purge"}
  TypeOf <- MCTypeOf
  Workers = {w1, w2}
  Capabilities <- MCCapabilities
  MaxAttempts = 3
  LeaseTicks = 2
  MaxDelay = 1
  Limit = 2
  TimeoutTicks = 1
  LateRequests = TRUE
  Events = {r1, r2}
  Payloads = {"body", "other"}
  EventTokens = {t1, t2, t3, t4}
  EventAttempts = 2
  EventTicks = 2
  EventDelay = 1
  Turns = {r1, r2}
  Bodies = {"body", "other"}
  TurnTokens = {t1, t2, t3, t4}
  Handlers = {a, b}
  TurnAttempts = 2
  TurnTicks = 2
  Subjects = {"case"}
  Sources = {"county", "city"}
  Parcels = {"parcel"}
  Editions = {r1, r2}
  Terms <- MCTerms
  Contents = {"positive", "reversal"}
  LastTime = 2
  MaxSnapshots = 2
  MaxDecisions = 3
  MaxVerdicts = 3
  Missing = Nil
  MaxEvents = 5
  MaxArchives = 2
  Objects = {"object"}
  NoObject = Nil
  Unset = Unset
  Accounts = {a, b}
  Cases = {c1, c2}
  Methods = {"code"}
  Proofs = {r1, r2}
  Links = {"link"}
  Reviewers = {"staff"}
  ProofTicks = 2
  ChoiceTicks = 1
  LinkTicks = 2
  AskTicks = 1
  AccessTime = 1
  MaxVerified = 1
  Undefined = Undefined
  Calls = {"call"}
  Requests = {a, b}
  Sockets = {r1, r2}
  MaxConcurrent = 1
  MaxClaims = 2
  MaxAsks = 1
SYMMETRY MCSymmetry
INVARIANTS
  QueueInvariant
  EventsInvariant
  TurnsInvariant
  OutcomeInvariant
  ChainIsSound
  AuditInvariant
  RuntimeInvariant
  AccessInvariant
  AdmissionInvariant
PROPERTIES
  JobsAreKept
  ImplementsLifecycle
  EventsAreKept
  OwnershipIsKept
  SettledIsServed
CHECK_DEADLOCK FALSE
