SPECIFICATION ReminderSpec
CONSTANTS
  Nil = Nil
  None = None
  Jobs = {"r1"}
  Ops = {"r1"}
  Owners = {"owner"}
  Hashes = {"request"}
  Tokens = {t1}
  Workers = {x1}
  ClaimTicks = 2
  MaxAttempts = 1
  Faults = {}
INVARIANTS
  FailureIsKept
CHECK_DEADLOCK FALSE
