SPECIFICATION FairReminderSpec
CONSTANTS
  Nil = Nil
  None = None
  Jobs = {"r1"}
  Ops = {"r1"}
  Owners = {"owner"}
  Hashes = {"request"}
  Tokens = {t1, t2}
  Workers = {x1}
  ClaimTicks = 2
  MaxAttempts = 3
  Faults = {"crash"}
PROPERTIES
  BegunSendResolves
CHECK_DEADLOCK FALSE
