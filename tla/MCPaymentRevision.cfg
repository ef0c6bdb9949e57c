SPECIFICATION PaymentSpec
CONSTANTS
  Nil = Nil
  Ops = {"create"}
  Owners = {}
  Tokens = {}
  Hashes = {0}
  ClaimTicks = 1
  MaxTime = 0
  LinkTime = 2
  Kills = {}
  Creates = {c1}
  Visits = {}
  Deliveries = {d1}
  Evidence <- MCEvidence
INVARIANTS
  NewestDecides
CHECK_DEADLOCK FALSE
