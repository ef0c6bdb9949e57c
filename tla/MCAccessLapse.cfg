SPECIFICATION AccessSpec
CONSTANTS
  Unset = Unset
  Accounts = {a, b}
  Cases = {c1, c2}
  Methods = {"code", "invitation"}
  Proofs = {p1, p2}
  Links = {"link"}
  Reviewers = {"staff"}
  ProofTicks = 2
  ChoiceTicks = 1
  LinkTicks = 2
  AskTicks = 1
  AccessTime = 1
  MaxVerified = 1
  MaxAsks = 1
INVARIANTS
  LapsedMayVerify
CHECK_DEADLOCK FALSE
