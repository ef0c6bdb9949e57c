SPECIFICATION ProcessesSpec
CONSTANTS
  w1 = w1
  w2 = w2
  t1 = t1
  t2 = t2
  t3 = t3
  a = a
  b = b
  c1 = c1
  v1 = v1
  None = None
  Null = Null
  Nil = Nil
  Jobs = {j1}
  Keys = {k1}
  Types = {"deliver"}
  TypeOf <- MCTypeOf
  Workers = {w1, w2}
  Capabilities <- MCCapabilities
  MaxAttempts = 2
  LeaseTicks = 2
  MaxDelay = 1
  Limit = 1
  TimeoutTicks = 2
  LateRequests = TRUE
  Events = {"e1"}
  Payloads = {"body"}
  EventTokens = {t1, t2, t3}
  Requests = {a, b}
  EventAttempts = 3
  EventTicks = 2
  EventDelay = 1
  Steps = 2
  MaxItems = 2
  MaxRepeats = 1
  MaxWire = 3
  MaxTurns = 1
  MaxRecoveries = 2
  MaxPrompts = 1
INVARIANTS
  SuccessIsReal
  IntakeInvariant
  ConversationInvariant
  EffectsFollowSpeech
  AnswersMatchLatestSpeech
PROPERTIES
  WhatBeginsEnds
  NobodyIsHeldUp
  LatchIsReleased
CHECK_DEADLOCK FALSE
