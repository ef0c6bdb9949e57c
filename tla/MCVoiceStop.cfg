SPECIFICATION VoiceSpec
CONSTANTS
  NoTurn = NoTurn
  Turns = {a}
  Modes = {"authoritative"}
  MaxReconnects = 0
  MaxResponses = 2
  MaxEvents = 1
INVARIANTS
  StopIsImmediate
CHECK_DEADLOCK FALSE
