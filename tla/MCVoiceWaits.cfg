SPECIFICATION VoiceSpec
CONSTANTS
  NoTurn = NoTurn
  Turns = {a, b}
  Modes = {"authoritative"}
  MaxReconnects = 1
  MaxResponses = 2
  MaxEvents = 1
INVARIANTS
  WaitsEnd
CHECK_DEADLOCK FALSE
