SPECIFICATION AuditSpec
CONSTANTS
  MaxEvents = 3
  MaxArchives = 1
  Objects = {"object"}
  NoObject = None
PROPERTIES
  CleanupRebuilds
CHECK_DEADLOCK FALSE
