CONSTANTS
  service = service
  action = action
  HangKinds <- OneKind
  MaxBoots = 4
  MaxExec = 3
  Mortal = {}
SPECIFICATION Spec
PROPERTY CrashesKept
CHECK_DEADLOCK FALSE
