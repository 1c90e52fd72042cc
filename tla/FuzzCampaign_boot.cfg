CONSTANTS
  service = service
  action = action
  HangKinds <- OneKind
  MaxBoots = 3
  MaxExec = 1
  Mortal = {}
SPECIFICATION Spec
PROPERTY BootMeansUp
CHECK_DEADLOCK FALSE
