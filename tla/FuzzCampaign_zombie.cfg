CONSTANTS
  service = service
  action = action
  HangKinds <- TwoKinds
  MaxBoots = 3
  MaxExec = 2
  Mortal = {1, 2, 3}
SPECIFICATION Spec
INVARIANT NeverKillsItself
CHECK_DEADLOCK FALSE
