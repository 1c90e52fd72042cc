CONSTANTS
  service = service
  action = action
  HangKinds <- OneKind
  MaxBoots = 4
  MaxExec = 2
  Mortal = {2, 3}
SPECIFICATION Spec
INVARIANT TypeOK
INVARIANT HistorySinceBoot
INVARIANT SavedReproducible
INVARIANT SupersededSignalled
PROPERTY CrashNotPassedOver
CHECK_DEADLOCK FALSE
