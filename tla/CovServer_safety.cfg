CONSTANTS
  c1 = c1
  c2 = c2
  Clients <- MCClients
  Names <- MCNames
  SessionIds <- MCSessionIds
  Session <- MCSession
  BlankId = 0
  Blank = Blank
  None = None
  Free = Free
  Ticker = Ticker
  HEADER_SIZE = 1
  HeaderCap = 2
  MAXSIZE = 6
  Images <- SafetyImages
  AllowList = {1, 2}
  Required = {1}
  Resettable = {c2}
  Oversized = {c1}
SPECIFICATION Spec
INVARIANT TypeOK
INVARIANT RangesPacked
INVARIANT NoStaleEntries
INVARIANT DroppedOnlyFor
PROPERTY OutputMonotone
CHECK_DEADLOCK FALSE
