CONSTANTS
  c1 = c1
  c2 = c2
  Clients <- MCClients
  Names <- MCNames
  SessionIds <- MCSessionIds
  Session <- MCSession
  BlankId = 0
  Blank = Blank
  None = None
  Free = Free
  Ticker = Ticker
  HEADER_SIZE = 1
  HeaderCap = 2
  MAXSIZE = 5
  Images <- AgreeingImages
  AllowList = {1, 2}
  Required = {}
  Resettable = {}
  Oversized = {}
SPECIFICATION FairSpec
PROPERTY LedgerRefined
PROPERTY EveryEndCollected
