CONSTANTS
  Threads <- MCThreads
  Funcs <- MCFuncs
  Accesses <- MCAccesses
  Links <- MCLinks
  Clients <- MCClients
  Scenarios <- MCScenarios
  MaxFiles = 2
  MaxEntries = 1
  MaxRows = 2
  NoFile = NoFile
  NoThread = NoThread
  NoFunc = NoFunc
  NoDep = NoDep
SPECIFICATION Spec
CHECK_DEADLOCK FALSE
INVARIANTS TypeOK AccessesAttributed StopsOnlyFor StatisticsFaithful EdgesWitnessed FirstReturnIsLast
PROPERTY GraphGrows
