CONSTANTS
  t1 = t1
  t2 = t2
  libA = libA
  libB = libB
  libC = libC
  Threads <- MCThreads
  Dsos <- MCDsos
  NameOf <- MCNameOf
  LenOf <- MCLenOf
  Units = 2
  ByteSize = 2
  HeaderByte = 1
  EntryBytes = 2
  MaxTrace <- MCMaxTrace
  Free = Free
  NoDso = NoDso
  HEADER_SIZE = 1
  MAXSIZE = 6
  HeaderCap = 1
SYMMETRY MCSymmetry
SPECIFICATION Spec
INVARIANT CountersFaithful
CHECK_DEADLOCK FALSE
