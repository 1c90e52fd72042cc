CONSTANTS
  Interfaces <- MCInterfaces
  Short <- MCShort
  Unsized = {1, 2}
  Modulus <- MCModulus
  Lengths = {1}
  RandomChars = {",", "}", "a"}
  Fuzzers <- MCFuzzers
  Nodes <- MCNodes
  Skipped <- MCSkipped
  Apps <- MCApps
  ParameterWords <- MCParameterWords
  Scenarios <- MCScenarios
SPECIFICATION Spec
CHECK_DEADLOCK FALSE
INVARIANTS TypeOK ParseFaithful CacheWhole EntryFaithful PanicOnlyFor StreamFaithful ProgramWhole
PROPERTY ChoiceEnds
