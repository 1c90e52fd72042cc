CONSTANTS
  executor = executor
  spinner = spinner
  Writers <- MCWriters
  Script <- MCScript
  MsgKinds <- MCMsgKinds
  NodeRegs <- MCNodeRegs
  CallbackRegs <- MCCallbackRegs
  TopicKey <- MCTopicKey
  SHM_LEN = 3
  AtBoot <- MCAtBoot
  Budgets <- MCBudgets
  Infinity = 100
  MaxMsgSize = 9
  Free = Free
SPECIFICATION Spec
CHECK_DEADLOCK FALSE
INVARIANTS TypeOK RecordsUnmixed MeasuredInWindow OldEventsOnlyCarried QuietIsBounded PanicOnlyForZero
PROPERTY ExtremesWiden
