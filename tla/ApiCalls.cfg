CONSTANTS
  ConnectTimeout = 2
  CallTimeout = 3
  UnbindWait = 1
  Grace = 1
  HttpGrace = 1
  StreamTimeout = 4
  MaxMessages = 2
  Horizon = 13
  None = None
SPECIFICATION Spec
INVARIANTS
  TypeOK
  NothingLeftOver
  AnsweredInTime
  BlameTrue
  VerdictSound
  StoppedTruthfully
PROPERTIES
  EveryCallAnswered
  ImplementsOutboundCall
CHECK_DEADLOCK FALSE
