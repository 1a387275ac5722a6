SPECIFICATION FairSpec
CONSTANTS
  a = a
  b = b
  Callers = {a, b}
  ClientOptions <- MCOptions
  ServiceVersion = 1
  ServiceLimit = 3
  Usable = 2
  Sizes = {1, 3}
  MaxCalls = 3
  MaxConnects = 2
  MaxStarts = 2
  MaxFaults = 1
CHECK_DEADLOCK FALSE
INVARIANTS
  AnswersBelongToTheirCall
  FramesFit
  PublishedOnce
PROPERTIES
  CallsReturn
