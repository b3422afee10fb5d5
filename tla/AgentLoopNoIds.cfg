CONSTANTS
  read = read
  look = look
  write = write
  unnamed = unnamed
  Keys <- SomeKeys
  ReadSafe <- SomeReads
  Unnamed = unnamed
  Responses <- Mixed
  Injects = {}
  Null = Null
  MaxRetries = 1
  SoftLimit = 1
  HardLimit = 3
  MaxSteps = 2
  PlanInterval = 0
  Truncates = FALSE
  Quoting = {}
  IdKinds = {"none"}
  Earlier = {read}
SPECIFICATION Spec
PROPERTY KeepsCompletedWork
CHECK_DEADLOCK FALSE
