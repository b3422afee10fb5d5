CONSTANTS
  read = read
  look = look
  write = write
  unnamed = unnamed
  Keys <- SomeKeys
  ReadSafe <- SomeReads
  Unnamed = unnamed
  Responses <- Mixed
  p1 = p1
  Injects = {p1}
  Null = Null
  MaxRetries = 1
  SoftLimit = 1
  HardLimit = 3
  MaxSteps = 2
  PlanInterval = 0
  Truncates = FALSE
  Quoting = {}
  IdKinds = {"own"}
  Earlier = {read}
SPECIFICATION Spec
INVARIANT InjectsSurviveTurn
CHECK_DEADLOCK FALSE
