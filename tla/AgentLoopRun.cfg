CONSTANTS
  read = read
  look = look
  write = write
  unnamed = unnamed
  Keys <- SomeKeys
  ReadSafe <- SomeReads
  Unnamed = unnamed
  Responses <- Several
  p1 = p1
  Injects = {p1}
  Null = Null
  MaxRetries = 1
  SoftLimit = 1
  HardLimit = 2
  MaxSteps = 2
  PlanInterval = 1
  Truncates = FALSE
  Quoting = {}
  IdKinds = {"own"}
  Earlier = {read}
SPECIFICATION FairSpec
INVARIANT InjectsSurviveRun
INVARIANT NudgeOncePerStreak
PROPERTY RunEnds
PROPERTY ImplementsContract
CHECK_DEADLOCK FALSE
