CONSTANTS
  read = read
  look = look
  write = write
  unnamed = unnamed
  Keys <- SomeKeys
  ReadSafe <- SomeReads
  Unnamed = unnamed
  Responses <- Mixed
  Injects = {}
  Null = Null
  MaxRetries = 1
  SoftLimit = 1
  HardLimit = 2
  MaxSteps = 2
  PlanInterval = 1
  Truncates = TRUE
  Quoting = {look}
  IdKinds = {"own", "dsml"}
  Earlier = {read}
SPECIFICATION Spec
INVARIANT TypeOK
INVARIANT ValidHistory
INVARIANT RequestsSendable
INVARIANT InterruptLeavesNoTrace
PROPERTY CompletedWorkKept
CHECK_DEADLOCK FALSE
