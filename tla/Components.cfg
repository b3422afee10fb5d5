CONSTANTS
  Machines = {"stream", "auth", "monitor", "limiter", "meter", "log", "process"}
  Providers = {"openai", "anthropic", "ollama", "kiro"}
  Answers <- SomeAnswers
  Capacity = 1
  MaxAttempts = 2
  Callers = {c1, c2}
  NoToken = NoToken
  MaxIssued = 2
  Watchers = {v1, v2}
  Writers = {x1}
  Fields = {f1, f2}
  Nobody = Nobody
  Workers = {w1, w2}
  MaxFailures = 2
  FailureWindow = 1
  BlockDuration = 2
  MaxTime = 6
  Usages <- SomeUsages
  Prices = {0, 1, 2}
  SpendingCap = 6
  MaxRequests = 3
  Loggers = {l1, l2}
  Outputs <- BothOutputs
  BufSize = 1
  MaxMessages = 2
  Runners = {"hook", "code", "elevated"}
  HookCommands = 2
SPECIFICATION Spec
INVARIANT DoneIsLast
INVARIANT AnswerIsWhole
INVARIANT RetiredNotReused
INVARIANT MonitorInv
INVARIANT BurstBounded
INVARIANT FlushDrains
INVARIANT OutputSettled
INVARIANT HookVerdict
PROPERTY StoreMovesForward
PROPERTY TurnCharged
PROPERTY NobodyBlocked
PROPERTY CancelEndsWait
PROPERTY CommandReturns
CHECK_DEADLOCK FALSE
