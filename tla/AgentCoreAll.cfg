CONSTANTS
  Clients = {c1, c2}
  Prompts = {p1, p2}
  Null = Null
  HookPrompt = HookPrompt
  Ops = {"prompt", "/i", "/irw", "/clear", "/compact", "Inject", "Queue", "PopQueue", "Interrupt", "cancel"}
  Results = {"done", "failed", "overflowed"}
  MaxContinue = 0
SYMMETRY Symmetry
SPECIFICATION Spec
INVARIANT OneTurn
INVARIANT RunInterruptible
INVARIANT RunningHasOwner
INVARIANT Safe
INVARIANT SettlesIdle
