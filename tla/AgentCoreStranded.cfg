SPECIFICATION Spec
CONSTANTS
  Clients = {c1, c2}
  Prompts = {p1, p2}
  Null = Null
  HookPrompt = HookPrompt
  Ops = {"prompt"}
  Results = {"done"}
  MaxContinue = 0
SYMMETRY Symmetry
CHECK_DEADLOCK FALSE
PROPERTY QueuedDuringTurn
