CONSTANTS
  Clients = {c1, c2}
  Prompts = {p1, p2}
  Null = Null
  HookPrompt = HookPrompt
  Ops = {"prompt", "/i", "/irw", "Inject", "Queue", "PopQueue", "cancel"}
  Results = {"done", "failed", "overflowed"}
  MaxContinue = 1
SPECIFICATION FairSpec
INVARIANT PromptsConserved
PROPERTY ImplementsMailbox
PROPERTY CallsReturn
CHECK_DEADLOCK FALSE
