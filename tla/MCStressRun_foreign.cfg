\* TSan reports a deadly signal with no frame of the extension on the stack.
SPECIFICATION Spec
CONSTANTS
  pair = pair
  pair2 = pair2
  mix = mix
  Steps <- TheSteps
  Mix = mix
  StallPolls = 2
  GracePolls = 1
  CeilingPolls = 4
  BudgetPolls = 2
  MaxMissed = 0
  MaxTorn = 1
  TornAtEnd = TRUE
  MaxCalls = 2
  Horizon = 0
  HasMutators = FALSE
  HangKinds = {}
  FaultKinds = {"foreign"}
  LeftSteps = {}
INVARIANTS DeathFailsTheRun
