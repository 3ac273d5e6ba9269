\* Slow calls, late heartbeats, lines read while they are rewritten, and workers
\* that may deadlock for longer than the bound.
SPECIFICATION Spec
CONSTANTS
  pair = pair
  pair2 = pair2
  mix = mix
  Steps <- ThreeSteps
  Mix = mix
  StallPolls = 3
  GracePolls = 1
  CeilingPolls = 13
  BudgetPolls = 6
  MaxMissed = 1
  MaxTorn = 1
  TornAtEnd = FALSE
  MaxCalls = 2
  Horizon = 5
  HasMutators = FALSE
  HangKinds = {"workers"}
  FaultKinds = {}
  LeftSteps = {}
SYMMETRY PairsAlike
INVARIANTS NoFalseHang HangIsStopped
