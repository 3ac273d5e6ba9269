\* Every way the driver may hang or die, in any window, with mutators, over
\* the files of an earlier run.
SPECIFICATION FairSpec
CONSTANTS
  pair = pair
  pair2 = pair2
  mix = mix
  Steps <- TheSteps
  Mix = mix
  StallPolls = 2
  GracePolls = 1
  CeilingPolls = 4
  BudgetPolls = 2
  MaxMissed = 0
  MaxTorn = 1
  TornAtEnd = TRUE
  MaxCalls = 1
  Horizon = 0
  HasMutators = TRUE
  HangKinds = {"workers", "all"}
  FaultKinds = {"race", "mine", "foreign", "bare", "fatal", "signal", "quits"}
  LeftSteps <- OnePair
INVARIANTS TypeOK CleanIsEarned CrashIsAFinding NamesNoOtherStep
PROPERTIES EveryRunEnds
