\* Two callables, so three pairs and the mix; two workers, one call each.
SPECIFICATION Spec
CONSTANTS
  Threads = 2
  NCalls = 2
  Iterations = 1
  Mutators = {}
  MaxMutations = 0
  Ends <- AllAnswer
  NoOne = NoOne
  NoSnap = NoSnap
INVARIANTS EveryCallCounted LineNamesThePhase SavedPairsAreBacked FinalResultIsComplete
PROPERTIES CallsStartTogether ImplementsView
