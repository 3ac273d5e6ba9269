\* A worker of two calls and a mutator; calls answer, raise, exit or deadlock.
\* A deadlocked phase stops for good once its heartbeat has shown everything.
SPECIFICATION FairSpec
CONSTANTS
  Threads = 1
  NCalls = 1
  Iterations = 2
  Mutators = {m}
  MaxMutations = 1
  Ends <- SomeNeverDo
  NoOne = NoOne
  NoSnap = NoSnap
INVARIANTS TypeOK SavedAgrees QuietBetweenPhases
PROPERTIES ResultNeverRegresses GroupEnds ProgressShows
CHECK_DEADLOCK FALSE
