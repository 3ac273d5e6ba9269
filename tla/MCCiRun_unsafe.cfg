\* The plugin counts one of two tests: the other is marked thread_unsafe.
SPECIFICATION Spec
CONSTANTS
  a = a  b = b
  Tests <- TwoTests
  Parallel = {a}
  Skips = {}
  Deselectable = {}
  Counts = {"plugin"}
  MaxRuns = 1
CHECK_DEADLOCK FALSE
INVARIANTS CleanIsComplete
