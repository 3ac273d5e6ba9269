\* Of three tests one is skipped and one may be deselected; either count comes first.
SPECIFICATION CliSpec
CONSTANTS
  a = a  b = b  c = c
  Tests <- TheTests
  Parallel = {a, b}
  Skips = {c}
  Deselectable = {b}
  Counts = {"plugin", "pytest"}
  MaxRuns = 2
  MaxCalls = 2
  Majors = {21, 22}
  MaxCallables = 2
  Commands <- TheCommands
CHECK_DEADLOCK FALSE
INVARIANTS CleanIsEarned SuiteFailedIsTheSuite FindingsAreTheVerdict ZeroIsEarned ReportTellsTheVerdict
