\* Two files of every content, bodies of up to four statements of every form.
SPECIFICATION Spec
CONSTANTS
  NFiles = 2
  Contents <- MCContents
  Types = {"A", "B"}
  Version = "unknown"
  MinConfidence = "likely"
  Locks = {"a"}
  Names = {"g", "h"}
  MaxStmts = 4
INVARIANTS GuardsAreTracked SharedStateIsReported ReportIsWhole
CHECK_DEADLOCK FALSE
