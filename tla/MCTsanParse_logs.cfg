\* Races of every owner, with and without lines, either access first, the last or the one before it cut.
SPECIFICATION ParseSpec
CONSTANTS
  Possible <- AllParsed
  Printable <- AllRaces
  Cuttable <- CutRaces
  Allocation <- TheAllocation
  Creation <- TheCreation
  InCrate = {"lib.rs", "ffi/sys.rs"}
  ViaFfi = {"ffi/sys.rs"}
  Rank <- TheRank
  Allocators = {"new_dict"}
  Writers = {"bytearray_setslice"}
  Copies = {"memmove"}
  Releases = {"array_resize"}
  Evals = {"_PyEval_EvalFrame"}
  NeedsLock = {"PyDict_Next"}
  Atomics = {"_Py_atomic_load"}
  MaxReports = 3
CHECK_DEADLOCK FALSE
INVARIANTS SidesCollapse AttributionIgnoresSides FiledByRace ParsedAsPrinted OwnersKeptApart
PROPERTIES ReadsReports
