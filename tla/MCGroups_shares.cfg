\* Three groups of every shape, two modules of which one may fail to import, and a
\* budget that planning, factories and slow calls may use up.
SPECIFICATION Spec
CONSTANTS
  NGroups = 3
  Modules = {"a", "b"}
  ModuleOf <- MCModuleOf
  ShapesOf <- MCShapesOf
  OnlySets = {{}, {2}, {0}}
  MaxCombos = 2
  Budget = 4
  PlanTime = 1
  PhaseTime = 2
  MakeTime = 1
  CallTime = 1
  Scale = 6
INVARIANTS SurfaceIsWhole CoverageIsEarned FairShare
CHECK_DEADLOCK FALSE
