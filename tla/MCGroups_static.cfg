\* An unsendable type whose members are a method and a static method.
SPECIFICATION Spec
CONSTANTS
  NGroups = 1
  Modules = {"a"}
  ModuleOf <- MCModuleOf
  ShapesOf <- StaticFirst
  OnlySets = {{}}
  MaxCombos = 2
  Budget = 4
  PlanTime = 1
  PhaseTime = 2
  MakeTime = 1
  CallTime = 1
  Scale = 6
INVARIANTS UnsendableIsNotDriven
CHECK_DEADLOCK FALSE
