CONSTANTS
  Modules <- MCModules
  Top = "Top"
  Insts = {"a", "b", "n"}
  ParentOf <- MCParentOf
  ModuleOf <- MCModuleOf
  In <- MCIn
  Pinned = {}
  Hops = 20
  Designs <- MCDesigns
  Options <- MCOptions
SPECIFICATION Spec
INVARIANTS TypeOK SameDrivers KeptPortsStay WellFormed InputsUsed
PROPERTY Terminates
