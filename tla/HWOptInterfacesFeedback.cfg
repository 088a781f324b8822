CONSTANTS
  Modules <- MCModules
  Top = "Top"
  Insts = {"a", "b", "n"}
  ParentOf <- MCParentOf
  ModuleOf <- MCModuleOf
  In <- MCIn
  Pinned = {}
  Hops = 20
  Designs <- SharingDesigns
  Options <- MCOptions
SPECIFICATION Spec
INVARIANT MovesKeepDesign
