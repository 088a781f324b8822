\* The pipeline ends when the component is coupled or a step failed.
CHECK_DEADLOCK FALSE
SPECIFICATION Spec
CONSTANTS
  none = none
  None = none
  Declarations <- MCDeclarations
  Designs <- MCDesigns
  Tree <- MCTree
  Window = 2
INVARIANTS TypeOK ClaimsPartition EachPortToItsInterface TopIsComplete SameNumbers
