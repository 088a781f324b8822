SPECIFICATION Spec
CONSTANTS
  BackendLists <- AllLists
  Editable <- Frequency
  MaxEdits = 1
  Jobs = 2
  MaxFailures = 0
  CodegenFails = FALSE
  Absent = Absent
  Broken = Broken
INVARIANT EditsTakeEffect
