SPECIFICATION Spec
CONSTANTS
  BackendLists <- AllLists
  Editable <- Extraction
  MaxEdits = 1
  Jobs = 2
  MaxFailures = 1
  CodegenFails = FALSE
  Absent = Absent
  Broken = Broken
INVARIANTS TypeOK BuildIsCurrent OneDesign
PROPERTY NoNeedlessWork
