\* QEMU waits forever for a simulation that died: the system may stop.
CHECK_DEADLOCK FALSE
SPECIFICATION Spec
CONSTANTS
  a = a
  b = b
  c = c
  Names <- Three
  None = None
  MaxEdits = 1
  MaxFailures = 2
INVARIANTS TypeOK NothingLeft EachNodeHasItsSim SameNumbering
PROPERTY RunEnds
