SPECIFICATION Spec
CONSTANTS
  Clocks <- MCClocks
  Half <- MCHalf
  Hold = 2
INVARIANTS EveryEdgeOnce InStep ResetReachesEveryDomain
