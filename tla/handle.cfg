CONSTANTS
  Handles = {server, c1, c2}
  Failing = {server, c1, c2}
  Server = server
  MaxSegments = 2
  Addresses = {a1, a2, a3, a4}
  Nowhere = nowhere
SPECIFICATION CarefulSpec
SYMMETRY Symmetry
CHECK_DEADLOCK FALSE
INVARIANTS TypeOK ReadyWhenConnected OneQueue
PROPERTIES TrafficKept
