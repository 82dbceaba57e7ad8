CONSTANTS
  Setters = {s1, s2}
  Waiters = {a1, a2}
  Destroyer = d
  NoThread = none
  Lockings = {TRUE, FALSE}
  Timeouts = {500, 2147483647}
  Clocks = {"ahead", "behind"}
  Callers = {a1, a2}
  BlockCount = 3
  Sides = {"data", "room"}
SPECIFICATION ChannelSpec
SYMMETRY Symmetry
INVARIANTS TypeOK SuccessMeansSet NoSleepWhileSet SomebodyAwake
