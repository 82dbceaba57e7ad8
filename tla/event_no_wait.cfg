CONSTANTS
  Setters = {s1, s2}
  Waiters = {a1, a2}
  Destroyer = d
  NoThread = none
  Lockings = {FALSE}
  Timeouts = {2147483647}
  Clocks = {"ahead", "behind"}
SPECIFICATION Spec
PROPERTIES GivesUpAsleep
