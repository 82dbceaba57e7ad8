CONSTANTS
  Setters = {s1}
  Singles = {}
  Multis = {m1}
  Keepers = {}
  e1 = e1
  e2 = e2
  Events = {e1, e2}
  AutoEvents = {e1}
  Lists <- OneOrder
  Modes = {TRUE, FALSE}
  Timeouts = {"timed", "forever"}
  Waiters = {o1}
  NoThread = none
SPECIFICATION Spec
INVARIANTS SignalsLiveWaiter
