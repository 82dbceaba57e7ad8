CONSTANTS
  Setters = {s1}
  Waiters = {a1, a2}
  Destroyer = d
  NoThread = none
  Lockings = {TRUE, FALSE}
  Timeouts = {500}
  Clocks = {"ahead", "behind"}
  Callers = {a1}
  BlockCount = 2
  Sides = {"data", "room"}
SPECIFICATION FairChannelSpec
PROPERTIES EveryWaitEnds EverythingIsTaken
