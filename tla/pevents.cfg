CONSTANTS
  Setters = {s1, s2}
  Singles = {m2}
  Multis = {m1, m2}
  Keepers = {s1, s2}
  e1 = e1
  e2 = e2
  Events = {e1, e2}
  AutoEvents = {e1}
  Lists <- OneOrder
  Modes = {TRUE, FALSE}
  Timeouts = {"poll", "timed", "forever"}
  Waiters = {o1, o2}
  NoThread = none
SPECIFICATION Spec
SYMMETRY Symmetry
INVARIANTS
  TypeOK RefsCounted LeftCounted SetMeansUnregistered FiredIsSignalled
  SetWakesASleeper NobodyWaitsInACircle
PROPERTIES FiredOnce
