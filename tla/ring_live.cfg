CONSTANTS
  Writers = {w1, w2}
  Readers = {r1, r2}
  BlockCount = 3
  BlockSize = 1
  Lengths = {1}
  MaxWrites = 1
  CountMod = 8
  StoreBuffer = FALSE
SPECIFICATION FairSpec
INVARIANTS AllPublished AllReclaimed CountAtRest
PROPERTIES EveryMessageMoves
