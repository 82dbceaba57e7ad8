CONSTANTS
  Writers = {w1}
  Readers = {r1}
  BlockCount = 3
  BlockSize = 1
  Lengths = {0, 1, 2}
  MaxWrites = 5
  CountMod = 8
  StoreBuffer = TRUE
SPECIFICATION FairSpec
INVARIANTS Timely
PROPERTIES Implements EveryMessageMoves
