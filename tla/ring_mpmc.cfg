CONSTANTS
  Writers = {w1, w2}
  Readers = {r1, r2}
  BlockCount = 3
  BlockSize = 1
  Lengths = {1}
  MaxWrites = 2
  CountMod = 8
  StoreBuffer = TRUE
SPECIFICATION TimelySpec
SYMMETRY Symmetry
VIEW View
INVARIANTS TypeOK IInv Exclusive ExactlyOnce WriterOrder
PROPERTIES Implements ClaimHasRoom
