CONSTANTS
  Writers = {w1, w2}
  Readers = {r1}
  BlockCount = 3
  BlockSize = 1
  Lengths = {2}
  MaxWrites = 2
  CountMod = 8
  StoreBuffer = TRUE
  Versions = {"impl", "before"}
SPECIFICATION EarlierSpec
VIEW EarlierView
SYMMETRY Symmetry
INVARIANTS EarlierTypeOK ReadersWoken WritersWoken
PROPERTIES EarlierImplements
