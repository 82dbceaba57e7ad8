CONSTANTS
  Writers = {w1, w2}
  Readers = {r1}
  BlockCount = 3
  BlockSize = 1
  Lengths = {1}
  MaxWrites = 1
  CountMod = 8
  StoreBuffer = TRUE
SPECIFICATION PromptSpec
INVARIANTS AllPublished
