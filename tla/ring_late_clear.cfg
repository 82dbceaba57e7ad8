CONSTANTS
  Writers = {w1}
  Readers = {r1, r2}
  BlockCount = 3
  BlockSize = 1
  Lengths = {1}
  MaxWrites = 4
  CountMod = 8
  StoreBuffer = FALSE
SPECIFICATION PromptSpec
INVARIANTS ExactlyOnce
