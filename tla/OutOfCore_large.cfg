SPECIFICATION Spec
CONSTANTS
  b1 = b1 b2 = b2 b3 = b3 r1 = r1 r2 = r2
  NoBlock = NoBlock
  Block = {b1, b2}
  Away = {}
  Link <- Pair
  Order <- PairOrder
  Rounds = 1
  Foreachs = 1
  Skips = {}
  Targets <- PairTargets
  threads_ = 1
  limit_ = 1
  Large <- Pair
  Early = {}
PROPERTY KeepsInCore
