SPECIFICATION Spec
CONSTANTS
  b1 = b1 b2 = b2 b3 = b3 r1 = r1 r2 = r2
  NoBlock = NoBlock
  Block = {b1, b2, b3}
  Away = {r1, r2}
  Link <- Row
  Order <- RowOrder
  Rounds = 2
  Foreachs = 2
  Skips = {1}
  Targets <- RowTargets
  threads_ = 2
  limit_ = 2
  Large <- RowLarge
  Early <- RowEarly
INVARIANTS OutOfCoreInv FilesKept WithinLimit
PROPERTY KeepsInCore
