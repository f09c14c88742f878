SPECIFICATION LiveSpec
CONSTANTS
  p1 = p1 p2 = p2
  b1 = b1 b2 = b2 b3 = b3
  NoBlock = NoBlock
  Proc = {p1, p2}
  Block = {b1, b2, b3}
  Owner <- Uneven
  Neighbor <- Line
  WorkOf <- Heavy
  NSamples = 1
  Quantile = 80
  Enqueued = {b2}
INVARIANTS DynamicInv InOnePlace ProcessedOnce LooksUpItsOwn FixedAtEnd
PROPERTY Ends
