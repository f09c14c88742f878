SPECIFICATION FairSpec
CONSTANTS
  p1 = p1 p2 = p2 p3 = p3
  a = a b = b c = c d = d
  Proc = {p1, p2}
  Block = {a, b, d}
  Owner <- Chain
  Link <- PairLink
  Reach <- PairReach
  Rounds = 3
  Remote = {2}
  Parts <- BigPart
  limit_ = 1
INVARIANTS ExchangeTypeOK Delivered NeverLate ExchangeInv
PROPERTY KeepsLiveSync
