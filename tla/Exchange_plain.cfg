SPECIFICATION Spec
CONSTANTS
  p1 = p1 p2 = p2 p3 = p3
  a = a b = b c = c d = d
  Proc = {p1, p2, p3}
  Block = {a, b, c}
  Owner <- Chain
  Link <- ChainLink
  Reach = {}
  Rounds = 2
  Remote = {}
  Parts <- TwoPart
  limit_ <- NoLimit
INVARIANTS Delivered NeverLate
PROPERTY KeepsSync
