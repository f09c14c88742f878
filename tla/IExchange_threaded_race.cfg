SPECIFICATION Spec
CONSTANTS
  p1 = p1 p2 = p2
  a = a b = b c = c
  m1 = m1 m2 = m2 m3 = m3
  NoBlock = NoBlock
  Proc = {p1, p2}
  Block = {a, b, c}
  Owner <- OneAgainstTwo
  Msg = {m1, m2}
  From <- FanOutFrom
  To <- FanOutTo
  Threads = 2
  MaxQueues = 2
INVARIANT NoEarlyExit
