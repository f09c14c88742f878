SPECIFICATION Spec
CONSTANTS
  p1 = p1 p2 = p2
  a = a b = b c = c
  m1 = m1 m2 = m2 m3 = m3
  NoBlock = NoBlock
  Proc = {p1, p2}
  Block = {a, b}
  Owner <- OneAgainstTwo
  Msg = {m1, m2}
  From <- PingFrom
  To <- PingTo
  Threads = 2
  MaxQueues = 1
INVARIANTS WorkCounted NoEarlyExit Agreement
