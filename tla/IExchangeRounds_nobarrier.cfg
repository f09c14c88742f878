SPECIFICATION RoundsSpec
CONSTANTS
  p1 = p1 p2 = p2
  a = a b = b
  m1 = m1 m2 = m2
  NoBlock = NoBlock
  Proc = {p1, p2}
  Block = {a, b}
  Owner <- OneBlockEach
  Msg = {m1, m2}
  From <- PingFrom
  To <- PingTo
  Threads = 1
  MaxQueues = 1
  Rounds = 2
  Barrier = FALSE
INVARIANT NoEarlyExitFromRound
