CONSTANTS
  r1 = r1
  r2 = r2
  r3 = r3
  c1 = c1
  c2 = c2
  Requests = {r1, r2, r3}
  Clients = {c1, c2}
  From <- TwoAndOne
  Poison = {r3}
  Connections = {k1, k2, k3}
  Others = {k3}
  Workers = {w1, w2}
  None = None
  HandlersCap = 2
  RequestsCap = 1
  QueueCap = 2
  BatchCap = 2
  MaxTorn = 1
  MaxRefused = 1
SPECIFICATION FairSpec
INVARIANTS
  OneCopy
  OneConnection
PROPERTY AnsweredOrStranded
\* Every call was made.
CHECK_DEADLOCK FALSE
