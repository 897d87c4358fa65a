CONSTANTS
  r1 = r1
  r2 = r2
  r3 = r3
  c1 = c1
  c2 = c2
  Requests = {r1}
  Clients = {c1}
  From <- JustOne
  Poison = {}
  Connections = {k1}
  Others = {}
  Workers = {w1}
  None = None
  HandlersCap = 10
  RequestsCap = 64
  QueueCap = 128
  BatchCap = 32
  MaxTorn = 0
  MaxRefused = 0
SPECIFICATION FairSpec
PROPERTY EveryCallIsAnswered
CHECK_DEADLOCK FALSE
