CONSTANTS
  a = a
  b = b
  c = c
  receiver = receiver
  sweeper = sweeper
  Addresses = {a, b, c}
  Nothing = Nothing
  Hash <- Positioned
  Adders = {receiver}
  Removers = {sweeper}
  InitialSize = 12
  PositionsPerNode = 3
  MaxOccupied = 6
SPECIFICATION RingSpec
INVARIANT ProbesEnd
PROPERTIES
  RingIsBag
  KeysStay
