CONSTANTS
  MaxMessages = 2
  Slots = {1, 2, 3, 4, 5}
  MaxConnections = 2
  MaxBackoff = 1
  Budget <- Twice
  MaxEvents = 3
SPECIFICATION PageSpec
INVARIANTS
  PageTypeOK
  NeverStuck
  Accounted
  OneLongpoll
PROPERTY InOrder
\* The events are bounded, and nothing is left when the application has disconnected.
CHECK_DEADLOCK FALSE
