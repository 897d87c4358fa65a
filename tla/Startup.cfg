SPECIFICATION StartSpec
CONSTANTS
  s1 = s1
  s2 = s2
  s3 = s3
  hood = hood
  store = store
  view = view
  Starts = {s1, s2, s3}
  Services = {hood, store, view}
  Neighbourhood = hood
  Graphs <- SomeGraphs
  Welcome = Welcome
  Blank = Blank
  Null = Null
  NoRow = NoRow
  MaxFaults = 1
INVARIANTS InOrder OneCreator AwardsStored
PROPERTY StartsEnd
\* A start goes over the services for ever, or all have ended.
CHECK_DEADLOCK FALSE
