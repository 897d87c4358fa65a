CONSTANTS
  l1 = l1
  l2 = l2
  n1 = n1
  f1 = f1
  f2 = f2
  Links = {l1, l2}
  Blank = {l2}
  Nodes = {n1}
  Farmers = {f1, f2}
  Home <- SameNode
  AcquisitionLimit = 1
  NoOne = NoOne
  NoLink = NoLink
  Budget <- OneOfEach
SPECIFICATION FairSpec
INVARIANTS
  WaitingIsUntouched
  ProcessedIsLearned
  EveryPassIsPaidFor
PROPERTIES
  SettledForGood
  Drained
  StopIsObeyed
\* Every thread may have been stopped or have crashed.
CHECK_DEADLOCK FALSE
