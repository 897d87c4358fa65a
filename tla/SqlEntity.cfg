SPECIFICATION Spec
CONSTANTS
  name = name
  email = email
  a = a
  b = b
  Objects = {x, y}
  Fields <- MCFields
  Unique <- MCUnique
  Values <- MCValues
  BulkUpdates <- MCBulkUpdates
  Default = a
  Null = Null
  NoRow = NoRow
  MaxId = 2
  MaxFaults = 1
SYMMETRY Symmetry
INVARIANTS ShowsItsRow OneRowEach GapsAreBlank
CHECK_DEADLOCK FALSE
