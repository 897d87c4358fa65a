SPECIFICATION Spec
CONSTANTS
  r1 = r1
  r2 = r2
  r3 = r3
  ann = ann
  bob = bob
  p = p
  q = q
  Requests = {r1, r2, r3}
  Names = {ann, bob}
  Passwords = {p, q, Empty}
  Empty = Empty
  Null = Null
  NoRow = NoRow
  MaxFaults = 2
SYMMETRY Symmetry
INVARIANTS OneOwner RegisteredCanLogin NoHalfUser
\* Every request has ended.
CHECK_DEADLOCK FALSE
