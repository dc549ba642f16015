CONSTANTS
  Requests = {r1, r2}
  MaxAttempts = 3
  MaxRecords = 2
SYMMETRY Symmetry
SPECIFICATION Spec
INVARIANTS
  TypeOK
  AttemptsBounded
  OldestKept
  BoostsBounded
PROPERTIES
  OverLasts
