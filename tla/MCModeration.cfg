\* The bounded tables fill up and every action ends up ruled on: the model
\* stops where the service would go on with new rows.
CHECK_DEADLOCK FALSE
CONSTANTS
  MaxActions = 2
  Appellants = {u1}
  Requests = {r1, r2}
  MaxFailures = 1
  NoOne = NoOne
  Kind = {"nonPunitive", "ban", "temporaryBan"}
SPECIFICATION Spec
INVARIANTS
  TypeOK
  LiftedIsOver
  ReversedForCause
  TrustUpdateJustified
  OpenAppealSuspends
PROPERTIES
  RulingStands
  ImplementsContract
SYMMETRY Symmetry
