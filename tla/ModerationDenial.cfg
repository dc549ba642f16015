\* A denied appeal leaves the action APPEALED.
CHECK_DEADLOCK FALSE
CONSTANTS
  MaxActions = 1
  Appellants = {u1}
  Requests = {r1}
  MaxFailures = 0
  NoOne = NoOne
  Kind = {"nonPunitive", "ban", "temporaryBan"}
SPECIFICATION Spec
INVARIANT DenialRestores
