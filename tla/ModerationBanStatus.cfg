\* An expired ban hides an older ban in force.
CHECK_DEADLOCK FALSE
CONSTANTS
  MaxActions = 2
  Appellants = {u1}
  Requests = {r1}
  MaxFailures = 0
  NoOne = NoOne
  Kind = {"nonPunitive", "ban", "temporaryBan"}
SPECIFICATION Spec
INVARIANT ActiveBanReported
