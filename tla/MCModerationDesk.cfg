\* The bounded tables fill up: the model stops where the service would go on.
CHECK_DEADLOCK FALSE
CONSTANTS
  MaxActions = 1
  Appellants = {u1, u2}
  Requests = {r1, r2}
  MaxFailures = 1
  NoOne = NoOne
  Kind = {"nonPunitive", "ban", "temporaryBan"}
SPECIFICATION DeskSpec
INVARIANTS
  AnnouncedIsOver
PROPERTIES
  ImplementsContract
  ExpiredBansEnd
