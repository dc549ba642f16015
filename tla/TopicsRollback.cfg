CONSTANTS
  r1 = r1
  r2 = r2
  u1 = u1
  u2 = u2
  t1 = t1
  t2 = t2
  d1 = d1
  Requests = {r1}
  Users = {u1, u2}
  Creator = creator
  Moderator = mod
  Topics = {t1, t2}
  Discussions = {d1}
  None = none
  MaxResponses = 2
  MaxDepth = 1
  MaxChanges = 2
SPECIFICATION Spec
CHECK_DEADLOCK FALSE
PROPERTY RollbackRestores
