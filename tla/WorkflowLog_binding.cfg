SPECIFICATION Spec
CONSTANTS
  Proc = {p1}
  None = None
  Stages <- MCStages
  MaxStages = 2
  Orders <- MCOrders
  Goals <- MCGoals
  LegacyLogs <- MCLegacyLogs
  MaxLogEvents = 3
  MaxRecords = 2
  MaxChanges = 1
INVARIANTS
  StageOrder
  InputsAreOne
CHECK_DEADLOCK FALSE
