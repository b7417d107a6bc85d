SPECIFICATION Spec
CONSTANTS
  Proc = {p1, p2}
  None = None
  Stages <- MCStages
  MaxStages = 2
  Orders <- OneOrder
  Goals <- OneGoal
  LegacyLogs <- MCLegacyLogs
  MaxLogEvents = 2
  MaxRecords = 0
  MaxChanges = 2
SYMMETRY Symmetry
INVARIANTS
  TypeOK
  LogVerifies
  AckedIsFirm
PROPERTIES
  ImplementsLedger
  RefusedIsLeftAlone
CHECK_DEADLOCK FALSE
