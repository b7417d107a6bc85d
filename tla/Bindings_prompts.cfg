SPECIFICATION PromptsInstance
CONSTANTS
  Proc = {p1, p2}
  Workflows = {w1}
  None = None
  Absent = Absent
  NotOurs = NotOurs
  MaxSeconds = 0
  MaxMade = 1
  MaxChanges = 1
PROPERTIES
  OperationsEnd
  ClosedIsUnbound
CHECK_DEADLOCK FALSE
