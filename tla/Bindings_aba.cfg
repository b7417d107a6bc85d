SPECIFICATION Spec
CONSTANTS
  Proc = {p1, p2, p3}
  Workflows = {w1}
  None = None
  Absent = Absent
  NotOurs = NotOurs
  MaxSeconds = 0
  MaxMade = 2
  MaxChanges = 0
INVARIANTS
  RemovesWhatItSaw
CHECK_DEADLOCK FALSE
