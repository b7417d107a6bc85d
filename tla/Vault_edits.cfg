SPECIFICATION StoresSpec
CONSTANTS
  o1 = o1
  o2 = o2
  Processes = {s1}
  Observations = {o1, o2}
  Successor <- MCSuccessor
  NoObservation = NoObservation
  Projects = {q1}
  Days = {1}
  Marks = {"key"}
  MaxPages = 2
  MaxRevision = 3
  MaxCommands = 3
  MaxFaults = 1
  MaxTouches = 3
  MayMove = FALSE
  MayChangeFate = TRUE
  Parts = {"pages"}
  Commits = {"m", "n", "a", "b"}
  NoCommit = "none"
  Reviewers = {p1, p2}
  NoReviewer = NoReviewer
  Sessions = {s2}
  MaxNumberAttempts = 2
  Histories <- MCHistories
PROPERTIES
  EditsAreKept
CHECK_DEADLOCK FALSE
