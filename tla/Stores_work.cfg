SPECIFICATION StoresSpec
CONSTANTS
  o1 = o1
  o2 = o2
  Processes = {s1}
  Observations = {o1, o2}
  Successor <- MCSuccessor
  NoObservation = NoObservation
  Projects = {q1, q2}
  Days = {1}
  Marks = {"key", "mid", "end"}
  MaxPages = 2
  MaxRevision = 3
  MaxCommands = 3
  MaxFaults = 1
  MaxTouches = 2
  MayMove = TRUE
  MayChangeFate = TRUE
  Parts = {"pages", "reviews"}
  Commits = {"m", "n", "a", "b"}
  NoCommit = "none"
  Reviewers = {p1, p2}
  NoReviewer = NoReviewer
  Sessions = {s2}
  MaxNumberAttempts = 2
  Histories <- MCHistories
SYMMETRY Symmetry
INVARIANTS
  StoresTypeOK
  PagesHold
  StoredHold
  ReviewsHold
PROPERTIES
  BodyEditsAreKept
CHECK_DEADLOCK FALSE
