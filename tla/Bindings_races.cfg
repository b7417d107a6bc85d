SPECIFICATION ReadsSpec
CONSTANTS
  Proc = {p1, p2}
  Workflows = {w1, w2}
  None = None
  Absent = Absent
  NotOurs = NotOurs
  MaxSeconds = 1
  MaxMade = 2
  MaxChanges = 2
  Observations = {1, 2}
  TopicGoal <- MCTopicGoal
  AskedGoals = {"none", "g2"}
  NoGoal = "none"
  Queries = {q1}
  Indexers = {i1}
  NoFile = NoFile
  TopUpMaxRows = 1
  MaxSaves = 2
  MaxBuilds = 2
  MaxStops = 1
  Plans <- AllPlans
  Goals <- AllGoals
  Trees <- AllTrees
  Root = "w"
  BlankTexts = {" "}
  HiddenTexts = {"hidden"}
  Dialogs = {d1}
  Assessors = {b1}
  Nothing = Nothing
  MaxEdits = 2
  MaxDialogs = 2
  RegularFiles = {n1, n2}
  MaxMoves = 4
SYMMETRY Symmetry
INVARIANTS
  TypeOK
  KeptIsFirm
  IndexHolds
  ClearingHolds
PROPERTIES
  OpenStaysBound
CHECK_DEADLOCK FALSE
