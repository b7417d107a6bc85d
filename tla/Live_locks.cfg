SPECIFICATION LiveSpec
CONSTANTS
  Proc = {p1, p2}
  None = None
  Stages <- LiveStages
  MaxStages = 2
  Orders <- LiveOrders
  Goals = {1}
  LegacyLogs <- NoLegacyLogs
  MaxLogEvents = 1
  MaxRecords = 0
  MaxChanges = 1
  Sessions = {s1, s2}
  Nobody = Nobody
  MaxLines = 4
  Triggers = {t1, t2, t3}
  NoProcess = NoProcess
  KeptLogs = 2
  LogLimit = 1
  MaxTriggerKills = 1
  MaxUnlogged = 1
INVARIANTS
  LiveTypeOK
  LogsAreWhole
PROPERTIES
  LeavesAsOldest
  EverythingEnds
  EveryStartIsLogged
CHECK_DEADLOCK FALSE
