SPECIFICATION TaskSpec
CONSTANTS
  Actors = {a1, a2}
  Tasks = {t1, t2}
  NoTask = NoTask
  PreWork = 2
  MaxDocs = 2
  MaxHops = 3
  MaxOpens = 2
  MaxByHand = 1
  MemorySources = {"engram", "longterm-mem", "procedural-skills"}
  Procedural = "procedural-skills"
  MaxNarrowed = 1
  Handoffs <- AllHandoffs
  Contents = {c1}
  MaxRecords = 8
  MaxLosses = 1
  Agents = {g1}
  People = {h1}
  Approved = {r1, r2}
  Unsafe = {r2}
  AllChanges = {d1, d2}
  Features = {f1}
  MaxApprovals = 2
  MaxTurns = 1
SYMMETRY Symmetry
INVARIANTS
  TaskTypeOK
  OpeningHolds
  MemoryHolds
  HandoffsHold
  ReceiptsHold
CHECK_DEADLOCK FALSE
