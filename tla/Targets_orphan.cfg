SPECIFICATION TargetsSpec
CONSTANTS
  Scripts = {q1, q2}
  NoScript = NoScript
  Targets = {claude, codex}
  Garbled = Garbled
  MaxJobs = 3
  MayPurge = FALSE
  MaySkew = FALSE
INVARIANTS
  NoOrphanEntry
CHECK_DEADLOCK FALSE
