SPECIFICATION InstallsSpec
CONSTANTS
  Verbs = {p1, p2, p3}
  NoVerb = NoVerb
  SkillIds = {k1, k2}
  MaxWrites = 2
  Dirs = {claude, agents}
  Drafts = {d1, d2}
  Absent = Absent
  MaxVerbs = 3
  MaxEdits = 1
  Scripts = {q1, q2}
  NoScript = NoScript
  Targets = {claude, codex}
  Garbled = Garbled
  MaxJobs = 4
  MayPurge = TRUE
  MaySkew = TRUE
  Runs = {r1, r2}
  NoHolder = NoHolder
  Contracts = {k1, k2}
  NoContract = NoContract
  MaxAttempts = 2
  MaxRuns = 2
  MaxRefreshes = 2
  MaxContractEdits = 0
  MaxKills = 1
  MayBeDamaged = FALSE
  HookCommands = {p1}
  Binaries = {"old", "new"}
  PathHolds <- MCPathHolds
  Starts <- MCStarts
  MaxHookRuns = 2
  MaxHands = 1
  ShellCommands <- MCShellCommands
  AgentPrompts <- MCAgentPrompts
  GateContracts <- MCGateContracts
  WorkContexts <- MCWorkContexts
  Launches <- MCLaunches
  RestLimit = 26
  SinkBuffer = 3
  RunLength = 3
  MaxNesting = 2
  Streams <- MCStreams
SYMMETRY Symmetry
INVARIANTS
  InstallsTypeOK
  RegistryIsSound
  SkillsAreSound
  InstalledIsHeld
  ContractsAreSound
  HooksAreSound
PROPERTIES
  StepsAreSound
CHECK_DEADLOCK FALSE
