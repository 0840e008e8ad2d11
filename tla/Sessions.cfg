\* Eight scenes around one session, each with its faults and under fairness.
SPECIFICATION SceneSpec
CONSTANTS
  Scenes = {"transcript", "deletion", "delegation", "extraction", "recall", "loop",
            "approving", "discovering"}
  Run = {r1}
  Worker = {w1, w2}
  Length = 2
  MaxApplies = 2
  NoRun = NoRun
  MaxLegs = 2
  MaxFaults = 2
  Path = {p, q}
  Linked = {p}
  Key = {k1}
  NoKey = NoKey
  Client = {c1}
  SessionRun = {r1, r2}
  Conversions = 1
  Child = {0, 1}
  Concurrency = 1
  ExtractionWorker = {w1}
  BatchSize = 2
  MaxMessages = 2
  MaxBatches = 4
  MaxSettings = 2
  General = {g1}
  Project = {m1}
  Leg = {1, 2}
  MaxTries = 2
  MaxChanges = 2
  MaxIterations = 3
  MaxEmptyResponses = 1
  MaxFastRetries = 1
  ToolLimit = 3
  TokenLimit = 3
  TurnCost = 2
  Reserve = 1
  MaxTasks = 2
  ProtectFirst = 1
  ProtectLast = 2
  Profile = {a1}
  Tasks = 2
  NoTask = NoTask
  Limit = 1
  Budgets = {1}
  Approval = {1, 2, 3}
  MaxDay = 1
  Overlap = 2
  Faults = 1
CHECK_DEADLOCK FALSE
INVARIANTS
  TypesOK
  AppliedIsComplete
  CountNeverAhead
  GoneMeansSettled
  NoBackfill
  TurnsAreAnswered
  BudgetIsKept
  WakesAreApproved
PROPERTIES
  ProjectionSettles
  OnlyAnAbandonedSaveHolds
  EveryChildSettles
  CancelWins
  
  RecalledIsFresh
  EveryLegEnds
  OverdueIsProposed
