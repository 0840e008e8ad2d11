\* Mirror, journal, quarantine, sandbox and wiki, each with its faults.
SPECIFICATION SceneSpec
CONSTANTS
  Scenes = {"mirroring", "journal", "quarantine", "sandbox", "tree", "versions"}
  Process = {p1, p2}
  ClaimLimit = 2
  MaxAttempts = 2
  Operation = {"write", "trash"}
  NoJob = NoJob
  MaxJobs = 2
  MaxFaults = 1
  MaxLost = 1
  Path = {a, b}
  Op = {1, 2, 3}
  Kinds = {"content_write", "move", "trash", "restore", "purge"}
  NoOp = NoOp
  NoPath = NoPath
  MaxResources = 3
  MaxReconciliations = 2
  MaxRetries = 1
  Item = {i1, i2}
  Client = {c1, c2}
  NoItem = NoItem
  MaxVersion = 2
  Foreground = {f}
  Background = {p}
  Viewer = {v1, v2}
  MaxCommands = 1
  Node = {1, 2, 3}
  Text = {t1, t2}
  NoNode = NoNode
  MaxVersions = 3
  MaxDepth = 50
CHECK_DEADLOCK FALSE
INVARIANTS
  TypesOK
  
  IdentitiesMatchDisk
  CancelledDoesNotRun
  WikiIsKept
PROPERTIES
  EveryJobSettles
  EveryOperationSettles
  
  NothingLeftBehind
  RowsTellTheTruth
