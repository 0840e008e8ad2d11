\* A copy saved from a session that is then deleted.
SPECIFICATION FairSpec
CONSTANTS
  Path = {p, q}
  Linked = {p}
  Key = {k1}
  NoKey = NoKey
  Client = {c1}
  Run = {r1}
  NoRun = NoRun
  Conversions = 1
  MaxFaults = 0
CHECK_DEADLOCK FALSE
PROPERTIES
  DeletionFinishes
