\* A deletion that is retried removes the file that was written again.
SPECIFICATION Spec
CONSTANTS
  Process = {p1}
  ClaimLimit = 2
  MaxAttempts = 2
  Operation = {"write", "trash"}
  NoJob = NoJob
  MaxJobs = 3
  MaxFaults = 0
  MaxLost = 0
CHECK_DEADLOCK FALSE
PROPERTIES
  DeliveredStays
