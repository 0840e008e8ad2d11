\* A batch that is run again after the user forgot a memory of it.
SPECIFICATION Spec
CONSTANTS
  Worker = {w1}
  BatchSize = 2
  MaxMessages = 2
  MaxBatches = 2
  MaxChanges = 0
  MaxFaults = 1
CHECK_DEADLOCK FALSE
PROPERTIES
  ForgottenStaysForgotten
