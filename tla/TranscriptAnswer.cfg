\* A redelivered run: its second answer never reaches the session.
SPECIFICATION Spec
CONSTANTS
  Run = {r1}
  Worker = {w1}
  Length = 1
  MaxApplies = 2
  NoRun = NoRun
  MaxLegs = 2
  MaxFaults = 0
CHECK_DEADLOCK FALSE
INVARIANTS
  AnswerAppears
