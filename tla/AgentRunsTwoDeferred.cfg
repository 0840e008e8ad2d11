\* One run asks two deferred questions; no faults.
SPECIFICATION Spec
CONSTANTS
  s1 = s1
  d1 = d1
  d2 = d2
  Run = {r1}
  Session = {s1}
  Worker = {w1}
  Decision = {d1, d2}
  SessionOf <- OneSession
  AskedBy <- AskedByRun
  Blocking = {}
  NoRetry = {}
  NoWorker = NoWorker
  NoRun = NoRun
  NoDecision = NoDecision
  MaxFaults = 0
  MaxRetries = 0
CHECK_DEADLOCK FALSE
INVARIANTS
  PauseNeverCollides
