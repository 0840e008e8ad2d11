\* The process dies between the answer's COMMIT and the requeue.
SPECIFICATION FairSpec
CONSTANTS
  s1 = s1
  d1 = d1
  d2 = d2
  Run = {r1}
  Session = {s1}
  Worker = {w1}
  Decision = {d1}
  SessionOf <- OneSession
  AskedBy <- AskedByRun
  Blocking <- FirstBlocks
  NoRetry = {}
  NoWorker = NoWorker
  NoRun = NoRun
  NoDecision = NoDecision
  MaxFaults = 1
  MaxRetries = 0
CHECK_DEADLOCK FALSE
PROPERTIES
  AnsweredRunResumes
