\* Two runs compete for a session; one run asks two questions; two workers.
SPECIFICATION SceneSpec
CONSTANTS
  s1 = s1
  d1 = d1
  d2 = d2
  r1 = r1
  Run = {r1, r2}
  Session = {s1}
  Worker = {w1, w2}
  Decision = {d1, d2}
  SessionOf <- OneSession
  AskedBy <- Asker
  Blocking <- FirstBlocks
  NoRetry = {}
  NoWorker = NoWorker
  NoRun = NoRun
  NoDecision = NoDecision
  MaxFaults = 1
  MaxRetries = 1
SYMMETRY WorkerSymmetry
CHECK_DEADLOCK FALSE
INVARIANTS
  OneActiveRunPerSession
  ExclusiveToolCalls
  
  InputFollowsRun
  CompletedMeansDelivered
PROPERTIES
  StaleWorkerIsHarmless
  OnlyALostRequeueStrands
  ImplementsLifecycle
