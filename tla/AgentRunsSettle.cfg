\* Two runs of one session; one run that asks and is cancelled; one cron job.
SPECIFICATION SceneSpec
CONSTANTS
  s1 = s1
  d1 = d1
  d2 = d2
  r1 = r1
  w1 = w1
  Run = {r1, r2}
  Session = {s1}
  Worker = {w1, w2}
  Decision = {d1}
  SessionOf <- OneSession
  AskedBy <- Asker
  Blocking <- FirstBlocks
  NoRetry = {r2}
  NoWorker = NoWorker
  NoRun = NoRun
  NoDecision = NoDecision
  MaxFaults = 1
  MaxRetries = 1
  Ticker = {t1}
  CatchUp = {"all"}
  Schedule = {"interval"}
  Period = 1
  Grace = 1
  MaxRuns = {2}
  Commands = {"answer", "cancel"}
  NoDraft = NoDraft
  MaxTime = 2
CHECK_DEADLOCK FALSE
PROPERTIES
  CancelSettles
  EveryRunSettles
  DueIsHandled
