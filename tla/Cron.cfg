\* Two processes, every policy and schedule, answers and cancellations.
SPECIFICATION SceneSpec
CONSTANTS
  Ticker = {t1, t2}
  CatchUp = {"skip", "latest", "all"}
  Schedule = {"once", "interval"}
  Period = 1
  Grace = 0
  MaxRuns = {1, 2}
  Commands = {"toggle", "trigger", "edit", "delete", "cancel", "answer"}
  NoDraft = NoDraft
  MaxTime = 2
  MaxFaults = 1
CHECK_DEADLOCK FALSE
SYMMETRY TickerSymmetry
INVARIANTS
  OneLiveOccurrence
  InstantsAreCounted
  OutcomeIsReal
