SPECIFICATION TimerFairSpec
CONSTANTS
  t1 = t1
  t2 = t2
  t3 = t3
  h1 = h1
  h2 = h2
  Timers = {t1, t2}
  Heads = {h1}
  Half = 3
  Intervals = {1, 3}
  NullCbModes = {}
  MaxTick = 5
  MaxLag = 1
  MaxDepth = 2
  MainOps = {"timer_create", "timer_start", "timer_handler"}
  CbOps = {"timer_start"}
  IsrOps = {"timer_start"}
  AllocFails = FALSE
INVARIANTS TimerTypeOK MaskDiscipline
PROPERTIES NeverEarly PassReturns TimeGoesOn
