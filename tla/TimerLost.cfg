SPECIFICATION TimerSpec
CONSTANTS
  t1 = t1
  t2 = t2
  t3 = t3
  h1 = h1
  h2 = h2
  Timers = {t1, t2}
  Heads = {h1}
  Half = 4
  Intervals = {1, 3}
  NullCbModes = {}
  MaxTick = 7
  MaxLag = 1
  MaxDepth = 1
  MainOps = {"timer_create", "timer_destroy", "timer_set_mode", "timer_start", "timer_restart", "timer_stop", "timer_handler"}
  CbOps = {}
  IsrOps = {}
  AllocFails = FALSE
INVARIANTS NotLost
