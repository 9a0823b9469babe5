SPECIFICATION TimerSpec
CONSTANTS
  t1 = t1
  t2 = t2
  t3 = t3
  h1 = h1
  h2 = h2
  Timers = {t1, t2}
  Heads = {h1, h2}
  Half = 8
  Intervals = {1, 3, 8}
  NullCbModes = {}
  MaxTick = 5
  MaxLag = 2
  MaxDepth = 3
  MainOps = {"timer_create", "timer_destroy", "timer_set_mode", "timer_start", "timer_restart", "timer_stop", "timer_handler"}
  CbOps = {"timer_start", "timer_stop", "timer_restart", "timer_destroy", "timer_handler"}
  IsrOps = {"timer_start", "timer_stop"}
  AllocFails = TRUE
INVARIANTS LinkedOnce PassComplete OnTime
PROPERTIES OnlyRunningFires
SYMMETRY Symmetry
