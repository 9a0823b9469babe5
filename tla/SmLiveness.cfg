SPECIFICATION SmFairSpec
CONSTANTS
  s1 = s1
  s2 = s2
  e1 = e1
  e2 = e2
  m1 = m1
  m2 = m2
  m3 = m3
  t1 = t1
  t2 = t2
  global = global
  Servers = {s1, s2}
  Events = {e1}
  Msgs = {m1}
  Timers = {t1}
  Heads = {s1, s2, global}
  Global = global
  MaxIds = 1
  Half = 4
  Intervals = {1}
  NullCbModes = {}
  MaxTick = 1
  MaxLag = 1
  MaxDepth = 3
  MainOps = {"state_create", "subscribe", "trans_to", "publish", "sm_handler", "start_normal", "start_global"}
  CbOps = {"trans_to"}
  IsrOps = {"publish"}
  AllocFails = FALSE
  Careful = TRUE
  ClearFirst = TRUE
PROPERTIES EventServed
