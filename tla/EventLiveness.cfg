SPECIFICATION EventFairSpec
CONSTANTS
  s1 = s1
  s2 = s2
  e1 = e1
  e2 = e2
  m1 = m1
  m2 = m2
  m3 = m3
  Servers = {s1, s2}
  Events = {e1}
  Msgs = {m1, m2}
  MaxDepth = 3
  MainOps = {"map", "create", "destroy", "start", "stop", "subscribe", "subscribe_sync", "unsubscribe", "unsubscribe_all", "publish", "handler", "clear"}
  CbOps = {"create", "start", "stop", "subscribe", "subscribe_sync", "clear", "handler"}
  IsrOps = {"publish"}
  AllocFails = FALSE
  Careful = TRUE
  ClearFirst = TRUE
INVARIANTS QueuedOnce
PROPERTIES EventuallyTaken InterruptsReturn
