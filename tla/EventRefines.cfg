SPECIFICATION EventSpec
CONSTANTS
  s1 = s1
  s2 = s2
  e1 = e1
  e2 = e2
  m1 = m1
  m2 = m2
  m3 = m3
  Servers = {s1, s2}
  Events = {e1, e2}
  Msgs = {m1, m2}
  MaxDepth = 3
  MainOps = {"map", "create", "destroy", "start", "stop", "subscribe", "unsubscribe", "unsubscribe_all", "publish", "handler", "clear"}
  CbOps = {"create", "destroy", "start", "stop", "subscribe", "unsubscribe", "unsubscribe_all", "publish", "handler", "clear"}
  IsrOps = {"publish"}
  AllocFails = FALSE
  Careful = TRUE
  ClearFirst = TRUE
INVARIANTS Reclaimed
PROPERTIES IsAtomicBroadcast
