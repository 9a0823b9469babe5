SPECIFICATION EventSpec
CONSTANTS
  s1 = s1
  s2 = s2
  e1 = e1
  e2 = e2
  m1 = m1
  m2 = m2
  m3 = m3
  Servers = {s1, s2}
  Events = {e1, e2}
  Msgs = {m1, m2}
  MaxDepth = 4
  MainOps = {"map", "create", "destroy", "start", "stop", "subscribe", "subscribe_sync", "unsubscribe", "unsubscribe_all", "publish", "handler", "clear"}
  CbOps = {"destroy", "start", "stop", "unsubscribe", "unsubscribe_all", "publish", "handler", "clear"}
  IsrOps = {"publish", "clear"}
  AllocFails = TRUE
  Careful = TRUE
  ClearFirst = TRUE
SYMMETRY Symmetry
INVARIANTS TypeOK MaskDiscipline NoStaleNode RefCounted NoFreedMsg SubscriptionsAgree QueuedOnce
