SPECIFICATION StandaloneSpec
CONSTANTS
  a = a
  b = b
  Size = 3
  Word = 8
  Items = {a, b}
  MaxBatch = 3
  MaxDepth = 2
  MainOps = {"fifo_create", "fifo_destroy", "fifo_in", "fifo_out", "fifo_peek"}
  CbOps = {}
  IsrOps = {"fifo_in", "fifo_out", "fifo_peek"}
  AllocFails = FALSE
  k1 = k1
  k2 = k2
  k3 = k3
  NULL = NULL
  Keys = {k1, k2, k3}
  Values = {a, b}
  Hashes = {0, 2}
  Tables = {3}
  x = x
  y = y
  z = z
  Settable <- MCSettable
  SizeOf <- MCSizeOf
  AddrSize = 2
  Base = 1
  Bytes = {0, 255}
  Erased = 255
  Factory <- MCFactory
  p = p
  Buttons = {p}
  ActiveLevels = {0, 1}
  CntMod = 16
  RepeatMax = 7
  CtrlConfigs <- MCConfigs
  CtrlDefaults <- MCDefaults
  CbEvents = {"SINGLE_CLICK"}
PROPERTY RemovesOneKey
