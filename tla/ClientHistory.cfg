SPECIFICATION ClientSpec
CONSTANTS
  Focus = {"dms"}
  None = None
  MaxKept = 2
  MaxDms = 3
  MaxViews = 2
  MaxOut = 2
  Files = {f}
  Parts = {1, 2, 3}
  MaxAttempts = 2
  Identities = {i1, i2}
  WrapKeys = {1, 2, 3, 4, 5, 6}
  MaxProcs = 2
  MaxRefused = 1
  Replicas = {r1, r2}
  Keys = {"k", "l"}
  Writes <- ClientWrites
  MaxCopies = 2
PROPERTIES
  HistoryKept
CHECK_DEADLOCK FALSE
