SPECIFICATION MixnetSpec
CONSTANTS
  Focus = {"clearnet", "request", "tunnel", "packets", "pool", "tracker"}
  None = None
  c1 = c1
  b1 = b1
  b2 = b2
  i1 = i1
  i2 = i2
  i3 = i3
  i4 = i4
  p = p
  l = l
  Recipients = {p, l}
  Legacy = {l}
  Concurrency = 2
  Api <- OneApi
  MaxCallers = 2
  Calls = {c1}
  Batches = {b1}
  Items <- ThreeItems
  To <- ThreeTo
  BatchTo <- BatchToP
  Fetches = {1, 2}
  MaxSetups = 3
  MaxPath = 4
  Entries = {a}
  Mixes = {m}
  Exits = {x}
  Client = client
  Service = service
  Messages = {hi}
  MaxBuilt = 2
  MaxFlying = 2
  Ids = {s1, s2}
  MaxAge = 1
  MaxNow = 3
  PacketIds = {s1}
  PacketTimes = {0, 2}
  Keys = {1, 2, 3}
  Ttl = 1
  MaxEntries = 2
  Loads = {1, 2}
  MaxRedirects = 1
  MaxCookies = 1
  MaxPages = 1
  MaxVersion = 1
  MayMove = FALSE
  Session = Session
INVARIANTS
  MixnetTypeOK
  Correlation
  NoStaleWaiter
  BatchComplete
  TunnelFound
  Delivered
  SingleUse
  FreshAccepted
  NoReplay
  JarSaved
PROPERTIES
  SettledOnce
  NoItemAfterFailure
  LoadsBelong
CHECK_DEADLOCK FALSE
