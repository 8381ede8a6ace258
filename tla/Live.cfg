SPECIFICATION LiveSpec
CONSTANTS
  Focus = {"feed", "thread", "portal"}
  Clicks = {"c"}
  Page = 1
  Back = 4
  OlderLimit = 2
  MaxKept = 2
  Refusals = TRUE
  MaxPosts = 3
  ThreadPosts = 4
  Gone = {2}
  ThreadKept = 2
  MaxDepth = 2
  MaxAttempts = 2
  MaxQueued = 2
  alice = alice
  v1 = v1
  o1 = o1
  PortalKept = 1
  MaxTries = 2
  None = None
INVARIANTS
  LiveTypeOK
  NothingSkipped
PROPERTIES
  EveryPostShown
  OperationsEnd
  EveryGapEnds
CHECK_DEADLOCK FALSE
