SPECIFICATION Spec
CONSTANTS
  Clicks = {"c"}
  Page = 1
  Back = 3
  OlderLimit = 2
  MaxKept = 2
  Refusals = TRUE
  MaxPosts = 3
INVARIANTS
  PollingAlive
