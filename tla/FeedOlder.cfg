SPECIFICATION Spec
CONSTANTS
  Clicks = {}
  Page = 1
  Back = 4
  OlderLimit = 2
  MaxKept = 6
  Refusals = FALSE
  MaxPosts = 6
INVARIANTS
  NoHoles
