SPECIFICATION Spec
CONSTANTS
  alice = alice
  bob = bob
  v1 = v1
  v2 = v2
  o1 = o1
  o2 = o2
  None = None
  Users = {alice}
  Views = {v1}
  Owner <- OneView
  Posts <- BothPosts
  Syncing = {v1}
  Resetting = {}
  MaxKept = 2
  MaxTries = 1
  PowerLoss = FALSE
PROPERTIES
  OwnPostsStay
