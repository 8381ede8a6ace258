SPECIFICATION Spec
CONSTANTS
  alice = alice
  bob = bob
  v1 = v1
  v2 = v2
  o1 = o1
  o2 = o2
  None = None
  Users = {alice, bob}
  Views = {v1, v2}
  Owner <- OneEach
  Posts <- EachPosts
  Syncing = {v2}
  Resetting = {v2}
  MaxKept = 1
  MaxTries = 1
  PowerLoss = FALSE
INVARIANTS
  NoDangling
  SyncComplete
