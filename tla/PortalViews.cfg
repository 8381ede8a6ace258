SPECIFICATION PortalsSpec
CONSTANTS
  Focus = {"portal", "workspaces", "view", "trust", "provider"}
  alice = alice
  bob = bob
  v1 = v1
  v2 = v2
  o1 = o1
  o2 = o2
  None = None
  Users = {alice}
  Views = {v1, v2}
  Owner <- TwoViews
  Posts <- EachPosts
  Syncing = {v2}
  Resetting = {}
  MaxKept = 2
  MaxTries = 1
  PowerLoss = FALSE
  Scopes = {p, q}
  MaxWorkspaces = 1
  MaxKeys = 2
  MaxMounts = 2
  MaxJobs = 2
  Careless = FALSE
  Readers = {r1, r2}
  Judged = {a, b}
  Portals = {p, q, r}
  MaxScopes = 2
  MaxAuthors = 2
  MaxVerdicts = 4
  Authors = {a}
  Days = {0, 1}
  Window = 0
  PerDay = 1
  Difficulties = {0, 1}
  MaxWrites = 2
  MaxRestarts = 1
INVARIANTS
  PortalsTypeOK
  Consistent
  InFlightConsistent
  AcceptedAsSigned
  PortalSound
  ProviderSound
PROPERTIES
  ImplementsLog
CHECK_DEADLOCK FALSE
