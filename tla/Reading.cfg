SPECIFICATION ReadingSpec
CONSTANTS
  Focus = {"tabs", "loader", "media", "offline", "downloads",
           "messages", "letters", "places", "links"}
  None = None
  nym = nym
  deep = deep
  web = web
  site = site
  Urls <- Pages
  ServiceOf <- Service
  RedirectsTo <- Redirects
  AddressOf <- Origin
  Roots = {nym}
  Typed = {nym}
  PortalLinks = {nym, deep}
  Ids = {t1, t2, t3}
  Documents <- ReadPages
  Resources <- Linked
  Imports <- Imported
  Assets <- Named
  Length <- Bytes
  Cards <- WithCard
  Sheets <- Styled
  FilmSize <- EachFilm
  TaggedFilms = {f}
  Sizes <- Versions
  MaxTabs = 2
  MaxHistory = 2
  MaxCached = 1
  MaxNav = 2
  MaxRedirects = 1
  MaxResources = 4
  MaxResourceBytes = 2
  MaxTotalBytes = 5
  MaxCssDepth = 1
  Films = {f, g}
  MaxVersion = 1
  MaxTokens = 2
  MaxAsks = 1
  MaxWorkers = 2
  MaxChunk = 2
  MaxHops = 2
  MaxSaves = 2
  Files = {f, g}
  MediaFiles = {h}
  Chunk = 2
  MaxBytes = 3
  MaxChunks = 2
  MaxRetained = 3
SYMMETRY Symmetric
ACTION_CONSTRAINT Explored
INVARIANTS
  ReadingTypeOK
  TabsAgree
  SelfContained
  MediaBelongs
  SavedWhole
  ShellKeeps
PROPERTIES
  NewestWins
CHECK_DEADLOCK FALSE
