CONSTANTS
  Conns = {c1}
  Proxies = {p1}
  Helmet = Helmet
  NoHelmet = NoHelmet
  Contents <- MCContents
  Content <- MCContent
  MaxVersion = 3
  MaxChurn = 1
  DispatchMayFail = TRUE
  None = None
  Bare = Bare
  Mixed = Mixed
SPECIFICATION Spec
CHECK_DEADLOCK FALSE
INVARIANT RemovedItemsGo
