CONSTANTS
  Conns = {c1, c2}
  Proxies = {p1, p2}
  Helmet = Helmet
  NoHelmet = NoHelmet
  Contents <- MCContents
  Content <- MCContent
  MaxVersion = 1
  MaxChurn = 3
  DispatchMayFail = TRUE
  None = None
  Bare = Bare
  Mixed = Mixed
SPECIFICATION Spec
CHECK_DEADLOCK FALSE
SYMMETRY Symmetry
INVARIANTS TypeOK RightAvatar
