CONSTANTS
  Conns = {c1}
  Proxies = {p1, p2}
  Helmet = Helmet
  NoHelmet = NoHelmet
  Contents <- MCContents
  Content <- MCContent
  MaxVersion = 2
  MaxChurn = 3
  DispatchMayFail = FALSE
  None = None
  Bare = Bare
  Mixed = Mixed
SPECIFICATION Spec
CHECK_DEADLOCK FALSE
INVARIANTS SignatureFaithful
PROPERTIES NeverBackwards Converges LeftoversGo Implements
