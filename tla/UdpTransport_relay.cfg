CONSTANTS
  a = a
  b = b
  r = r
  ea = ea
  eb = eb
  er = er
  ea2 = ea2
  key = key
  Nodes <- MCNodes
  Endpoints <- MCEndpoints
  Home <- MCHome
  Relays = {r, b}
  Discovering = {b}
  AutoRemote = {a}
  AutoSecret = {a, r}
  Lan = {b, r}
  Remote <- MCRemote
  Secret <- MCSecret
  Password <- MCPassword
  MaxStarts = 2
  MaxChurn = 1
  MaxNet = 1
  Gameplay = Gameplay
  None = None
SPECIFICATION Spec
CHECK_DEADLOCK FALSE
INVARIANTS TypeOK ForwardedOnce OwnIgnored
PROPERTIES AllHear DeadExpire
