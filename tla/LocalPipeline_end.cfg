CONSTANTS
  sword = sword
  conjured = conjured
  LastSlot = 2
  Forms <- MCForms
  Dynamic <- MCDynamic
  Reqs = {r1, r2, r3}
  MaxChange = 1
  MaxLoads = 1
  MaxRefused = 2
  None = None
  Oversize <- MCOversize
  Peers = {p1}
  Heartbeat = 1
  MaxChurn = 3
SPECIFICATION PipelineSpec
CHECK_DEADLOCK FALSE
INVARIANTS TypeOK FlagHasRequest CapturesBounded HandedOver
PROPERTIES PublishedIsFresh PeersSeePlayer SharesDisplays
