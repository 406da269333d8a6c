CONSTANTS
  m1 = m1
  m2 = m2
  big = big
  Payloads <- MCPayloads
  Oversize <- MCOversize
  Peers = {p1, p2}
  Heartbeat = 2
  MaxPublish = 3
  MaxChurn = 6
  None = None
SPECIFICATION Spec
CHECK_DEADLOCK FALSE
INVARIANTS TypeOK DeliveredIsTaken
PROPERTIES PeersCatchUp OwnIdKnown
