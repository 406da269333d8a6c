CONSTANTS
  m1 = m1
  m2 = m2
  big = big
  Payloads <- MCPayloads
  Oversize <- MCOversize
  Peers = {p1}
  Heartbeat = 2
  MaxPublish = 3
  MaxChurn = 2
  None = None
SPECIFICATION Spec
CHECK_DEADLOCK FALSE
INVARIANT CurrentIsLatest
