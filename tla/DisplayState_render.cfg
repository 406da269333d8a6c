CONSTANTS
  Spine = Spine
  Mov = Mov
  Hip = Hip
  Forms = {1, 2, 3}
  Unresolved = {2}
  LastSlot = 1
  Attachments = {1, 2, 3}
  Holder <- MCHolder
  Movable = {Mov}
  Poses = {a, b}
  MaxDisplays = 2
  None = None
SPECIFICATION Spec
CHECK_DEADLOCK FALSE
INVARIANTS TypeOK RoundTrip EachShownOnce
PROPERTY NoSpuriousChange
