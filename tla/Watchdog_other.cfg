CONSTANTS
  Waist = Waist
  Hand = Hand
  Tiny = Tiny
  Smallest = Smallest
  Items <- MCItems
  Places <- MCPlaces
  Place <- MCPlace
  Poses <- MCPoses
  Pose <- MCPose
  Clamped <- MCClamped
  Default = Default
  Absent = Absent
  Theirs = Theirs
  NPCDisplays = TRUE
  MaxApply = 1
  MaxReset = 0
SPECIFICATION Spec
CHECK_DEADLOCK FALSE
INVARIANT OthersUntouched
