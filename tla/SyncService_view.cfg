CONSTANTS
  p = p
  ada = ada
  bo = bo
  Players = {p}
  Me = me
  Characters <- MCCharacters
  bare = bare
  sword = sword
  Looks <- MCLooks
  Holes <- MCHoles
  Actors = {x, y}
  Profiles <- MCProfiles
  MaxRuns = 2
  MaxNet = 2
  MaxChurn = 2
  None = None
SPECIFICATION Spec
CHECK_DEADLOCK FALSE
INVARIANTS TypeOK RevisionNamesState NewestIsPresent
PROPERTIES AnswersRight  SnapshotsAdvance
