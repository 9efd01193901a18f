SPECIFICATION MCSpec
CHECK_DEADLOCK FALSE
CONSTANTS
  Sweep = {s1, s2, s3}
  Text = {v1, v2}
  Sites = 2
  Caught = {1}
  Signals = 2
  Kills = 1
  Edits = 2
  Nobody = Nobody
  Orphan = Orphan
  Nothing = Nothing
INVARIANT TypeOK
INVARIANT MutantNeedsLock
INVARIANT ScoreIsTrue
PROPERTY GivesBack
PROPERTY ArmedIsReleased
