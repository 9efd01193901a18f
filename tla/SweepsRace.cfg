SPECIFICATION Spec
SYMMETRY SweepSymmetry
CHECK_DEADLOCK FALSE
CONSTANTS
  Sweep = {s1, s2, s3}
  Text = {v1}
  Sites = 2
  Caught = {1}
  Signals = 1
  Kills = 0
  Edits = 0
  Nobody = Nobody
  Orphan = Orphan
  Nothing = Nothing
INVARIANT NothingLeftBehind
