SPECIFICATION MCSpec
CHECK_DEADLOCK FALSE
CONSTANTS
  Name = {"a", "b"}
  Pending = "pending"
  Unnamed = "matrix"
  Missing = Missing
  Nothing = Nothing
  Blob <- MCBlob
  Reads <- MCReads
  Registry <- MCRegistry
  Runs = 2
  Changes = 1
  Accidents = 1
  Acknowledgements = 1
INVARIANTS TypeOK GreenIsEarned ReportedWasConcluded
PROPERTY StandingChangeIsReported
