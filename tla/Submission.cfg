SPECIFICATION MCSpec
CHECK_DEADLOCK FALSE
CONSTANTS
  MaxDepth = 1
  BundleName = "b"
  Stacks = {1, 2, 9}
  Judgment = {"scope", "limitations"}
  Path <- MCPath
  Odd <- MCOdd
  Ignored <- MCIgnored
  Text <- MCText
  Object <- MCObject
  Edits = 1
  Commits = 1
INVARIANTS TypeOK DraftIsRefused DraftIsTheClosure UnwarnedIsCommitted SameAnswer ArchiveIsTheBundle VettedFirst HostIndependent DepthIsExact
PROPERTY AuthoredSurvives
