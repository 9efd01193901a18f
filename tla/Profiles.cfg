SPECIFICATION Spec
CONSTANTS
  None = None
  Junk = Junk
  Raised = Raised
  Pending = Pending
  MockProvider = "mock"
  ProviderOf <- MCProvider
  Submissions <- MCSubmissions
  MaxEdits <- MCMaxEdits
INVARIANT TypeOK
INVARIANT PoolIsRecount
INVARIANT CleanIsReissued
INVARIANT HonestIsClean
INVARIANT EditCosts
INVARIANT OutageMovesNothing
CHECK_DEADLOCK FALSE
