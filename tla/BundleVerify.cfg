SPECIFICATION MCSpec
CONSTANTS
  NoScopeMV = NoScope
  NoRefMV = NoRef
  BadRefMV = BadRef
  NoPoolMV = NoPool
  NoScope = NoScope
  NoRef = NoRef
  BadRef = BadRef
  NoPool = NoPool
  NoSummary = NoSummary
  NoPrev = NoPrev
  Path <- MCPath
  Blob <- MCBlob
  StemOf <- MCStemOf
  Recompute <- MCRecompute
INVARIANTS TypeOK IncompleteIsNamed AcceptedIsClosed AcceptedIsRecomputed AcceptedSummaryIsEarned KnownKeyIsHeld HonestIsAccepted NothingIsHidden DeletedCheckCosts
CHECK_DEADLOCK FALSE
